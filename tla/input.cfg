SPECIFICATION Spec
CONSTANTS
  Keys = {"A", "Shift", "AltGr"}
  RingSize = 3
  MouseSlots = 2
  Mice = {"plain", "wheel", "none"}
  Bound <- MCBound
INVARIANTS KeysInOrder NoDoubleMake BytesGoToTheirDevice
PROPERTIES KeysAreHandled
