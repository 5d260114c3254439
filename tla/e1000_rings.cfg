SPECIFICATION Spec
CONSTANTS
  TxSlots = 3
  RxSlots = 4
  Slots = 2
  Funcs = 2
  MaxSends = 4
  MaxArrivals = 7
INVARIANTS TransmitsInOrder
PROPERTIES ImplementsQueue
CHECK_DEADLOCK FALSE
