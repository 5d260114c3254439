SPECIFICATION Spec
CONSTANTS
  Near = {"gateway", "near", "dns"}
  Far = {"far"}
  Gateway = "gateway"
  Servers = {"dns", "far"}
  Names = {"one", "two"}
  NoName = "no name"
  ArpSlots = 2
  TxidCount = 5
  MaxCalls = 4
  MaxNetCalls = 3
  Services <- MCServices
  SendLens = {1, 3}
  SegmentLen = 2
  Window = 4
  MaxPayload = 2
  Segments <- MCSegments
INVARIANTS FramesGoToNextHop PingMeansReply ResolvedIsAsked DatagramIsFresh ReceivedIsFromPeer  SegmentsApart
CHECK_DEADLOCK FALSE
