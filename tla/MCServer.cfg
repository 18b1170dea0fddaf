\* Two datagrams of two peers with up to two responses each, through a channel
\* for one.
CONSTANTS
  p1 = p1 p2 = p2 group4 = group4 addr4 = addr4
  eth4 = eth4 eth6 = eth6 wlan6 = wlan6
  AllCoap4 = AllCoap4 AllCoapLink6 = AllCoapLink6 AllCoapSite6 = AllCoapSite6
  AnyInterface = AnyInterface
  Transports <- Builds
  Locals <- Addresses
  Peers = {p1, p2}
  SendOutcomes <- Outcomes
  MaxDatagrams = 2
  MaxResponses = 2
  RelayCap = 1
  None = None
SPECIFICATION FairSpec
INVARIANTS
  TypeOK
  BoundAsConfigured
  RepliesGoToTheirRequester
  RepliesAreInOrder
  NothingVanishes
  OnlyUnencodableResponsesPanic
PROPERTIES
  RelaySpec
  RequestsAreServed
  ResponsesLeave
CHECK_DEADLOCK FALSE
