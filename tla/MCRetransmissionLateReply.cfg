\* One send with one retransmission is enough.
CONSTANTS
  Sends = {s1}
  Streams = {{s1}}
  Peers = {p1}
  MidSpace = 2
  MaxRetransmit = 1
  None = None
SPECIFICATION Spec
INVARIANT LateReplyIsHarmless
CHECK_DEADLOCK FALSE
