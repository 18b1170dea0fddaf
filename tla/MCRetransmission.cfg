\* Three sends over two message IDs: two of them share no key, the third one
\* wraps around onto a key that may still be in use.  Each has a stream of its
\* own, so that any of them may be the one that can no longer transmit.
CONSTANTS
  Sends = {s1, s2, s3}
  Streams = {{s1}, {s2}, {s3}}
  Peers = {p1, p2}
  MidSpace = 2
  MaxRetransmit = 1
  None = None
SPECIFICATION Spec
SYMMETRY Symmetry
INVARIANTS
  TypeOK
  PendingSendIsReachable
  OutcomeIsJustified
  AnswerMatchesSend
  AnswerBelongsToSend
  OnlyAbandonedSendsPanic
  IInv
PROPERTIES
  PromiseSpec
CHECK_DEADLOCK FALSE
