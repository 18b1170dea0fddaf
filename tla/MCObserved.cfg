\* Two requests of two peers, of which both may get the only message ID.
SPECIFICATION ObservedFairSpec
CONSTANTS
  e1 = e1  e2 = e2  p1 = p1  p2 = p2
  core = core  rt = rt  a = a  s = s
  Exchanges = {e1, e2}
  Peers = {p1, p2}
  Tokens = {t1}
  MaxNotify <- MaxNotifyOfRun
  MidSpace = 1
  MaxRetransmit = 0
  None = None
  Empty = Empty
  CorePath <- Core
  NoText = NoText
  NotText = NotText
  Obs = obs
  FormatNumber <- Formats
  Apps <- AppsOfRun
  Packets <- PacketsOfRun
  Paths <- PathsOfRun
  Prefix <- PrefixOfRun
  Slash = s
  Notifiers = {n1}
  MaxVersion = 1
  NumSpace = 8
  StartNums = {7}
  HandlerNumber <- NoNumbers
INVARIANT LastPublicationWasAcknowledged
PROPERTIES
  ObserversCatchUp
  TerminatedLoopStops
  IdlePathIsReleased
CHECK_DEADLOCK FALSE
