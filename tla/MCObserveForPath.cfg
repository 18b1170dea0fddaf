\* Two observed paths, one below the other.
CONSTANTS
  counter = counter sub = sub
  Requests = {r1, r2}
  Clients = {c1}
  Paths <- OneBelow
  Prefix <- ResourcePath
  Slash = Slash
  Notifiers = {n1}
  MaxVersion = 1
  NumSpace = 8
  StartNums = {7}
  HandlerNumber <- NoNumbers
  None = None
SPECIFICATION Spec
PROPERTY
  RelevantPathsAreNotified
CHECK_DEADLOCK FALSE
