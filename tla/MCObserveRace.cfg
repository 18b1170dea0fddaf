\* Two notifiers for one observer.
CONSTANTS
  counter = counter sub = sub
  Requests = {r1}
  Clients = {c1}
  Paths <- OnePath
  Prefix <- ResourcePath
  Slash = Slash
  Notifiers = {n1, n2}
  MaxVersion = 2
  NumSpace = 8
  StartNums = {7}
  HandlerNumber <- NoNumbers
  None = None
SPECIFICATION Spec
PROPERTIES
  SequenceNeverRunsBackwards
CHECK_DEADLOCK FALSE
