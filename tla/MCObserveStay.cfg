\* One observer.
CONSTANTS
  counter = counter sub = sub
  Requests = {r1}
  Clients = {c1}
  Paths <- OnePath
  Prefix <- ResourcePath
  Slash = Slash
  Notifiers = {n1}
  MaxVersion = 1
  NumSpace = 8
  StartNums = {7}
  HandlerNumber <- NoNumbers
  None = None
SPECIFICATION Spec
INVARIANTS
  StayActiveKeepsObservers
CHECK_DEADLOCK FALSE
