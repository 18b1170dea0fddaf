\* An observer and a second request, one change.
CONSTANTS
  counter = counter sub = sub
  Requests = {r1, r2}
  Clients = {c1, c2}
  Paths <- OnePath
  Prefix <- ResourcePath
  Slash = Slash
  Notifiers = {n1}
  MaxVersion = 1
  NumSpace = 8
  StartNums = {7}
  HandlerNumber <- NoNumbers
  None = None
SPECIFICATION Spec
INVARIANT RestingObserverIsCurrent
CHECK_DEADLOCK FALSE
