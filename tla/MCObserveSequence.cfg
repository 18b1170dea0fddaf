\* One notifier; the sequence wraps around at its first step.  Two paths that
\* share an entry of the holder.
CONSTANTS
  counter = counter sub = sub
  Requests = {r1, r2}
  Clients = {c1}
  Paths <- SameKey
  Prefix <- ResourcePath
  Slash = Slash
  Notifiers = {n1}
  MaxVersion = 2
  NumSpace = 8
  StartNums = {7}
  HandlerNumber <- SomeNumbers
  None = None
SPECIFICATION Spec
INVARIANT
  NotifiedObserverIsCurrent
PROPERTY
  SequenceNeverRunsBackwards
CHECK_DEADLOCK FALSE
