\* Two clients and three requests on one path: re-registration, deregistration
\* and a path that ends and starts again.
CONSTANTS
  counter = counter sub = sub
  Requests = {r1, r2, r3}
  Clients = {c1, c2}
  Paths <- OnePath
  Prefix <- ResourcePath
  Slash = Slash
  Notifiers = {n1}
  MaxVersion = 1
  NumSpace = 8
  StartNums = {7}
  HandlerNumber <- NoNumbers
  None = None
SPECIFICATION Spec
SYMMETRY Symmetry
INVARIANTS
  TypeOK
  OnActiveIsNotConcurrent
  LifecycleFindsItsPath
  ListenersAreRegistered
  DetachFindsItsEntry
  RegistryInv
PROPERTY
  ObservationsSpec
CHECK_DEADLOCK FALSE
