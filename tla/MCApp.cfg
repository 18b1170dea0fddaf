\* Two exchanges of two peers and three notifications: with two message IDs
\* the third one takes the ID of the first.
CONSTANTS
  e1 = e1  e2 = e2  p1 = p1  p2 = p2  a = a  b = b  wellKnown = w  core = c
  rt = rt  ct = ct  x = x  y = y  json = json  fifty = fifty
  Exchanges = {e1, e2}
  Peers = {p1, p2}
  MaxNotify <- NotifyOfRun
  MidSpace = 2
  MaxRetransmit = 0
  None = None
  Empty = Empty
  CorePath <- Core
  NoText = NoText
  NotText = NotText
  Obs = obs
  FormatNumber <- Formats
  Apps <- AppsOfRun
  Packets <- PacketsOfRun
SPECIFICATION FairSpec
INVARIANTS
  TypeOK
  RoutedToMostSpecific
  DiscoveryIsServed
  DiscoveryMatchesQuery
  AnsweredOnce
  NotificationsInTurn
  AcknowledgedByItsClient
PROPERTIES
  ObservationsGoOn
  RequestsAreAnswered
CHECK_DEADLOCK FALSE
