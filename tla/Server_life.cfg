CONSTANTS
  t1 = t1
  t2 = t2
  p1 = p1
  p2 = p2
  Boot = Boot
  NoClient = NoClient
  NoConn = NoConn
  Callers = {Boot, t1, t2}
  Publishers = {p1, p2}
  Lives <- MCLives
  MaxRetries = 1
  MaxOutages = 1
  MaxMishaps = 1
SPECIFICATION Spec
INVARIANTS
  TypeOK
  OneOpenClient
  GotIsOpen
  ConnectedMeansOpen
  LeaksAreCounted
PROPERTIES
  CleanAuditArrives
  StartupSettles
CHECK_DEADLOCK FALSE
