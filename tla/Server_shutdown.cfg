CONSTANTS
  t1 = t1
  t2 = t2
  p1 = p1
  p2 = p2
  Boot = Boot
  NoClient = NoClient
  NoConn = NoConn
  Callers = {Boot, t1}
  Publishers = {p1}
  Lives <- MCRedisLife
  MaxRetries = 1
  MaxOutages = 1
  MaxMishaps = 0
SPECIFICATION Spec
PROPERTIES
  ShutdownEnds
CHECK_DEADLOCK FALSE
