SPECIFICATION Spec
CONSTANTS
  c1 = c1
  c2 = c2
  s1 = s1
  s2 = s2
  k1 = k1
  k2 = k2
  k3 = k3
  k4 = k4
  None = None
  Clients <- MCClients
  Servers <- MCServers
  Conns <- MCConns
  ClientOf <- MCClientOf
  ServerOf <- MCServerOf
  Scenarios <- MCScenarios
  MaxRequests = 3
  RcvHwm = 1
INVARIANT TypeOK
INVARIANT RecvServed
PROPERTY KeepsStep
CHECK_DEADLOCK FALSE
