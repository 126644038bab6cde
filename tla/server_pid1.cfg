SPECIFICATION Spec
CONSTANTS
  c1 = c1
  c2 = c2
  probe = probe
  Probe = probe
  Clients <- MCClients
  MaxRequests <- MCMaxRequests
  MaxFds = 2
PROPERTIES SigtermStops
CHECK_DEADLOCK FALSE
