SPECIFICATION Spec
CONSTANTS
  c1 = c1
  c2 = c2
  c3 = c3
  nginx = nginx
  own = own
  Clients <- MCClients
  Hosts <- MCHosts
  HostOf <- MCHostOf
  MaxRequests = 2
  Window = 2
  MaxTime = 5
INVARIANT RefusedForOwnRequests
