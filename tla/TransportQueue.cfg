SPECIFICATION FairSpec
CONSTANTS
  a1 = a1
  a2 = a2
  AuthInfos <- MCAuthInfos
  Clients = {c1, c2, c3}
  Requests = {r1, r2, r3}
  NoRequest = NoRequest
  Faults <- MCFaults
INVARIANT UsingOpen
 
PROPERTY Served
