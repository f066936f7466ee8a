SPECIFICATION FairSpec
CONSTANTS
  r1 = r1
  r2 = r2
  r3 = r3
  alice = alice
  bob = bob
  NoRequest = NoRequest
  NoToken = NoToken
  Token = {alice, bob}
  Request = {r1, r2}
  Bearer <- MCPair
  Topologies <- MCProvisioned
  ApiBodies = {"ok"}
  AsyncTimeout = 1
  SleepTime = 2
  GetBound = 1
PROPERTY EveryOperationFinishes
