SPECIFICATION FairSystemSpec
CONSTANTS
  r1 = r1
  r2 = r2
  alice = alice
  bob = bob
  NoRequest = NoRequest
  NoToken = NoToken
  Token = {alice, bob}
  Request = {r1, r2}
  Bearer <- MCBearer
  Modes = {"direct_db_read", "stateless_https", "stateful_tls", "async_jetstream"}
  Anonymous = {}
  ApiBodies = {"ok"}
  LongTokens = {}
  Topologies <- MCTopologies
  AsyncTimeout = 1
  SleepTime = 1
  GetBound = 0
PROPERTY DashboardSpec
PROPERTY EveryPageFinishes
