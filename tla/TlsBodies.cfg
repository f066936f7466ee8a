SPECIFICATION FairSpec
CONSTANTS
  r1 = r1
  r2 = r2
  r3 = r3
  alice = alice
  bob = bob
  carol = carol
  NoRequest = NoRequest
  NoToken = NoToken
  Token = {alice, bob, carol}
  Request = {r1, r2, r3}
  Bearer <- MCLong
  ApiBodies = {"ok", "unauthorized", "unavailable", "okWithError", "invalid", "malformed", "oversized"}
  LongTokens = {carol}
INVARIANT LongFailsAlone
PROPERTY ServiceSpec
PROPERTY EveryRequestFinishes
