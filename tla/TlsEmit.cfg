SPECIFICATION Spec
CONSTANTS
  r1 = r1
  r2 = r2
  r3 = r3
  alice = alice
  bob = bob
  carol = carol
  NoRequest = NoRequest
  NoToken = NoToken
  Token = {alice, bob}
  Request = {r1, r2}
  Bearer <- MCPair
  ApiBodies = {"ok"}
  LongTokens = {}
INVARIANT EveryOutcomeEmitted
