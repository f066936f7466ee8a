SPECIFICATION TimedSpec
CONSTANTS
  r1 = r1
  r2 = r2
  r3 = r3
  alice = alice
  bob = bob
  NoRequest = NoRequest
  NoToken = NoToken
  Token = {alice, bob}
  Request = {r1, r2, r3}
  Bearer <- MCBearer
  ApiBodies = {"ok", "unavailable"}
  LongTokens = {}
  ConnectTimeout = 2
  IoTimeout = 1
INVARIANT TimedTypeOK
INVARIANT OwnAlarmsOnly
INVARIANT CleanHandover
INVARIANT RetryOnFreshStream
INVARIANT ContractBlame
INVARIANT LockIsReleased
INVARIANT WaitIsBounded
