SPECIFICATION Spec
CONSTANTS
  r1 = r1
  r2 = r2
  r3 = r3
  r4 = r4
  alice = alice
  bob = bob
  NoRequest = NoRequest
  NoToken = NoToken
  Token = {alice, bob}
  Request = {r1, r2, r3, r4}
  Bearer <- MCBearer
  Modes = {"direct_db_read", "stateless_https", "stateful_tls", "async_jetstream"}
  Anonymous = {r2, r3, r4}
INVARIANT EveryAuthOutcomeEmitted
