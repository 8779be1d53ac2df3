SPECIFICATION Services
CONSTANTS
  Callers = {c1, c2, c3}
  Keys <- MCKeys
  Space <- MCSpace
  CacheMax = 1
  Wall = 1
  Cooldown = 2
  NoKey = none
  MaxGen = 3
  N = 4
  Source <- MCSource
  Inputs <- MCInputs
  Drafts <- MCDrafts
  Text <- MCText
  Poison <- MCPoison
  Errors <- MCErrors
  Retryable <- MCRetryable
  Fatal <- MCFatal
  Batch = 3
  MaxFailedPct = 40
  Conns = {k1}
  Readers = {r1}
  Writers = {w1}
  Prewarms = {p1, p2}
  Attempts = 2
  Timeout = 1
  Backoff = 1
  Deadline = 2
  PerRequest = FALSE
  Faults = 1
  None = none
  Bearers = {b1}
  Tokens <- MCTokens
  KeyIds = {"k1", "k2"}
  Kind <- MCKind
  KeyOf <- MCKeyOf
  Life <- MCLife
  Long = 9
  PosTtl = 3
  NegTtl = 1
  JwksTtl = 2
  KeysCooldown = 1
  TokenCacheMax = 1
  Explicit = FALSE
  VendorPath = TRUE
  Issuer = TRUE
  Clients = {d1, d2}
  Chains = {h1, h2}
  MaxInflight = 1
  ProbeDeadline = 1
  TTL = 1
  DrainTime = 2
  NoOne = noone
CHECK_DEADLOCK FALSE
INVARIANT SingleFlight
INVARIANT VectorsAreTheirOwn
INVARIANT QuarantineIsJust
INVARIANT ServedWhenRight
PROPERTY TrippedByItsOwn
PROPERTY SearchesRecover
PROPERTY EveryPassageOnce
PROPERTY CheckoutsAreHonest
PROPERTY EveryCallerEnds
PROPERTY PulledKeysLapse
PROPERTY HeardAgain
PROPERTY AnswersComeBack
PROPERTY DoorDrains
PROPERTY EveryActEnds
