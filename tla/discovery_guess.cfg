SPECIFICATION GateSpec
CONSTANTS
  t1 = t1
  t2 = t2
  t3 = t3
  k1 = k1
  k2 = k2
  Bearers = {c1}
  Tokens = {t1, t2, t3}
  KeyIds = {k1, k2}
  Kind <- MCKind
  KeyOf <- MCKeyOf
  Life <- MCLife
  Long = 9
  PosTtl = 2
  NegTtl = 2
  JwksTtl = 1
  KeysCooldown = 1
  TokenCacheMax = 1
  Explicit = FALSE
  VendorPath = FALSE
  Issuer = TRUE
PROPERTY HeardAgain
