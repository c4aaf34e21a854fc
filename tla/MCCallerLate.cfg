\* As MCCallerOnce, but reading the content may take as long as the grace.
CONSTANTS
  a = a
  b = b
  ca = ca
  cb = cb
  cx = cx
  None = None
  Deliveries = {r1, r2}
  Requests = {q1, q2}
  Proofs = {p1, p2}
  Agents <- OneAgent
  Certs <- OneCert
  Registered <- OneRegistered
  ansOf <- OneAnsOf
  notBefore <- OneNotBefore
  notAfter <- OneNotAfter
  Allowed <- NoPins
  RequireReceipt = TRUE
  popSkew = 1
  replayGrace = 2
  statusSkew = 1
  TokenTTL = 4
  Offsets <- Exact
  maxEntries = 1
  Retention = 1
  MaxLag = 2
  MaxTokens = 1
  Start = 2
  Horizon = 6
SYMMETRY Symmetry
SPECIFICATION Spec
INVARIANTS
  AtMostOnce
CHECK_DEADLOCK FALSE
