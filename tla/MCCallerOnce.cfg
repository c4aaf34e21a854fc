\* One caller signs two proofs; three deliveries race, late within the grace.
CONSTANTS
  a = a
  b = b
  ca = ca
  cb = cb
  cx = cx
  None = None
  Deliveries = {r1, r2, r3}
  Requests = {q1, q2}
  Proofs = {p1, p2}
  Agents <- OneAgent
  Certs <- OneCert
  Registered <- OneRegistered
  ansOf <- OneAnsOf
  notBefore <- OneNotBefore
  notAfter <- OneNotAfter
  Allowed <- NoPins
  RequireReceipt = TRUE
  popSkew = 1
  replayGrace = 2
  statusSkew = 1
  TokenTTL = 4
  Offsets <- Exact
  maxEntries = 1
  Retention = 1
  MaxLag = 1
  MaxTokens = 1
  Start = 2
  Horizon = 5
SYMMETRY Symmetry
SPECIFICATION Spec
INVARIANTS
  TypeOK
  AtMostOnce
  SlotsHeldByAccepted
  ReplayMeansAnotherServed
CHECK_DEADLOCK FALSE
