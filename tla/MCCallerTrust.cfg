\* Registered and unregistered signers, artifacts of other agents, revocation.
CONSTANTS
  a = a
  b = b
  ca = ca
  cb = cb
  cx = cx
  None = None
  Deliveries = {r1, r2}
  Requests = {q1}
  Proofs = {p1}
  Agents <- TwoAgents
  Certs <- ThreeCerts
  Registered <- TwoRegistered
  ansOf <- ThreeAnsOf
  notBefore <- ThreeNotBefore
  notAfter <- ThreeNotAfter
  Allowed <- OneAgent
  RequireReceipt = TRUE
  popSkew = 1
  replayGrace = 2
  statusSkew = 1
  TokenTTL = 1
  Offsets <- Ahead
  maxEntries = 1
  Retention = 1
  MaxLag = 1
  MaxTokens = 3
  Start = 2
  Horizon = 6
SYMMETRY Symmetry
SPECIFICATION Spec
INVARIANTS
  CallerIsSigner
  RevocationTakesEffect
CHECK_DEADLOCK FALSE
