SPECIFICATION Spec
CONSTANTS
  MaxSize = 9
  MaxHashPathLen = 4
  MaxInt64 = 7
  MaxClockSkew = 2
  MaxCertArrayLen = 2
  ReceiptTTL = 1
  None = None
  Missing = Missing
  Absent = Absent
  logKey = logKey
  otherKey = otherKey
  strangeKey = strangeKey
  signerKey = signerKey
  own = own
  foreign = foreign
  a1 = a1
  a2 = a2
  a3 = a3
  Tasks <- AllTasks
  Tree <- Events
  Lookup <- Store
  LogKey = logKey
  LogKid = "k1"
  LogName = "log"
  ReceiptMessages <- Receipts
  Notes <- OfTask
  IssuedTokens <- Signed
  TokenMessages <- Kept
  Agents = {a1, a2, a3}
  MaxEntries = 2
  Skews <- ZeroSkewUp
  Peers <- AllPeers
  Lookups <- AllLookups
  Sent <- AllSent
  Delivered <- AllDelivered
  Middlewares <- AllMiddlewares
  Signer <- TheSigner
  MaxTime = 5
INVARIANTS
  CoveredIsIncluded
  IssuedReceiptIsCovered
  OrderIndependent
  CachesMirror
  CachedIsUsable
  ScittDecides
  SignedRequestVerifies
  AcceptedIsBound
CHECK_DEADLOCK FALSE
