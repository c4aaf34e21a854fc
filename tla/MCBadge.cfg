\* Two calls beside the refresh, over a cache of one entry.
CONSTANTS
  h1 = h1
  h2 = h2
  b1 = b1
  f1 = f1
  old = old
  new = new
  own = own
  anon = anon
  k1 = k1
  k2 = k2
  None = None
  Hosts = {h1, h2}
  Versions <- OneVersion
  MaxEntries = 1
  DefaultTTL = 1
  RefreshThreshold = 1
  StaleRetention = 1
  Calls = {g1, g2}
  Refresher = bg
  Badges = {b1, f1}
  Trusted = {b1}
  Certs = {old, new, own, anon}
  nameOf <- BadgeNames
  nameIn <- CertNames
  InitialLog <- Log
  Renewals <- New
  DnsAnswers <- Dns
  TlsaAnswers <- Tlsa
  keyOf <- CertKeys
  FingerprintOnly = {own}
  Requests <- Asked
  Configs <- AnyVerifier
  MaxStaleness = 1
  MaxLag = 1
  MaxTime = 3
SYMMETRY Symmetry
SPECIFICATION Spec
INVARIANTS
  TypeOK
  CapacityRespected
PROPERTIES
  VerifiedWasRegistered
  RenewalTakesEffect
