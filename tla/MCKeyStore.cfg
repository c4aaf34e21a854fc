\* Two callers on demand and one background loop; fetches fail or answer.
CONSTANTS
  k1 = k1
  k2 = k2
  k3 = k3
  logA = logA
  logB = logB
  Kids = {k1, k2, k3}
  Names = {logA, logB}
  Unparseable = Unparseable
  InitialKeys <- OneKey
  None = None
  OnDemand = {c1, c2}
  Direct = {bg}
  Responses <- Answers
  cooldown = 2
  MaxTime = 4
SPECIFICATION FairSpec
INVARIANTS
  TypeOK
PROPERTIES
  KeysArePinned
  OnDemandSpaced
  CallersReturn
