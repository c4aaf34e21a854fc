\* Two requests race for the gate beside the loop; the log may serve a token that
\* expires at once but verifies, thanks to the tolerance.
CONSTANTS
  Requests = {c1, c2}
  Refreshers = {}
  Loop = loop
  TTL = 2
  Ages = {0, 2}
  clockSkew = 1
  minInterval = 1
  MaxFetch = 1
  Horizon = 3
  None = None
SPECIFICATION FairSpec
INVARIANTS
  TypeOK
PROPERTIES
  NoExpiredTokenHandedOut
  InitialisedOnce
  CallsReturn
