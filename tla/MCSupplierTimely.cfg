\* The loop beside a forced refresh, over more than a lifetime.
CONSTANTS
  Requests = {}
  Refreshers = {r1}
  Loop = loop
  TTL = 25
  Ages = {0}
  clockSkew = 1
  minInterval = 2
  MaxFetch = 1
  Horizon = 40
  None = None
SPECIFICATION Spec
INVARIANTS
  OneFailureIsRidden
