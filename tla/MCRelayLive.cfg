\* Progress and healing: two calls that contend for the gate, one disturbance.
SPECIFICATION FairSpec
CONSTANTS
  Tx = {t1, t2}
  Req = {r1, r2}
  Evictable = {}
  MaxFaults = 1
  None = None
  Free = Free
  Foreign = Foreign
PROPERTIES EverySubmitEnds DriftHeals
