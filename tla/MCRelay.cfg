\* Safety under interference: two calls, and up to three foreign operator
\* transactions, mempool losses and proxy restarts in any mix.
SPECIFICATION Spec
CONSTANTS
  Tx = {t1, t2}
  Req = {r1, r2}
  Evictable = {t1, t2}
  MaxFaults = 3
  None = None
  Free = Free
  Foreign = Foreign
SYMMETRY RelaySymmetry
INVARIANTS TypeOK NoNonceGap InflightExact NoOrphanPlaceholder RelayedOnce AdmittedIsKnown
PROPERTIES NoStepDownUnderSubmit ImplementsOnceLedger
