\* An entry of another kind above the LIB, and a fork switch.
SPECIFICATION Spec
CONSTANTS
  k1 = k1
  k2 = k2
  k3 = k3
  t1 = t1
  t2 = t2
  Kid = {k1, k2}
  Tx = {t1}
  KTx <- OnceAndOther
  Ours = {}
  Handlers = {}
  PageSize = 2
  BlockCap = 1
  MaxHeight = 2
  MaxReorgs = 1
  MaxPasses = 2
  MaxErrors = 0
  PollCap = 0
  NotEvm = NotEvm
  Poller = Poller
  None = None
INVARIANT NoEntrySkipped
