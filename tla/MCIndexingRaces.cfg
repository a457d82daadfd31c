\* Every writer at once, and a failed call or restart.
SPECIFICATION Spec
CONSTANTS
  k1 = k1
  k2 = k2
  k3 = k3
  t1 = t1
  t2 = t2
  Kid = {k1, k2}
  Tx = {t1, t2}
  KTx <- OnceEach
  Ours = {k1, k2}
  Handlers = {h1}
  PageSize = 2
  BlockCap = 2
  MaxHeight = 1
  MaxReorgs = 0
  MaxPasses = 2
  MaxErrors = 1
  PollCap = 1
  NotEvm = NotEvm
  Poller = Poller
  None = None
INVARIANTS TypeOK UniquePositions
