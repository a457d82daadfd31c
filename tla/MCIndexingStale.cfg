\* A page that was read before a fork switch: the receipt of the abandoned block, the height of the new one.
SPECIFICATION Spec
CONSTANTS
  k1 = k1
  k2 = k2
  k3 = k3
  t1 = t1
  t2 = t2
  Kid = {k1, k2}
  Tx = {t1, t2}
  KTx <- OnceEach
  Ours = {k1}
  Handlers = {}
  PageSize = 2
  BlockCap = 2
  MaxHeight = 2
  MaxReorgs = 1
  MaxPasses = 2
  MaxErrors = 1
  PollCap = 0
  NotEvm = NotEvm
  Poller = Poller
  None = None
INVARIANT ExecutionWins
