\* A rejected duplicate and the execution in one block.
SPECIFICATION Spec
CONSTANTS
  k1 = k1
  k2 = k2
  k3 = k3
  t1 = t1
  t2 = t2
  Kid = {k1, k2, k3}
  Tx = {t1, t2}
  KTx <- TwiceAndOnce
  Ours = {}
  Handlers = {}
  PageSize = 3
  BlockCap = 2
  MaxHeight = 1
  MaxReorgs = 0
  MaxPasses = 2
  MaxErrors = 0
  PollCap = 0
  NotEvm = NotEvm
  Poller = Poller
  None = None
INVARIANT ExecutionWins
