\* The indexer alone, on an irreversible chain: duplicates, an entry of another kind, a failed call or restart.
SPECIFICATION FairSpec
CONSTANTS
  k1 = k1
  k2 = k2
  k3 = k3
  t1 = t1
  t2 = t2
  Kid = {k1, k2, k3}
  Tx = {t1}
  KTx <- TwiceAndOther
  Ours = {k1}
  Handlers = {}
  PageSize = 2
  BlockCap = 1
  MaxHeight = 3
  MaxReorgs = 0
  MaxPasses = 1
  MaxErrors = 1
  PollCap = 0
  NotEvm = NotEvm
  Poller = Poller
  None = None
INVARIANT ExecutionWins
PROPERTIES CursorCatchesUp ExecutionIsServed
