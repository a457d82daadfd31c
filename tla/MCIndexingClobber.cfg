\* A receipt read before the indexer's write and stored after it.
SPECIFICATION Spec
CONSTANTS
  k1 = k1
  k2 = k2
  k3 = k3
  t1 = t1
  t2 = t2
  Kid = {k1, k2}
  Tx = {t1}
  KTx <- OnceAndOther
  Ours = {k1}
  Handlers = {}
  PageSize = 2
  BlockCap = 1
  MaxHeight = 1
  MaxReorgs = 0
  MaxPasses = 2
  MaxErrors = 0
  PollCap = 1
  NotEvm = NotEvm
  Poller = Poller
  None = None
PROPERTY AuthoritativeStays
