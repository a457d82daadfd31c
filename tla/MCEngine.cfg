\* One read and one write or event may fail.
SPECIFICATION Spec
CONSTANTS
  a = a
  b = b
  x0 = x0
  x1 = x1
  y0 = y0
  bad = bad
  Raw = {x0, x1, y0, bad}
  Sender <- SmallSender
  Nonce <- SmallNonce
  Parses = {x0, x1, y0}
  OnChain = {x0, x1, y0}
  Eoa = {a, b, zero}
  Coinbase = zero
  Contract = {c}
  Hash = {h}
  MaxTouched = 2
  MaxLogs = 1
  MaxReceipts = 3
  MaxReadFaults = 1
  MaxWriteFaults = 1
  NoCode = NoCode
  None = None
CHECK_DEADLOCK FALSE
INVARIANTS TypeOK RunsAtMostOnce NoOrphanStorage CodeIsThere EndedReceiptIsTrue
PROPERTY AllOrNothing
