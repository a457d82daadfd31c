\* Four heights with a catch-up of one, pages and the channel of one: every limit
\* is reached.  One subscription at a time; one restart or moved log.
SPECIFICATION FairSpec
CONSTANTS
  MaxHeight = 4
  CatchUp = 1
  PageSize = 1
  ChanSize = 1
  Log <- MCLog
  Filter <- MCFilter
  LogHeight = {1, 2}
  MaxSubs = 1
  Heads = Heads
  MaxFaults = 1
INVARIANTS HeadsInOrder LogsOnce TailLeavesNone
PROPERTIES FeedsCatchUp
