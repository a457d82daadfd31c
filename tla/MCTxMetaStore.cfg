\* Four hashes, room for two, entries that live for three Instants.
SPECIFICATION Spec
CONSTANTS
  Hash = {h1, h2, h3, h4}
  Cap = 2
  Ttl = 3
  MaxTime = 9
  Absent = Absent
SYMMETRY StoreSymmetry
INVARIANTS TypeOK EveryEntryQueued WithinCap QueueIsRecent
PROPERTY EvictsOldestFirst
