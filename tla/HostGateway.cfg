CONSTANTS
  host = host
  Host = {host}
  Stream = {s1, s2}
  None = None
  Lease = 2
  MaxTime = 2
  MaxRestarts = 1
  MaxSetBacks = 1
  HostOf <- MCHostOf
  Target = {t1, t2, t3}
  Worker = {w1, w2}
  RowsPerTarget = 2
  BatchSize = 3
  NoTarget = NoTarget
SPECIFICATION HostSpec
INVARIANT OnlyNewestConnected
INVARIANT DirectoryExact
INVARIANT EndedUnlisted
INVARIANT RowsAccounted
PROPERTY StaleBindingEnds
PROPERTY QueryCloses
CHECK_DEADLOCK FALSE
