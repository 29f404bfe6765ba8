CONSTANTS
  table = table
  view = view
  c1 = c1
  c2 = c2
  c3 = c3
  b1 = b1
  w1 = w1
  Entity = {table, view}
  Dependents <- MCDependents
  Reads <- MCReads
  Conn = {c1, c2, c3}
  Branch = {b1}
  Reader = {r1}
  Worker = {w1}
  MaxEntries = 2
  MaxBytes = 2
  MaxEntryBytes = 2
  MaxCalls = 6
  NativeCalls = 3
SPECIFICATION CacheSpec
INVARIANT CacheFresh
INVARIANT NothingUncommitted
INVARIANT StoreSound
SYMMETRY Symmetry
