CONSTANTS
  Conn = {k1, k2}
  Caller = {p1, p2, p3}
  MaxUint = 3
  Branch = {b1, b2, b3}
  ResourceManager = {m1, m2}
  MaxSent = 3
  MaxBatch = 2
SPECIFICATION SDKSpec
INVARIANT UsedOpen
INVARIANT ClosedOnce
INVARIANT Accounted
INVARIANT StreamsExact
PROPERTY CloseReturns
