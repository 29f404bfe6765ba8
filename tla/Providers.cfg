CONSTANTS
  Conns = {c1, c2}
  Tasks = {t1, t2}
  n1 = n1
  n2 = n2
  k1 = k1
  k2 = k2
  Off = Off
  Namespaces <- TwoNamespaces
  MaxRuns = 1
  None = None
SPECIFICATION ProvidersSpec
INVARIANT SessionsSound
INVARIANT EofComplete
INVARIANT PublishedUsable
PROPERTY ImplementsLease
PROPERTY LeaseServed
PROPERTY WritesExact
PROPERTY RedisExact
CHECK_DEADLOCK FALSE
