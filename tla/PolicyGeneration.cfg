\* An eviction forgets the generation of an organisation.
SPECIFICATION MCSpec
CONSTANTS
  k1 = k1  k2 = k2  r1 = r1  r2 = r2  t1 = t1  h1 = h1  h2 = h2  q1 = q1  q2 = q2
  q3 = q3  q4 = q4  w1 = w1  w2 = w2  o1 = o1  o2 = o2
  Parts = {"snapshots"}
  Jobs = {q1, q2, q3, q4}  Trying = {q3, q4}  NoJob = NoJob
  Workers = {w1, w2}  Stoppers = {r1, r2}  QueueSize = 1
  CacheKinds = {"policy", "budget"}  Orgs = {o1, o2}  Patterns = {k1, k2}  Seeded = {k1}
  Readers = {r1, r2}  Writers = {w1, w2}  None = None
  Scenarios <- EvictionCases
  Capacity = 1  MaxLoads = 2  MaxLosses = 1
  Keys = {k1, k2}
  Callers = {r1, r2, t1}
  Proxy = {r1, r2}
  KeyOf <- MCKeyOf
  HashOf <- MCHashOf
  Estimates = {1}
  Costs = {1}
  Cap = 1
  Spends = {1}
  NPeriods = 1
  Skewed = FALSE
  SweepLimit = 1
  MaxTries <- MCTries
  MaxFaults = 1
INVARIANTS FreshAfterInvalidate
CHECK_DEADLOCK FALSE
