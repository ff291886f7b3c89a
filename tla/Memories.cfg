SPECIFICATION MCSpec
CONSTANTS
  m1 = m1  m2 = m2  m3 = m3  h1 = h1  h2 = h2
  c1 = c1  c2 = c2  e1 = e1  w1 = w1  w2 = w2
  Creates = {m1, m2, m3}
  FromSession = {m1, m3}
  HashOf <- MCHashOf
  Older <- MCOlder
  MaxFaults = 1
  Callers = {c1, c2}
  Jobs = {1, 2}
  Workers = {w1, w2}
  Events = {e1}
  Foreign = {}
  Scopes = {h1}
  Topologies <- MCTopologies
  Scenarios <- Together
  MaxMishaps = 1
INVARIANTS NothingSurvivesThePurge NoWriteAcrossForget RevisionsAreTold RetriesFindTheirMemory FeedbackIsCounted
 
CHECK_DEADLOCK FALSE
