SPECIFICATION ProgressSpec
CONSTANTS
  k1 = k1  k2 = k2  r1 = r1  r2 = r2  h1 = h1  h2 = h2  q1 = q1  q2 = q2  q3 = q3
  w1 = w1  w2 = w2  o1 = o1  m1 = m1  m2 = m2  None = None
  Requests = {q1}  NRows = 2  Sessions = {o1}  Workers = {w1}  BatchSize = 2
  SessionOf <- AckSession
  Kind <- AckKind
  MaxAttempts = 2  TimeoutFirst = TRUE  MaxClaims = 4  MaxFaults = 1
  Calls = {r1, r2}
  RequestOf <- AckRequest
  AllowUncertified <- AckProfile
  Parts = {"acks", "budget"}
PROPERTIES AnswersAreTrue BackgroundWorkEnds
CHECK_DEADLOCK FALSE
