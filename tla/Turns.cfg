SPECIFICATION MCSpec
CONSTANTS
  q1 = q1  q2 = q2  q3 = q3  s1 = s1  w1 = w1  w2 = w2
  t1 = t1  t2 = t2  t3 = t3  p1 = p1  p2 = p2  k1 = k1  h1 = h1  h2 = h2
  RedisKeys = {k1}  Posts = {q1, q2, q3}  Nobody = Nobody
  RedisKey <- OneKey
  Fingerprint <- Bodies
  MaxTries = 2
  MaxErrors = 4
  Parts = {"outbox", "redis", "turns", "extraction"}
  TurnRequests = {q1, q2, q3}  NoTurn = NoTurn
  MaxCacheFaults = 2
  MaxFailures = 1
  Chats = {q1, q2}  Terminations = {t1, t2, t3}  Procs = {p1, p2}  NoCall = NoCall
  ProcOf <- Proc
  MaxTurns = 2
  MaxFlowFaults = 1
  Requests = {q1, q2}
  NRows = 1
  Sessions = {s1}
  SessionOf <- AllInOneSession
  Kind <- OkAndTerminal
  Workers = {w1, w2}
  BatchSize = 2
  MaxAttempts = 2
  TimeoutFirst = FALSE
  MaxClaims = 3
  MaxFaults = 1
INVARIANTS OutboxIsSafe TurnsReachOneTask
PROPERTIES OnlyHolderAcknowledges RedisClaimsHold TurnsAreCounted
CHECK_DEADLOCK FALSE
