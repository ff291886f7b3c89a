SPECIFICATION MCSpec
CONSTANTS
  Calls = {1, 2, 3, 4, 5}  Threshold = 2  CancelTrips = TRUE
  Tokens = {"t1", "t2"}  Org = "org"  Readers = {"r1", "r2"}
  Presents <- ReaderCalls
  Capacity = 1  MaxAttempts = 2  MaxFaults = 1  MaxTurns = 2  None = None
  Facts = {"f1", "f2", "f3", "f4"}  MaxBufferSize = 2  MaxErrors = 2
  Parts = {"context", "rerank", "lineage", "embedding", "refusals", "search"}
INVARIANTS PromptsFit AnswersAreHonest ScoresAreInPlace LineageIsExact VectorsAreRight
PROPERTY SearchesAreComplete
CHECK_DEADLOCK FALSE
