SPECIFICATION MCSpec
CONSTANTS
  Keys = {"k"}  Requests = {"w1", "w2", "q1", "q2"}  Chat = {"q1", "q2"}
  KeyOf <- LedgerKey
  BodyHash <- LedgerBody
  Attempts <- FinalizeTries
  MaxFailures = 3  None = None
  Texts <- AgentTexts
  Cases <- SmallCases
  Agents <- SmallAgents
  MaxFaults = 1
  Tabs = {1, 2, 3, 4}
  SessionCases <- OperatorCases
  MaxMishaps = 1
INVARIANTS
  NoSessionUnderDeletedAgent
  ListingsAreExact
  
  SessionsEndAndProofsAreSpent
  StreamsHaveNoGaps
  DirectivesAreHonest
PROPERTIES PromiseIsKept StatusMovesByTheTable
CHECK_DEADLOCK FALSE
