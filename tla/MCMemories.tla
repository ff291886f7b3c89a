----------------------------- MODULE MCMemories -----------------------------
(***************************************************************************)
(* Memories: their life and the purge, the deletion of an organisation,    *)
(* creates under an idempotency key, and feedback with the hot set. The    *)
(* modules share no state, so a behaviour is about one of them (which).    *)
(***************************************************************************)
EXTENDS MemoryLifecycle, OrgDeletion, TLC

CONSTANTS m1, m2, m3, h1, h2, c1, c2, e1, w1, w2

\* A task of the session, and a request and a second task with one content
\* whose memory supersedes the first.
MCHashOf == (m1 :> h1 @@ m2 :> h2 @@ m3 :> h2)
MCOlder == [c \in Creates |-> IF c \in {m2, m3} THEN {m1} ELSE {}]

\* Deletion: two calls race, or one call runs beside a redaction; all stores,
\* Redis only, or a deployed object store the worker cannot reach.
AllStores == {"postgres", "clickhouse", "redis", "objectstore"}
Together == {{c1, c2}, {c1, e1}}
MCTopologies ==
  {[stores |-> AllStores, reach |-> AllStores],
   [stores |-> {"postgres", "redis"}, reach |-> AllStores],
   [stores |-> {"postgres", "objectstore"}, reach |-> {"postgres"}]}

\* Creates under a key: two attempts repeat one request, or all are refused at
\* different points of the handler.
Body(k, t, p, f, u, s) ==
  [key |-> k, text |-> t, pii |-> p, from |-> f, until |-> u, subject |-> s,
   topic |-> 1, omitted |-> FALSE, fields |-> TRUE, labels |-> TRUE]
First == Body(1, "home in Rome", "none", 1, 3, "home")
Later == Body(2, "home in Oslo", "sure", 3, 9, "home")
Unsure == Body(1, "odd", "unsure", 1, 9, "")
Past == [Later EXCEPT !.omitted = TRUE, !.until = 2]
Unlabelled == [First EXCEPT !.labels = FALSE]
Conflicting == <<First, First, Later, Body(0, "home in Bonn", "none", 2, 9, "")>>
Refused == <<Unsure, Unsure, First, [First EXCEPT !.key = -1]>>
Invalid == <<Unlabelled, [First EXCEPT !.text = "blank"], [Later EXCEPT !.until = 3],
             [Later EXCEPT !.fields = FALSE]>>
Racing == <<First, Later, [Later EXCEPT !.key = 0, !.text = "home in Kyiv", !.pii = "none"],
            [Later EXCEPT !.fields = FALSE]>>
Mixed == <<Unlabelled, Unlabelled, Past, [Past EXCEPT !.key = 0]>>
Masked == ("home in Oslo" :> "home in <CITY>")

\* Feedback: three votes on one memory, one of them of another agent's scope;
\* and one vote beside a reader of the hot set.
Vote(k, s) == [mem |-> 1, kind |-> k, scoped |-> s]
ThreeVotes == <<Vote("positive", TRUE), Vote("negative", TRUE), Vote("negative", FALSE)>>

VARIABLES
  which,   \* the component this behaviour is about
  keyedBodyOf, keyedLed, keyedRows, keyedPend, keyedKpc, keyedSeen, keyedMade,
  keyedTries, keyedReply, keyedFaults, votesMrow, votesVotes, votesHeld,
  votesVpc, votesCounted, votesHot, votesEvict, votesRpc, votesFetched,
  votesShown, votesGoneAt, votesLost, hotMrow, hotVotes, hotHeld, hotVpc,
  hotCounted, hotHot, hotEvict, hotRpc, hotFetched, hotShown, hotGoneAt,
  hotLost

keyedVars == <<keyedBodyOf, keyedLed, keyedRows, keyedPend, keyedKpc,
               keyedSeen, keyedMade, keyedTries, keyedReply, keyedFaults>>
votesVars == <<votesMrow, votesVotes, votesHeld, votesVpc, votesCounted,
               votesHot, votesEvict, votesRpc, votesFetched, votesShown,
               votesGoneAt, votesLost>>
hotVars == <<hotMrow, hotVotes, hotHeld, hotVpc, hotCounted, hotHot, hotEvict,
             hotRpc, hotFetched, hotShown, hotGoneAt, hotLost>>
mcvars == <<which, vars, deletionVars, keyedVars, votesVars, hotVars>>

Keyed == INSTANCE KeyedCreate WITH
  Attempts <- 1..4, Scenarios <- {Conflicting, Racing, Refused, Invalid,
  Mixed}, Redacted <- Masked, FinalizeAttempts <- 2, MaxFaults <- 2, bodyOf <-
  keyedBodyOf, led <- keyedLed, rows <- keyedRows, pend <- keyedPend, kpc <-
  keyedKpc, seen <- keyedSeen, made <- keyedMade, tries <- keyedTries, reply
  <- keyedReply, faults <- keyedFaults

Votes == INSTANCE MemoryFeedback WITH
  Memories <- {1, 2}, Voters <- 1..3, VoteOf <- ThreeVotes, Readers <- {},
  HotLimit <- 2, Capacity <- 1, Withheld <- {}, Disputes <- {{1, 2}}, MaxLost
  <- 1, mrow <- votesMrow, votes <- votesVotes, held <- votesHeld, vpc <-
  votesVpc, counted <- votesCounted, hot <- votesHot, evict <- votesEvict, rpc
  <- votesRpc, fetched <- votesFetched, shown <- votesShown, goneAt <-
  votesGoneAt, lost <- votesLost

Hot == INSTANCE MemoryFeedback WITH
  Memories <- {1, 2, 3}, Voters <- {1}, VoteOf <- ThreeVotes, Readers <- {21},
  HotLimit <- 2, Capacity <- 3, Withheld <- {3}, Disputes <- {{1, 2}}, MaxLost
  <- 1, mrow <- hotMrow, votes <- hotVotes, held <- hotHeld, vpc <- hotVpc,
  counted <- hotCounted, hot <- hotHot, evict <- hotEvict, rpc <- hotRpc,
  fetched <- hotFetched, shown <- hotShown, goneAt <- hotGoneAt, lost <-
  hotLost

-----------------------------------------------------------------------------
MCInit ==
  /\ which \in {"memory", "deletion", "keyed", "votes", "hot"}
  /\ Init
  /\ DeletionInit /\ (which # "deletion" => deployed.stores = AllStores /\ req[c2].step = "new")
  /\ Keyed!CreateInit /\ (which # "keyed" => keyedBodyOf = Conflicting)
  /\ Votes!FeedbackInit
  /\ Hot!FeedbackInit

MCNext ==
  \/ which = "memory" /\ Next
       /\ UNCHANGED <<which, deletionVars, keyedVars, votesVars, hotVars>>
  \/ which = "deletion" /\ DeletionNext
       /\ UNCHANGED <<which, vars, keyedVars, votesVars, hotVars>>
  \/ which = "keyed" /\ Keyed!CreateNext
       /\ UNCHANGED <<which, vars, deletionVars, votesVars, hotVars>>
  \/ which = "votes" /\ Votes!FeedbackNext
       /\ UNCHANGED <<which, vars, deletionVars, keyedVars, hotVars>>
  \/ which = "hot" /\ Hot!FeedbackNext
       /\ UNCHANGED <<which, vars, deletionVars, keyedVars, votesVars>>

MCSpec == MCInit /\ [][MCNext]_mcvars

-----------------------------------------------------------------------------
ASSUME DeletionAssumption

\* Every success under a key names one memory that is on record, a retry finds
\* what it wrote, and contradicting memories that could see each other are
\* resolved or escalated (KeyedCreate; memories.py create, conflict.py).
RetriesFindTheirMemory ==
  Keyed!OneMemoryPerKey /\ Keyed!RetryFindsItsMemory /\ Keyed!ContradictionsMeet

\* The stored score is the share of all votes in the ledger however votes
\* overlap, and a hot page shows nothing that was gone before the request
\* (MemoryFeedback; feedback.py, hot_cache.py).
FeedbackIsCounted == Votes!ScoreIsTheLedger /\ Hot!HotPageIsLive
=============================================================================
