----------------------------- MODULE MCProgress -----------------------------
(***************************************************************************)
(* What must eventually happen: small instances of the modules whose       *)
(* safety the other runs check, with the fairness of their schedulers. A   *)
(* behaviour is about one of them (which).                                 *)
(***************************************************************************)
EXTENDS EvidenceAck, Integers, TLC

CONSTANTS k1, k2, r1, r2, h1, h2, q1, q2, q3, w1, w2, o1, m1, m2, None, Parts

\* Evidence: two calls persist one run of two rows, one of them uncertified.
AckSession == [q \in Requests |-> o1]
AckKind == [q \in Requests |-> "ok"]
AckRequest == [p \in Calls |-> q1]
AckProfile == [p \in Calls |-> p = r1]

\* Budget: a request and an extraction task, a key each, a cap for one hold.
MCKeyOf == (r1 :> k1 @@ r2 :> k2)
Once(S) == [x \in S |-> 1]

\* Idempotency: a write and its retry, and a chat request with the same key.
Writes == {q1, q2}
Posts == Writes \cup {q3}

\* Snapshots: one organisation; a policy that is renamed, and a rate card.
Change(o, n, m) == [op |-> o, org |-> o1, name |-> n, new |-> m]
SnapshotCase(k, c, d) == [kind |-> k, wanted |-> (r1 :> <<o1>>), op |-> (w1 :> c @@ w2 :> d)]
SnapshotCases == {SnapshotCase("policy", Change("patch_policy", k1, k2), Change("delete_policy", k2, None)),
                  SnapshotCase("budget", Change("publish_card", k1, None), Change("publish_card", k1, None))}

\* Context: one corpus, two sources, one of which may be skipped.
Hit(i, rank) == [id |-> i, score |-> 5, rank |-> rank, raw |-> 3, wrap |-> 1,
                 groups |-> {}, own |-> TRUE, unit |-> TRUE]
SmallCorpus == [hot |-> {Hit(1, 1)}, cold |-> {Hit(2, 1)}, rival |-> {1, 2}]
Good == [method |-> "AssembleContext", tokens |-> <<"match">>, principal |-> "fresh",
         selectors |-> "principal", bounded |-> TRUE, ids |-> TRUE, model |-> "known",
         skipHot |-> FALSE, skipCold |-> FALSE, limit |-> 0, available |-> 0, history |-> 10]

\* Memories: a write, and a task of the session with the same content.
MCHash == (m1 :> h1 @@ m2 :> h1)

\* Deletion: one job; all stores, or an object store the worker cannot reach.
AllStores == {"postgres", "clickhouse", "redis", "objectstore"}
Settings == {[stores |-> AllStores, reach |-> AllStores],
             [stores |-> {"postgres", "objectstore"}, reach |-> {"postgres"}]}

VARIABLES
  which,   \* the component this behaviour is about
  budgetRow, budgetPeriod, budgetSpent, budgetPc, budgetVer, budgetEst,
  budgetTold, budgetTries, budgetFaults, ledgerRow, ledgerStage, ledgerId,
  ledgerVersion, ledgerTries, ledgerServed, ledgerFailures, redisRec,
  redisPlace, redisClaimed, redisKeep, redisClean, redisCasTries, redisGiven,
  redisOverrun, redisErrors, poolJobs, poolOpen, poolClosed, poolSubmitting,
  poolSendMu, poolSub, poolRuns, poolWorker, poolCloser, poolCaller,
  extractionBuf, extractionApc, extractionExpected, extractionTpc,
  extractionSnap, extractionFlight, extractionWpc, extractionClaim,
  extractionTasks, extractionExpired, extractionExcused, extractionFlowFaults,
  snapshotsKind, snapshotsDb, snapshotsPolicies, snapshotsCards,
  snapshotsLocked, snapshotsOp, snapshotsWpc, snapshotsNextVersion,
  snapshotsChannel, snapshotsGens, snapshotsLru, snapshotsOrder,
  snapshotsApplied, snapshotsRpc, snapshotsLeft, snapshotsEvicted,
  snapshotsLoc, snapshotsLosses, memoryOrg, memoryPurge, memoryDoomed,
  memoryShared, memorySession, memoryMem, memoryEdges, memoryEvents, memoryPc,
  memoryFence, memorySeen, memoryDup, memoryOvertaken, memoryFaults,
  deletionOrgRow, deletionHolds, deletionJob, deletionSent, deletionOld,
  deletionMutating, deletionArchived, deletionObjects, deletionAdvisory,
  deletionDeployed, deletionReq, deletionWork, deletionCapture,
  deletionReport, deletionStranded, deletionLeaked, deletionMishaps,
  contextServer, contextCorpus, contextOpen, contextCall

budgetVars == <<budgetRow, budgetPeriod, budgetSpent, budgetPc, budgetVer,
                budgetEst, budgetTold, budgetTries, budgetFaults>>
ledgerVars == <<ledgerRow, ledgerStage, ledgerId, ledgerVersion, ledgerTries,
                ledgerServed, ledgerFailures>>
redisVars == <<redisRec, redisPlace, redisClaimed, redisKeep, redisClean,
               redisCasTries, redisGiven, redisOverrun, redisErrors>>
poolVars == <<poolJobs, poolOpen, poolClosed, poolSubmitting, poolSendMu,
              poolSub, poolRuns, poolWorker, poolCloser, poolCaller>>
extractionVars == <<extractionBuf, extractionApc, extractionExpected,
                    extractionTpc, extractionSnap, extractionFlight,
                    extractionWpc, extractionClaim, extractionTasks,
                    extractionExpired, extractionExcused, extractionFlowFaults>>
snapshotsVars == <<snapshotsKind, snapshotsDb, snapshotsPolicies,
                   snapshotsCards, snapshotsLocked, snapshotsOp, snapshotsWpc,
                   snapshotsNextVersion, snapshotsChannel, snapshotsGens,
                   snapshotsLru, snapshotsOrder, snapshotsApplied,
                   snapshotsRpc, snapshotsLeft, snapshotsEvicted,
                   snapshotsLoc, snapshotsLosses>>
memoryVars == <<memoryOrg, memoryPurge, memoryDoomed, memoryShared,
                memorySession, memoryMem, memoryEdges, memoryEvents, memoryPc,
                memoryFence, memorySeen, memoryDup, memoryOvertaken,
                memoryFaults>>
deletionVars == <<deletionOrgRow, deletionHolds, deletionJob, deletionSent,
                  deletionOld, deletionMutating, deletionArchived,
                  deletionObjects, deletionAdvisory, deletionDeployed,
                  deletionReq, deletionWork, deletionCapture, deletionReport,
                  deletionStranded, deletionLeaked, deletionMishaps>>
contextVars == <<contextServer, contextCorpus, contextOpen, contextCall>>
mcvars == <<which, ackVars, budgetVars, ledgerVars, redisVars, poolVars,
            extractionVars, snapshotsVars, memoryVars, deletionVars,
            contextVars>>

Budget == INSTANCE BudgetLedger WITH
  Keys <- {k1, k2}, Callers <- {r1, r2}, Proxy <- {r1}, KeyOf <- MCKeyOf,
  HashOf <- [o \in {r1, r2} |-> h1], Estimates <- {1}, Costs <- {1}, Cap <- 1,
  Spends <- {1}, NPeriods <- 1, Skewed <- FALSE, SweepLimit <- 1, MaxTries <-
  Once({r1, r2}), MaxFaults <- 1, row <- budgetRow, period <- budgetPeriod,
  spent <- budgetSpent, pc <- budgetPc, ver <- budgetVer, est <- budgetEst,
  told <- budgetTold, tries <- budgetTries, faults <- budgetFaults

Ledger == INSTANCE IdempotencyLedger WITH
  Keys <- {k1}, Requests <- Posts, KeyOf <- [q \in Posts |-> k1], BodyHash <-
  [q \in Posts |-> IF q \in Writes THEN h1 ELSE h2], Chat <- {q3}, Attempts <-
  [q \in Posts |-> IF q = q3 THEN 1 ELSE 3], MaxFailures <- 2, row <-
  ledgerRow, stage <- ledgerStage, id <- ledgerId, version <- ledgerVersion,
  tries <- ledgerTries, served <- ledgerServed, failures <- ledgerFailures

Redis == INSTANCE IdempotencyRedis WITH
  RedisKeys <- {k1}, Posts <- Writes, RedisKey <- [q \in Writes |-> k1],
  Fingerprint <- [q \in Writes |-> h1], MaxTries <- 2, MaxErrors <- 2, Nobody
  <- None, rec <- redisRec, place <- redisPlace, claimed <- redisClaimed, keep
  <- redisKeep, clean <- redisClean, casTries <- redisCasTries, given <-
  redisGiven, overrun <- redisOverrun, errors <- redisErrors

Pool == INSTANCE AsyncPool WITH
  Jobs <- {q1, q2, q3}, Trying <- {q3}, Workers <- {w1}, Stoppers <- {r1},
  QueueSize <- 1, NoJob <- None, jobs <- poolJobs, open <- poolOpen, closed <-
  poolClosed, submitting <- poolSubmitting, sendMu <- poolSendMu, sub <-
  poolSub, runs <- poolRuns, worker <- poolWorker, closer <- poolCloser,
  caller <- poolCaller

Extraction == INSTANCE ExtractionFlow WITH
  Chats <- {q1}, Terminations <- {r1, r2}, Procs <- {w1, w2}, NoCall <- None,
  ProcOf <- (r1 :> w1 @@ r2 :> w2), MaxTurns <- 1, MaxFlowFaults <- 2, buf <-
  extractionBuf, apc <- extractionApc, expected <- extractionExpected, tpc <-
  extractionTpc, snap <- extractionSnap, flight <- extractionFlight, wpc <-
  extractionWpc, claim <- extractionClaim, tasks <- extractionTasks, expired
  <- extractionExpired, excused <- extractionExcused, flowFaults <-
  extractionFlowFaults

Snapshots == INSTANCE SnapshotCache WITH
  CacheKinds <- {"policy", "budget"}, Orgs <- {o1}, Patterns <- {k1, k2},
  Seeded <- {k1}, Readers <- {r1}, Writers <- {w1, w2}, Scenarios <-
  SnapshotCases, Capacity <- 1, MaxLoads <- 1, MaxLosses <- 1, kind <-
  snapshotsKind, db <- snapshotsDb, policies <- snapshotsPolicies, cards <-
  snapshotsCards, locked <- snapshotsLocked, op <- snapshotsOp, wpc <-
  snapshotsWpc, nextVersion <- snapshotsNextVersion, channel <-
  snapshotsChannel, gens <- snapshotsGens, lru <- snapshotsLru, order <-
  snapshotsOrder, applied <- snapshotsApplied, rpc <- snapshotsRpc, left <-
  snapshotsLeft, evicted <- snapshotsEvicted, loc <- snapshotsLoc, losses <-
  snapshotsLosses

Memory == INSTANCE MemoryLifecycle WITH
  Creates <- {m1, m2}, FromSession <- {m1}, HashOf <- MCHash, Older <- [c \in
  {m1, m2} |-> {}], MaxFaults <- 1, org <- memoryOrg, purge <- memoryPurge,
  doomed <- memoryDoomed, shared <- memoryShared, session <- memorySession,
  mem <- memoryMem, edges <- memoryEdges, events <- memoryEvents, pc <-
  memoryPc, fence <- memoryFence, seen <- memorySeen, dup <- memoryDup,
  overtaken <- memoryOvertaken, faults <- memoryFaults

Deletion == INSTANCE OrgDeletion WITH
  Callers <- {r1}, Jobs <- {1}, Workers <- {w1, w2}, Events <- {}, Foreign <-
  {}, Scopes <- {h1}, Topologies <- Settings, Scenarios <- {{r1}}, MaxMishaps
  <- 2, orgRow <- deletionOrgRow, holds <- deletionHolds, job <- deletionJob,
  sent <- deletionSent, old <- deletionOld, mutating <- deletionMutating,
  archived <- deletionArchived, objects <- deletionObjects, advisory <-
  deletionAdvisory, deployed <- deletionDeployed, req <- deletionReq, work <-
  deletionWork, capture <- deletionCapture, report <- deletionReport, stranded
  <- deletionStranded, leaked <- deletionLeaked, mishaps <- deletionMishaps

Context == INSTANCE ContextAssembly WITH
  BucketSize <- 4, CellCeiling <- 20, MaxSkips <- 0, Separator <- 1, Calls <-
  {r1}, Requests <- {Good, [Good EXCEPT !.skipHot = TRUE]}, Corpora <-
  {SmallCorpus}, Window <- 30, MaxOutput <- 4, ReserveFloor <- 2, ReserveCap
  <- 8, Overhead <- 2, Config <- [token |-> "strong", addr |-> "loopback"],
  server <- contextServer, corpus <- contextCorpus, open <- contextOpen, call
  <- contextCall

-----------------------------------------------------------------------------
MCInit ==
  /\ which \in Parts
  /\ AckInit
  /\ Budget!Init /\ (which # "budget" => budgetPeriod = 1)
  /\ Ledger!LedgerInit
  /\ Redis!RedisInit
  /\ Pool!PoolInit
  /\ Extraction!FlowInit
  /\ Snapshots!SnapshotInit /\ (which # "snapshots" => snapshotsKind = "policy")
  /\ Memory!Init
  /\ Deletion!DeletionInit /\ (which # "deletion" => deletionDeployed.stores = AllStores)
  /\ Context!ContextInit

MCNext ==
  \/ which = "acks" /\ AckNext
       /\ UNCHANGED <<which, budgetVars, ledgerVars, redisVars, poolVars,
                     extractionVars, snapshotsVars, memoryVars, deletionVars,
                     contextVars>>
  \/ which = "budget" /\ Budget!Next
       /\ UNCHANGED <<which, ackVars, ledgerVars, redisVars, poolVars,
                     extractionVars, snapshotsVars, memoryVars, deletionVars,
                     contextVars>>
  \/ which = "ledger" /\ Ledger!LedgerNext
       /\ UNCHANGED <<which, ackVars, budgetVars, redisVars, poolVars,
                     extractionVars, snapshotsVars, memoryVars, deletionVars,
                     contextVars>>
  \/ which = "redis" /\ Redis!RedisNext
       /\ UNCHANGED <<which, ackVars, budgetVars, ledgerVars, poolVars,
                     extractionVars, snapshotsVars, memoryVars, deletionVars,
                     contextVars>>
  \/ which = "pool" /\ Pool!PoolNext
       /\ UNCHANGED <<which, ackVars, budgetVars, ledgerVars, redisVars,
                     extractionVars, snapshotsVars, memoryVars, deletionVars,
                     contextVars>>
  \/ which = "extraction" /\ Extraction!FlowNext
       /\ UNCHANGED <<which, ackVars, budgetVars, ledgerVars, redisVars,
                     poolVars, snapshotsVars, memoryVars, deletionVars,
                     contextVars>>
  \/ which = "snapshots" /\ Snapshots!SnapshotNext
       /\ UNCHANGED <<which, ackVars, budgetVars, ledgerVars, redisVars,
                     poolVars, extractionVars, memoryVars, deletionVars,
                     contextVars>>
  \/ which = "memory" /\ Memory!Next
       /\ UNCHANGED <<which, ackVars, budgetVars, ledgerVars, redisVars,
                     poolVars, extractionVars, snapshotsVars, deletionVars,
                     contextVars>>
  \/ which = "deletion" /\ Deletion!DeletionNext
       /\ UNCHANGED <<which, ackVars, budgetVars, ledgerVars, redisVars,
                     poolVars, extractionVars, snapshotsVars, memoryVars,
                     contextVars>>
  \/ which = "context" /\ Context!ContextNext
       /\ UNCHANGED <<which, ackVars, budgetVars, ledgerVars, redisVars,
                     poolVars, extractionVars, snapshotsVars, memoryVars,
                     deletionVars>>

MCSpec == MCInit /\ [][MCNext]_mcvars

\* Relays poll, backoffs and claims run out, the reaper is scheduled, leases
\* and grace periods pass.
ProgressSpec ==
  /\ MCSpec
  /\ WF_ackVars(which = "acks" /\ Cycle(w1) /\ UNCHANGED ack)
  /\ \A r \in Rows :
       /\ WF_ackVars(which = "acks" /\ BecomeDue(r) /\ UNCHANGED ack)
       /\ WF_ackVars(which = "acks" /\ BecomeAged(r) /\ UNCHANGED ack)
       /\ SF_ackVars(which = "acks" /\ ClaimOf(r) /\ UNCHANGED ack)
  /\ \A k \in {k1, k2} : /\ WF_(Budget!vars)(which = "budget" /\ Budget!LeaseLapse(k))
                         /\ WF_(Budget!vars)(which = "budget" /\ Budget!GracePass(k))
  /\ WF_(Budget!vars)(which = "budget" /\ Budget!ExpireStale)

\* Requests that were sent and jobs that were taken go on, leases and pending
\* markers lapse; readers and invalidators run on, pollers poll, entries live
\* for a TTL; writes and a purge that began go on; tasks are redelivered; the
\* event loop runs.
CompletionSpec ==
  /\ MCSpec
  /\ \A q \in Posts :
       WF_(Ledger!ledgerVars)(which = "ledger" /\ (Ledger!Claim(q) \/ Ledger!Execute(q) \/ Ledger!Release(q)
                                               \/ Ledger!Reply(q) \/ Ledger!Finalize(q)))
  /\ WF_(Ledger!ledgerVars)(which = "ledger" /\ Ledger!Lapse(k1))
  /\ \A q \in Writes :
       WF_(Redis!redisVars)(/\ which = "redis" /\ UNCHANGED redisOverrun
                       /\ \/ Redis!SetNX(q) \/ Redis!Inspect(q) \/ Redis!Respond(q, TRUE)
                          \/ Redis!Watch(q) \/ Redis!Get(q) \/ Redis!Exec(q))
  /\ WF_(Redis!redisVars)(which = "redis" /\ Redis!ExpirePending(k1))
  /\ \A j \in {q1, q2, q3} : WF_(Pool!poolVars)(which = "pool" /\ Pool!SubmitterStep(j))
  /\ WF_(Pool!poolVars)(which = "pool" /\ Pool!WorkerStep(w1))
  /\ WF_(Pool!poolVars)(which = "pool" /\ Pool!CloseJobs)
  /\ WF_(Pool!poolVars)(which = "pool" /\ Pool!Drained)
  /\ WF_(Pool!poolVars)(which = "pool" /\ Pool!Return(r1))
  /\ \A q \in {q1} :
       WF_(Extraction!flowVars)(which = "extraction" /\ (Extraction!ReadExpected(q) \/ Extraction!AppendCAS(q)))
  /\ \A t \in {r1, r2} : /\ WF_(Extraction!flowVars)(which = "extraction" /\ Extraction!Enqueue(t))
                         /\ WF_(Extraction!flowVars)(which = "extraction" /\ Extraction!Worker(t))
  /\ WF_(Snapshots!snapshotVars)(which = "snapshots" /\ Snapshots!ReaderStep(r1))
  /\ \A u \in Snapshots!Users : WF_(Snapshots!snapshotVars)(which = "snapshots" /\ Snapshots!OnLRUEvict(u))
  /\ \A u \in {"subscriber", "poller"} :
       WF_(Snapshots!snapshotVars)(which = "snapshots" /\ Snapshots!InvalidatorStep(u))
  /\ WF_(Snapshots!snapshotVars)(which = "snapshots" /\ Snapshots!ReconcileOrgEpoch)
  /\ SF_(Snapshots!snapshotVars)(which = "snapshots" /\ Snapshots!Poll(o1))
  /\ WF_(Snapshots!snapshotVars)(which = "snapshots" /\ snapshotsKind = "budget" /\ Snapshots!Lapse(o1))
  /\ \A c \in {m1, m2} : WF_(Memory!vars)(which = "memory" /\ Memory!CreateStep(c))
  /\ WF_(Memory!vars)(which = "memory" /\ Memory!Purge)
  /\ WF_(Deletion!deletionVars)(which = "deletion" /\ (Deletion!DispatchEnqueue(r1) \/ Deletion!FinishRequest(r1)))
  /\ \A w \in {w1, w2} :
       /\ WF_(Deletion!deletionVars)(which = "deletion" /\ Deletion!DeliverTask(w))
       /\ SF_(Deletion!deletionVars)(which = "deletion" /\ Deletion!SagaStep(w))
  /\ WF_(Deletion!deletionVars)(which = "deletion" /\ Deletion!ApplyMutation)
  /\ WF_(Context!contextVars)(which = "context" /\ Context!CallStep(r1))
  /\ WF_(Context!contextVars)(which = "context" /\ Context!StopServer)
  /\ WF_(Context!contextVars)(which = "context" /\ Context!CloseRuntime)

-----------------------------------------------------------------------------
ASSUME /\ CallAssumption /\ Ledger!LedgerAssumption /\ Redis!RedisAssumption
       /\ Pool!PoolAssumption /\ Extraction!FlowAssumption
       /\ Snapshots!SnapshotAssumption /\ Deletion!DeletionAssumption

\* Every row that was persisted is delivered or dead-lettered, and every hold
\* ends although its owner may be gone (EvidenceAck!EventuallySettled,
\* BudgetLedger!EveryHoldEnds; relay.go, expireStale).
BackgroundWorkEnds == EventuallySettled /\ Budget!EveryHoldEnds

\* Every request under a key is answered, also when the owner of the claim died;
\* a submission returns and what was accepted is run; Shutdown drains; a turn
\* and a terminate call that began end (IdempotencyLedger!EveryoneIsAnswered,
\* IdempotencyRedis!EveryPostIsAnswered, AsyncPool!SubmitReturnsAndRuns and
\* ShutdownDrains, ExtractionFlow!EverythingEnds).
RequestsEnd ==
  /\ which = "ledger" => Ledger!EveryoneIsAnswered
  /\ which = "redis" => Redis!EveryPostIsAnswered
  /\ which = "pool" => Pool!SubmitReturnsAndRuns
  /\ Pool!ShutdownDrains
  /\ which = "extraction" => Extraction!EverythingEnds

\* Whatever messages are lost, a cached snapshot becomes the current one: the
\* poller for policies, the TTL for budgets (SnapshotCache!Converges; poller.go,
\* billing/cache.go).
CachesConverge == Snapshots!Converges

\* A write that began is answered, a purge that waits runs, a deletion job ends
\* or its message is known to be lost, and a context call ends whatever its
\* sources do (MemoryLifecycle!EveryoneIsServed, OrgDeletion!EveryJobEnds,
\* ContextAssembly!EveryCallEnds).
WorkEnds == Memory!EveryoneIsServed /\ Deletion!EveryJobEnds /\ Context!EveryCallEnds
=============================================================================
