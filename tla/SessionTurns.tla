---------------------------- MODULE SessionTurns ----------------------------
(***************************************************************************)
(* The turns of one session: chat requests of a client that resolve the    *)
(* session through the Redis cache or PostgreSQL, reserve a turn index     *)
(* there, and append a checkpoint with it after the response; the session  *)
(* is completed by its client or abandoned by the sweeper meanwhile.       *)
(* One Redis command or one transaction is one step                        *)
(* (services/proxy/internal/http/session, packages/session).               *)
(***************************************************************************)
EXTENDS Integers, FiniteSets

CONSTANTS TurnRequests, NoTurn, MaxCacheFaults, MaxFailures

TurnsAssumption ==
  NoTurn \notin Nat /\ MaxCacheFaults \in Nat /\ MaxFailures \in Nat

VARIABLES sessionStatus, count,  \* the session row: status and turn_count
          checkpoints,    \* its checkpoint rows
          cache,          \* the turn count cached in Redis
          reqPc, turn,    \* a request and its turn index
          sweeping,       \* the sweeper abandoned the session, the cache is next
          cacheFaults, failures
sessionRow == <<sessionStatus, count, checkpoints>>
turnsVars == <<sessionRow, cache, reqPc, turn, sweeping, cacheFaults, failures>>

CheckpointRow == [turn : Nat, by : TurnRequests]
Indexes == {c.turn : c \in checkpoints}

TurnsInit ==
  /\ sessionStatus = "absent" /\ count = 0 /\ checkpoints = {}
  /\ cache = NoTurn
  /\ reqPc = [q \in TurnRequests |-> "new"]
  /\ turn = [q \in TurnRequests |-> 0]
  /\ sweeping = FALSE /\ cacheFaults = 0 /\ failures = 0

Advance(q, to) == reqPc' = [reqPc EXCEPT ![q] = to]
\* Redis may fail or forget MaxCacheFaults times, the provider or PostgreSQL
\* MaxFailures times.
CacheFault == cacheFaults < MaxCacheFaults /\ cacheFaults' = cacheFaults + 1
Failure == failures < MaxFailures /\ failures' = failures + 1

\* Set and Invalidate ignore a Redis error.
CacheSet(v) == \/ cache' = v /\ UNCHANGED cacheFaults
               \/ UNCHANGED cache /\ CacheFault

-----------------------------------------------------------------------------
(* Resolve                                                                 *)

\* cacheLookup reads the cache; a Redis error is a miss.
CacheGet(q) ==
  /\ reqPc[q] = "new"
  /\ \/ /\ cache # NoTurn
        /\ turn' = [turn EXCEPT ![q] = cache] /\ Advance(q, "reserving")
        /\ UNCHANGED cacheFaults
     \/ /\ IF cache = NoTurn THEN UNCHANGED cacheFaults ELSE CacheFault
        /\ Advance(q, "lookup") /\ UNCHANGED turn
  /\ UNCHANGED <<sessionRow, cache, sweeping, failures>>

\* It then reserves the turn; another request may have read the same one.
Reserve(q) ==
  /\ reqPc[q] = "reserving" /\ CacheSet(turn[q] + 1) /\ Advance(q, "asked")
  /\ UNCHANGED <<sessionRow, turn, sweeping, failures>>

\* Faulty variant: turns counted from one.
NextIndexFromOne == count + 1

NextIndex == count

\* tryGetOrCreate finds the row, in whatever status.
Lookup(q) ==
  /\ reqPc[q] = "lookup"
  /\ IF sessionStatus # "absent"
     THEN turn' = [turn EXCEPT ![q] = NextIndex] /\ Advance(q, "caching")
     ELSE Advance(q, "inserting") /\ UNCHANGED turn
  /\ UNCHANGED <<sessionRow, cache, sweeping, cacheFaults, failures>>

\* It inserts the row, or meets the unique index and reads the winner's.
Insert(q) ==
  /\ reqPc[q] = "inserting" /\ Advance(q, "caching")
  /\ sessionStatus' = IF sessionStatus = "absent" THEN "active" ELSE sessionStatus
  /\ turn' = [turn EXCEPT ![q] = NextIndex]
  /\ UNCHANGED <<count, checkpoints, cache, sweeping, cacheFaults, failures>>

CacheTurn(q) ==
  /\ reqPc[q] = "caching" /\ CacheSet(turn[q] + 1) /\ Advance(q, "asked")
  /\ UNCHANGED <<sessionRow, turn, sweeping, failures>>

\* Without the store the request goes on with the sticky id and no checkpoint.
ResolveFails(q) ==
  /\ reqPc[q] \in {"lookup", "inserting"} /\ Failure
  /\ Advance(q, "unrecorded")
  /\ sessionStatus' = IF reqPc[q] = "inserting" /\ sessionStatus = "absent"
                       THEN "active" ELSE sessionStatus
  /\ UNCHANGED <<count, checkpoints, cache, turn, sweeping, cacheFaults>>

\* The provider fails: no checkpoint is wanted and the turn stays a gap.
ProviderFails(q) ==
  /\ reqPc[q] = "asked" /\ Failure /\ Advance(q, "unrecorded")
  /\ UNCHANGED <<sessionRow, cache, turn, sweeping, cacheFaults>>

Complete(q) ==
  /\ reqPc[q] = "asked" /\ Advance(q, "append")
  /\ UNCHANGED <<sessionRow, cache, turn, sweeping, cacheFaults, failures>>

-----------------------------------------------------------------------------
(* RunCheckpoint                                                           *)

\* Faulty variant: the count is left to a later statement.
RecordUncounted(q) ==
  /\ checkpoints' = checkpoints \cup {[turn |-> turn[q], by |-> q]}
  /\ UNCHANGED <<count, sessionStatus>>

\* appendCheckpoint: the insert and the count, in one transaction.
Record(q) ==
  /\ checkpoints' = checkpoints \cup {[turn |-> turn[q], by |-> q]}
  /\ count' = count + 1 /\ UNCHANGED sessionStatus

\* The unique index on (session_id, turn_index).
Taken(q) == turn[q] \in Indexes

AppendTurn(q) ==
  /\ reqPc[q] = "append"
  /\ IF Taken(q) THEN Advance(q, "duplicate") /\ UNCHANGED sessionRow
                 ELSE Record(q) /\ Advance(q, "recorded")
  /\ UNCHANGED <<cache, turn, sweeping, cacheFaults, failures>>

\* retryCheckpoint: drop the cache, read the row, try its count, once.
Invalidate(q) ==
  /\ reqPc[q] = "duplicate" /\ CacheSet(NoTurn) /\ Advance(q, "reload")
  /\ UNCHANGED <<sessionRow, turn, sweeping, failures>>

ReloadIndex(q) == count

Reload(q) ==
  /\ reqPc[q] = "reload" /\ Advance(q, "reappend")
  /\ turn' = [turn EXCEPT ![q] = ReloadIndex(q)]
  /\ UNCHANGED <<sessionRow, cache, sweeping, cacheFaults, failures>>

Reappend(q) ==
  /\ reqPc[q] = "reappend"
  /\ IF Taken(q) THEN Advance(q, "lost") /\ UNCHANGED sessionRow
                 ELSE Record(q) /\ Advance(q, "recorded")
  /\ UNCHANGED <<cache, turn, sweeping, cacheFaults, failures>>

CacheNext(q) ==
  /\ reqPc[q] = "recorded" /\ CacheSet(turn[q] + 1) /\ Advance(q, "done")
  /\ UNCHANGED <<sessionRow, turn, sweeping, failures>>

\* A transaction of the task fails, perhaps after it committed; it is not tried
\* again.
CheckpointFails(q) ==
  /\ reqPc[q] \in {"append", "reload", "reappend"} /\ Failure
  /\ Advance(q, "unrecorded")
  /\ \/ UNCHANGED sessionRow
     \/ reqPc[q] # "reload" /\ ~Taken(q) /\ Record(q)
  /\ UNCHANGED <<cache, turn, sweeping, cacheFaults>>

-----------------------------------------------------------------------------
(* The end of the session                                                  *)

\* Faulty variant: the status of the row is not compared.
MayEndAny == sessionStatus # "absent"

\* The status guard of completeInTx and abandonIdleSQL.
MayEnd == sessionStatus = "active"

\* POST /v1/sessions/{id}/terminate.
CompleteSession ==
  /\ MayEnd /\ sessionStatus' = "completed"
  /\ UNCHANGED <<count, checkpoints, cache, reqPc, turn, sweeping, cacheFaults, failures>>

\* The sweeper abandons the idle session, then drops its cache entry.
AbandonIdle ==
  /\ MayEnd /\ ~sweeping
  /\ sessionStatus' = "abandoned" /\ sweeping' = TRUE
  /\ UNCHANGED <<count, checkpoints, cache, reqPc, turn, cacheFaults, failures>>

InvalidateAbandoned ==
  /\ sweeping /\ sweeping' = FALSE /\ CacheSet(NoTurn)
  /\ UNCHANGED <<sessionRow, reqPc, turn, failures>>

\* The TTL of the cache entry.
CacheExpires ==
  /\ cache # NoTurn /\ cache' = NoTurn /\ CacheFault
  /\ UNCHANGED <<sessionRow, reqPc, turn, sweeping, failures>>

Resolve(q) == CacheGet(q) \/ Reserve(q) \/ Lookup(q) \/ Insert(q) \/ CacheTurn(q)
RunCheckpoint(q) ==
  AppendTurn(q) \/ Invalidate(q) \/ Reload(q) \/ Reappend(q) \/ CacheNext(q)

TurnsNext ==
  \/ \E q \in TurnRequests :
       \/ Resolve(q) \/ ResolveFails(q) \/ ProviderFails(q) \/ Complete(q)
       \/ RunCheckpoint(q) \/ CheckpointFails(q)
  \/ CompleteSession \/ AbandonIdle \/ InvalidateAbandoned \/ CacheExpires

TurnsSpec == TurnsInit /\ [][TurnsNext]_turnsVars

-----------------------------------------------------------------------------
(* Properties                                                              *)

\* Every variable has its type; no turn has a negative index.
TurnsTypeOK ==
  /\ sessionStatus \in {"absent", "active", "completed", "abandoned"}
  /\ count \in Nat /\ checkpoints \subseteq CheckpointRow
  /\ cache \in Nat \cup {NoTurn}
  /\ reqPc \in [TurnRequests ->
       {"new", "reserving", "lookup", "inserting", "caching", "asked", "append", "duplicate",
        "reload", "reappend", "recorded", "done", "lost", "unrecorded"}]
  /\ turn \in [TurnRequests -> Nat]
  /\ sweeping \in BOOLEAN
  /\ cacheFaults \in 0..MaxCacheFaults /\ failures \in 0..MaxFailures

\* The turn count of the row is the number of its checkpoints, no two of which
\* share an index or a request: retries, lost answers and races neither count a
\* turn twice nor record a request twice.
CountIsCheckpoints ==
  /\ count = Cardinality(checkpoints)
  /\ Cardinality(Indexes) = count
  /\ Cardinality({c.by : c \in checkpoints}) = count

\* A session that was completed or abandoned stays so: the client's call and the
\* sweeper do not overwrite one another.
EndIsFinal ==
  [][(sessionStatus \in {"completed", "abandoned"})
       => sessionStatus' = sessionStatus]_turnsVars

\* Gaps come from failed turns only: when neither the provider nor PostgreSQL
\* failed, no retry ran out and every request that began is recorded, the turns
\* on record are 0, 1, ... without a gap, whatever the cache forgot meanwhile.
TurnSettled(q) == reqPc[q] \in {"new", "recorded", "done"}
GapsAreFailures ==
  failures = 0 /\ (\A q \in TurnRequests : TurnSettled(q)) => Indexes = 0..(count - 1)

\* The turn count is the number of checkpoints, gaps come from failed turns only,
\* and neither the client nor the sweeper revives a session that ended
\* (checkpoint.go, lifecycle.go, sweeper.go).
TurnsAreCounted == [](CountIsCheckpoints /\ GapsAreFailures) /\ EndIsFinal

\* "ErrDuplicateTurn + retryCheckpoint handles concurrent double-reads"
\* (services/proxy/internal/http/session/lifecycle.go:54): the checkpoint of a
\* completed turn is not dropped while the database works.
DoubleReadsAreHandled == \A q \in TurnRequests : reqPc[q] # "lost"

=============================================================================
