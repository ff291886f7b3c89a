--------------------------- MODULE EvidenceOutbox ---------------------------
(***************************************************************************)
(* The transactional evidence outbox (packages/evidenceoutbox and its SQL  *)
(* helpers), the relay processes that drain it (services/relay), the       *)
(* ClickHouse projection they write, and the session fence they consult.   *)
(*                                                                         *)
(* Every database transaction is one step; everything a relay does between *)
(* two transactions is local.  Relay processes crash, lose the answer of a *)
(* commit, and run out of their operation timeout between any two steps.   *)
(* Wall-clock time is abstracted to two facts per row: whether its         *)
(* available_at has passed (due) and whether its claimed_at is older than  *)
(* RecoverAfter (aged).                                                    *)
(***************************************************************************)
EXTENDS Naturals, FiniteSets

CONSTANTS
  Requests,     \* request ids; one evidence run (aggregate) each
  NRows,        \* outbox rows of one run, aggregate_seq 1..NRows
  Sessions,     \* session rows holding the evidence fence
  SessionOf,    \* the session a request's fence names
  Kind,         \* what validateOutboxRow says of a request's rows
  Workers,      \* relay processes, one poll loop each
  BatchSize,    \* RelayConfig.BatchSize
  MaxAttempts,  \* RelayConfig.MaxAttempts
  TimeoutFirst, \* whether OperationTimeout < RecoverAfter (not enforced)
  MaxClaims,    \* bound: claims of one row
  MaxFaults     \* bound: crashes, timeouts and lost commit answers

Rows == Requests \X (1..NRows)

\* "ok": metadata class, valid fence, matching digest.  "terminal": a
\* redaction class or fence that can never be projected.  "corrupt": an
\* identity or digest error, which the relay retries.
Kinds == {"ok", "terminal", "corrupt"}

ASSUME NAssumption == /\ NRows \in Nat \ {0}
                      /\ BatchSize \in Nat \ {0}
                      /\ MaxAttempts \in Nat \ {0}
                      /\ MaxClaims \in Nat
                      /\ MaxFaults \in Nat
ASSUME TimeoutAssumption == TimeoutFirst \in BOOLEAN
ASSUME SessionAssumption == SessionOf \in [Requests -> Sessions]
ASSUME KindAssumption == Kind \in [Requests -> Kinds]

VARIABLES
  deleted,   \* sessions.deleted_at IS NOT NULL
  version,   \* sessions.evidence_fence_version
  fence,     \* the fence a producer looked up for a request, 0 if none
  status,    \* evidence_outbox.delivery_status, or "absent"
  attempts,  \* evidence_outbox.attempts
  due,       \* available_at <= NOW()
  aged,      \* claimed_at < NOW() - RecoverAfter
  sink,      \* copies of the row in ibex.evidence_events
  pc,        \* where a relay's runOnce stands
  held,      \* claims of the current batch not yet acknowledged
  cur,       \* the claim being delivered
  faults     \* faults so far

sessionVars == <<deleted, version>>
tableVars == <<status, attempts, due, aged>>
workerVars == <<pc, held, cur>>
vars == <<deleted, version, fence, status, attempts, due, aged, sink,
          pc, held, cur, faults>>

RowOf(r) == r[1]                        \* the aggregate of a row
Claims == [row : Rows, att : Nat]
NoClaim == [row |-> <<>>, att |-> 0]
Statuses == {"absent", "pending", "in_flight", "delivered", "failed", "poison"}
Steps == {"idle", "claim", "next", "lookup", "insert", "ack", "retry", "drop"}

Init == /\ deleted = [s \in Sessions |-> FALSE]
        /\ version = [s \in Sessions |-> 1]
        /\ fence = [q \in Requests |-> 0]
        /\ status = [r \in Rows |-> "absent"]
        /\ attempts = [r \in Rows |-> 0]
        /\ due = [r \in Rows |-> TRUE]
        /\ aged = [r \in Rows |-> FALSE]
        /\ sink = [r \in Rows |-> 0]
        /\ pc = [w \in Workers |-> "idle"]
        /\ held = [w \in Workers |-> {}]
        /\ cur = [w \in Workers |-> NoClaim]
        /\ faults = 0

-----------------------------------------------------------------------------
(* Sessions and producers. *)

\* A session is soft-deleted; the trigger advances its fence version once and
\* never lets the tombstone be cleared.
SoftDelete(s) ==
  /\ ~deleted[s]
  /\ deleted' = [deleted EXCEPT ![s] = TRUE]
  /\ version' = [version EXCEPT ![s] = @ + 1]
  /\ UNCHANGED <<fence, tableVars, sink, workerVars, faults>>

\* BuildCertifiedEvidenceRun reads the fence of a live session; a deleted
\* session yields no run.
LookupEvidenceFence(q) ==
  /\ fence[q] = 0
  /\ ~deleted[SessionOf[q]]
  /\ fence' = [fence EXCEPT ![q] = version[SessionOf[q]]]
  /\ UNCHANGED <<sessionVars, tableVars, sink, workerVars, faults>>

HasRun(q) == \E i \in 1..NRows : status[<<q, i>>] # "absent"

\* PersistRun commits the run and all of its outbox rows in one transaction.
\* A run that exists already is answered from the table (Replayed), unchanged.
PersistRun(q) ==
  /\ fence[q] # 0
  /\ ~HasRun(q)
  /\ status' = [r \in Rows |-> IF RowOf(r) = q THEN "pending" ELSE status[r]]
  /\ UNCHANGED <<sessionVars, fence, attempts, due, aged, sink, workerVars, faults>>

-----------------------------------------------------------------------------
(* Time. *)

\* The backoff of a failed row runs out.
BecomeDue(r) ==
  /\ ~due[r]
  /\ due' = [due EXCEPT ![r] = TRUE]
  /\ UNCHANGED <<sessionVars, fence, status, attempts, aged, sink, workerVars, faults>>

HeldBy(r, w) == \E c \in held[w] : c.row = r

\* A claim grows older than RecoverAfter.  When OperationTimeout is the
\* shorter of the two, its holder has given up by then.
BecomeAged(r) ==
  /\ status[r] = "in_flight"
  /\ ~aged[r]
  /\ TimeoutFirst => \A w \in Workers : ~HeldBy(r, w)
  /\ aged' = [aged EXCEPT ![r] = TRUE]
  /\ UNCHANGED <<sessionVars, fence, status, attempts, due, sink, workerVars, faults>>

-----------------------------------------------------------------------------
(* One relay cycle: recover, claim, deliver each claimed row. *)

\* Faulty variant: the wrong status is recovered.
StaleFailed(r) == status[r] = "failed" /\ aged[r]

Stale(r) == status[r] = "in_flight" /\ aged[r]

\* Faulty variant: recovery gives the attempt back.
RecoverRefunding ==
  /\ status' = [r \in Rows |-> IF Stale(r) THEN "pending" ELSE status[r]]
  /\ attempts' = [r \in Rows |-> IF Stale(r) THEN attempts[r] - 1 ELSE attempts[r]]

\* evidence_outbox_recover_in_flight: the attempt count is kept.
Recover ==
  /\ status' = [r \in Rows |-> IF Stale(r) THEN "pending" ELSE status[r]]
  /\ UNCHANGED attempts

RecoverInFlight(w) ==
  /\ pc[w] = "idle"
  /\ Recover
  /\ pc' = [pc EXCEPT ![w] = "claim"]
  /\ UNCHANGED <<sessionVars, fence, due, aged, sink, held, cur, faults>>

\* Faulty variant: poison rows are picked up again.
ClaimableUndelivered(r) == status[r] \in {"pending", "failed", "poison"} /\ due[r]

\* Faulty variant: failed rows are not retried.
ClaimablePending(r) == status[r] = "pending" /\ due[r]

Claimable(r) == status[r] \in {"pending", "failed"} /\ due[r]

\* evidence_outbox_claim_pending on the rows S.
ClaimRows(S) ==
  /\ status' = [r \in Rows |-> IF r \in S THEN "in_flight" ELSE status[r]]
  /\ attempts' = [r \in Rows |-> IF r \in S THEN attempts[r] + 1 ELSE attempts[r]]
  /\ aged' = [r \in Rows |-> IF r \in S THEN FALSE ELSE aged[r]]

Claimants(S) == {[row |-> r, att |-> attempts[r] + 1] : r \in S}

\* Rows locked by a concurrent claim are skipped, so any choice of claimable
\* rows up to the batch size may come back.
ClaimBatch(w, S) ==
  /\ pc[w] = "claim"
  /\ S # {} /\ Cardinality(S) <= BatchSize
  /\ \A r \in S : Claimable(r) /\ attempts[r] < MaxClaims
  /\ ClaimRows(S)
  /\ \/ /\ held' = [held EXCEPT ![w] = Claimants(S)]
        /\ pc' = [pc EXCEPT ![w] = "next"]
        /\ UNCHANGED faults
     \/ /\ faults < MaxFaults             \* the commit's answer is lost
        /\ faults' = faults + 1
        /\ pc' = [pc EXCEPT ![w] = "idle"]
        /\ UNCHANGED held
  /\ UNCHANGED <<sessionVars, fence, due, sink, cur>>

\* Nothing to claim, or the whole batch is done: the cycle ends.
EndCycle(w) ==
  /\ \/ pc[w] = "claim" /\ \A r \in Rows : ~Claimable(r) \/ attempts[r] >= MaxClaims
     \/ pc[w] = "next" /\ held[w] = {}
  /\ pc' = [pc EXCEPT ![w] = "idle"]
  /\ UNCHANGED <<sessionVars, fence, tableVars, sink, held, cur, faults>>

\* evidence_outbox_check_session_fence.
Alive(q) == ~deleted[SessionOf[q]] /\ version[SessionOf[q]] = fence[q]

\* Where deliverOne goes with a row of q: validateOutboxRow, then CheckFence,
\* which may also fail transiently.
Verdicts(q) ==
  CASE Kind[q] = "terminal" -> {"drop"}
    [] Kind[q] = "corrupt"  -> {"retry"}
    [] Kind[q] = "ok"       -> {"retry", IF Alive(q) THEN "lookup" ELSE "drop"}

CheckRow(w) ==
  /\ pc[w] = "next"
  /\ \E c \in held[w] : \E step \in Verdicts(RowOf(c.row)) :
       /\ cur' = [cur EXCEPT ![w] = c]
       /\ pc' = [pc EXCEPT ![w] = step]
  /\ UNCHANGED <<sessionVars, fence, tableVars, sink, held, faults>>

\* Faulty variant: the sink does not look for an earlier copy.
LookupNothing(w) ==
  /\ pc[w] = "lookup"
  /\ pc' = [pc EXCEPT ![w] = "insert"]
  /\ UNCHANGED <<sessionVars, fence, tableVars, sink, held, cur, faults>>

\* Sink.DeliverWithTombstoneFence: the dedupe lookup ...
LookupProjection(w) ==
  /\ pc[w] = "lookup"
  /\ \E step \in {IF sink[cur[w].row] > 0 THEN "ack" ELSE "insert", "retry"} :
       pc' = [pc EXCEPT ![w] = step]
  /\ UNCHANGED <<sessionVars, fence, tableVars, sink, held, cur, faults>>

\* Faulty variant: an insert error is taken for success.
InsertOutcomesOptimistic == {<<1, "ack">>, <<0, "ack">>}

\* The insert: copies added, and the next step.  An error says nothing about
\* whether the insert took effect.
InsertOutcomes == {<<1, "ack">>, <<1, "retry">>, <<0, "retry">>}

InsertProjection(w) ==
  /\ pc[w] = "insert"
  /\ \E o \in InsertOutcomes :
       /\ sink' = [sink EXCEPT ![cur[w].row] = @ + o[1]]
       /\ pc' = [pc EXCEPT ![w] = o[2]]
  /\ UNCHANGED <<sessionVars, fence, tableVars, held, cur, faults>>

\* Faulty variant: the claim token is not compared.
InFlight(c) == status[c.row] = "in_flight"

\* The guard of mark_delivered and mark_failure.
StillOwned(c) == status[c.row] = "in_flight" /\ attempts[c.row] = c.att

\* A worker leaves the batch: ProcessBatch returns an error, its context has
\* expired, or the process dies.  The rows it held stay in_flight.
LeaveBatch(w) ==
  /\ held' = [held EXCEPT ![w] = {}]
  /\ pc' = [pc EXCEPT ![w] = "idle"]
  /\ cur' = [cur EXCEPT ![w] = NoClaim]

\* The row is settled and the worker goes on to the next one.
NextRow(w) ==
  /\ held' = [held EXCEPT ![w] = @ \ {cur[w]}]
  /\ pc' = [pc EXCEPT ![w] = "next"]
  /\ cur' = [cur EXCEPT ![w] = NoClaim]

\* What a committed settlement leaves behind: the worker continues, or loses
\* the answer and drops the batch.
Acknowledged(w) ==
  \/ NextRow(w) /\ UNCHANGED faults
  \/ /\ faults < MaxFaults
     /\ faults' = faults + 1
     /\ LeaveBatch(w)

\* markDelivered; a claim that is no longer the current one ends the batch.
MarkDelivered(w) ==
  /\ pc[w] = "ack"
  /\ \/ /\ StillOwned(cur[w])
        /\ status' = [status EXCEPT ![cur[w].row] = "delivered"]
        /\ Acknowledged(w)
     \/ /\ ~StillOwned(cur[w])
        /\ LeaveBatch(w)
        /\ UNCHANGED <<status, faults>>
  /\ UNCHANGED <<sessionVars, fence, attempts, due, aged, sink>>

\* Faulty variant: one attempt too few.
PoisonousEarly(w) == pc[w] = "drop" \/ cur[w].att + 1 >= MaxAttempts

\* isPermanentDeliveryFailure, or the attempts are used up.
Poisonous(w) == pc[w] = "drop" \/ cur[w].att >= MaxAttempts

\* markFailure.
MarkFailure(w) ==
  /\ pc[w] \in {"retry", "drop"}
  /\ \/ /\ StillOwned(cur[w])
        /\ status' = [status EXCEPT ![cur[w].row] =
                        IF Poisonous(w) THEN "poison" ELSE "failed"]
        /\ due' = [due EXCEPT ![cur[w].row] = FALSE]
        /\ Acknowledged(w)
     \/ /\ ~StillOwned(cur[w])
        /\ LeaveBatch(w)
        /\ UNCHANGED <<status, due, faults>>
  /\ UNCHANGED <<sessionVars, fence, attempts, aged, sink>>

\* A crash, or the operation timeout, between two steps.
Abandon(w) ==
  /\ pc[w] # "idle"
  /\ faults < MaxFaults
  /\ faults' = faults + 1
  /\ LeaveBatch(w)
  /\ UNCHANGED <<sessionVars, fence, tableVars, sink>>

-----------------------------------------------------------------------------
Claim(w) == \E S \in SUBSET Rows : ClaimBatch(w, S)

Deliver(w) == \/ CheckRow(w) \/ LookupProjection(w) \/ InsertProjection(w)
              \/ MarkDelivered(w) \/ MarkFailure(w)

Cycle(w) == RecoverInFlight(w) \/ Claim(w) \/ EndCycle(w) \/ Deliver(w)

\* Everything but the producers' writes.
Relaying == \/ \E s \in Sessions : SoftDelete(s)
            \/ \E q \in Requests : LookupEvidenceFence(q)
            \/ \E r \in Rows : BecomeDue(r) \/ BecomeAged(r)
            \/ \E w \in Workers : Cycle(w) \/ Abandon(w)

Next == Relaying \/ \E q \in Requests : PersistRun(q)

Spec == Init /\ [][Next]_vars

\* A relay loop keeps running, time passes, and a claim takes rows in the order
\* of available_at, so that no claimable row is passed over forever.
ClaimOf(r) == \E w \in Workers, S \in SUBSET Rows : r \in S /\ ClaimBatch(w, S)

Fairness == /\ \A w \in Workers : WF_vars(Cycle(w))
            /\ \A r \in Rows : /\ WF_vars(BecomeDue(r))
                               /\ WF_vars(BecomeAged(r))
                               /\ SF_vars(ClaimOf(r))

FairSpec == Spec /\ Fairness

-----------------------------------------------------------------------------
(* Properties. *)

Working == {"lookup", "insert", "ack", "retry", "drop"}

\* Every variable has its type, and a relay inside deliverOne is working on a
\* claim of its batch, while one outside a batch holds none.
TypeOK == /\ deleted \in [Sessions -> BOOLEAN]
          /\ version \in [Sessions -> Nat]
          /\ fence \in [Requests -> Nat]
          /\ status \in [Rows -> Statuses]
          /\ attempts \in [Rows -> Nat]
          /\ due \in [Rows -> BOOLEAN]
          /\ aged \in [Rows -> BOOLEAN]
          /\ sink \in [Rows -> Nat]
          /\ pc \in [Workers -> Steps]
          /\ held \in [Workers -> SUBSET Claims]
          /\ cur \in [Workers -> Claims \cup {NoClaim}]
          /\ \A w \in Workers : IF pc[w] \in Working THEN cur[w] \in held[w]
                                                     ELSE cur[w] = NoClaim
          /\ \A w \in Workers : pc[w] \in {"idle", "claim"} => held[w] = {}
          /\ faults \in Nat

\* A row marked delivered is in the projection, whatever crashes, lost answers
\* and overlapping relays came before (markDelivered runs after the sink).
DeliveredIsProjected == \A r \in Rows : status[r] = "delivered" => sink[r] > 0

\* A row that may never be projected (class, fence or digest) is never in the
\* projection, on any attempt of any relay (validateOutboxRow).
OnlyValidProjected == \A r \in Rows : sink[r] > 0 => Kind[RowOf(r)] = "ok"

\* A row is poisoned only after MaxAttempts claims, for a permanent defect, or
\* because its session is gone: transient errors alone, and stale relays,
\* never dead-letter a row early (markFailure).
PoisonJustified ==
  \A r \in Rows : status[r] = "poison" =>
    \/ attempts[r] >= MaxAttempts
    \/ Kind[RowOf(r)] = "terminal"
    \/ deleted[SessionOf[RowOf(r)]]

\* No two relays ever hold the same (row, attempts) claim, even after rows were
\* recovered under a relay that is still running.
ExclusiveClaim ==
  \A v, w \in Workers : v # w => held[v] \cap held[w] = {}

\* If every relay gives up before its claims can be recovered, no row is
\* projected twice, although lookup and insert are separate statements.
NoDuplicateProjection == TimeoutFirst => \A r \in Rows : sink[r] <= 1

\* delivered and poison are final.
Settled(r) == status[r] \in {"delivered", "poison"}

\* A settled row never changes status or attempts again.
SettledIsFinal ==
  [][\A r \in Rows : Settled(r) =>
       status'[r] = status[r] /\ attempts'[r] = attempts[r]]_vars

\* An in_flight row is settled or failed only by the relay holding its latest
\* claim; a relay whose claim was recovered and taken over cannot acknowledge.
OnlyHolderAcknowledges ==
  [][\A r \in Rows :
       /\ status[r] = "in_flight"
       /\ status'[r] \in {"delivered", "failed", "poison"}
       => \E w \in Workers : [row |-> r, att |-> attempts[r]] \in held[w]]_vars

\* Every persisted row is eventually delivered or dead-lettered.
EventuallySettled ==
  \A r \in Rows : status[r] # "absent" ~> Settled(r)

\* A delivered row is in the projection, a row is dead-lettered only for a
\* reason and no claim is held twice, although rows are recovered under relays
\* that still run (relay.go markDelivered, markFailure).
OutboxIsSafe == DeliveredIsProjected /\ PoisonJustified /\ ExclusiveClaim

\* TombstoneFencedDeliverer: the fence check is serialised with the projection
\* write, so no copy is added for a session already tombstoned.
NoProjectionAfterTombstone ==
  [][\A r \in Rows : sink'[r] > sink[r] => ~deleted[SessionOf[RowOf(r)]]]_vars

=============================================================================
