----------------------------- MODULE EvidenceAck -----------------------------
(***************************************************************************)
(* The acknowledgement boundary of an evidence write                       *)
(* (services/proxy/internal/http/session/evidence_ack.go) over the outbox: *)
(* several proxy calls persist the same or different runs, a call whose    *)
(* commit outcome is unknown reconciles against the tables, and relays     *)
(* drain the outbox meanwhile.                                             *)
(***************************************************************************)
EXTENDS EvidenceOutbox

CONSTANTS Calls,            \* PersistEvidenceForProfile calls
          RequestOf,        \* the run a call persists
          AllowUncertified  \* the profile of a call

CallAssumption == /\ RequestOf \in [Calls -> Requests]
                  /\ AllowUncertified \in [Calls -> BOOLEAN]

VARIABLE ack  \* the acknowledgement status of a call
ackVars == <<vars, ack>>

AckStates == {"start", "reconcile", "durable", "replayed", "uncertified", "unavailable"}
Answered == {"durable", "replayed", "uncertified"}

RunRows(q) == {r \in Rows : RowOf(r) = q}

AckInit == Init /\ ack = [p \in Calls |-> "start"]

Answer(p, a) == ack' = [ack EXCEPT ![p] = a]

\* PersistRun and isDurablePersistResult: the write commits and is reported,
\* or commits and the report is lost, or does not commit; an existing run is
\* replayed.
Persist(p) ==
  /\ ack[p] = "start"
  /\ fence[RequestOf[p]] # 0
  /\ \/ PersistRun(RequestOf[p]) /\ (Answer(p, "durable") \/ Answer(p, "reconcile"))
     \/ HasRun(RequestOf[p]) /\ Answer(p, "replayed") /\ UNCHANGED vars
     \/ Answer(p, "reconcile") /\ UNCHANGED vars

Retryable(r) == status[r] \in {"pending", "failed", "in_flight"}

\* Faulty variant: poison rows do not spoil the proof.
ProvenWithPoison(q) == HasRun(q) /\ Kind[q] = "ok"

\* ReconcileRun succeeds: the run exists, every row revalidates, none is poison.
Proven(q) ==
  /\ HasRun(q)
  /\ Kind[q] = "ok"
  /\ \A r \in RunRows(q) : status[r] # "poison"

\* Faulty variant: a failed lookup is answered as a durable retry.
ReconciledOptimistic(p) ==
  LET q == RequestOf[p] IN
  IF Proven(q) /\ \A r \in RunRows(q) : ~Retryable(r) THEN "replayed"
  ELSE IF AllowUncertified[p] THEN "uncertified" ELSE "unavailable"

\* reconcileEvidenceFailure.
Reconciled(p) ==
  LET q == RequestOf[p] IN
  IF ~Proven(q) THEN "unavailable"
  ELSE IF \A r \in RunRows(q) : ~Retryable(r) THEN "replayed"
  ELSE IF AllowUncertified[p] THEN "uncertified" ELSE "unavailable"

\* The reconciliation reads one snapshot; it may also fail.
Reconcile(p) ==
  /\ ack[p] = "reconcile"
  /\ Answer(p, Reconciled(p)) \/ Answer(p, "unavailable")
  /\ UNCHANGED vars

CallStep(p) == Persist(p) \/ Reconcile(p)

AckNext == \/ Relaying /\ UNCHANGED ack
           \/ \E p \in Calls : CallStep(p)

AckSpec == AckInit /\ [][AckNext]_ackVars
AckFairSpec ==
  /\ AckSpec
  /\ \A w \in Workers : WF_ackVars(Cycle(w) /\ UNCHANGED ack)
  /\ \A r \in Rows : /\ WF_ackVars(BecomeDue(r) /\ UNCHANGED ack)
                     /\ WF_ackVars(BecomeAged(r) /\ UNCHANGED ack)
                     /\ SF_ackVars(ClaimOf(r) /\ UNCHANGED ack)

-----------------------------------------------------------------------------
(* Properties. *)

\* A 200 or 202 answer is given only for a run whose rows are all in the
\* outbox, whichever of the racing calls wrote them and whatever answers were
\* lost (PersistEvidenceForProfile).
AnsweredIsDurable ==
  \A p \in Calls : ack[p] \in Answered =>
    \A r \in RunRows(RequestOf[p]) : status[r] # "absent"

\* A 202 is given only while a relay can still deliver some row of the run and
\* no row of it is dead-lettered (HasDurableRetry).
UncertifiedIsRetryable ==
  [][\A p \in Calls :
       ack[p] # "uncertified" /\ ack'[p] = "uncertified" =>
         /\ \E r \in RunRows(RequestOf[p]) : Retryable(r)
         /\ \A r \in RunRows(RequestOf[p]) : status[r] \notin {"absent", "poison"}]_ackVars

\* Both, and no row is projected twice while relays give up before recovery
\* (evidence_ack.go).
AnswersAreTrue == [](AnsweredIsDurable /\ NoDuplicateProjection) /\ UncertifiedIsRetryable

=============================================================================
