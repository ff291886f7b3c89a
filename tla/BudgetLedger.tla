---------------------------- MODULE BudgetLedger ----------------------------
(***************************************************************************)
(* The durable budget-reservation ledger shared by the Go proxy            *)
(* (packages/budgetledger) and the Python worker (app/budget_ledger.py),   *)
(* the chat handlers and extraction tasks that hold reservations, the      *)
(* spend rollup and the reaper.                                            *)
(*                                                                         *)
(* Every ledger call is one transaction: claims of an organization are     *)
(* serialized by an advisory lock, settlements by the row's version.  The  *)
(* model is one organization and one agent.  A lease is abstracted to how  *)
(* far it is past: "live", "lapsed" (past the lease) or "stale" (past the  *)
(* reaper's grace as well).                                                *)
(***************************************************************************)
EXTENDS Naturals, FiniteSets, FiniteSetsExt

CONSTANTS
  Keys,        \* reservation keys
  Callers,     \* chat requests and extraction tasks
  Proxy,       \* the callers that are chat requests (Go runtime)
  KeyOf,       \* a caller's reservation key
  HashOf,      \* a caller's request hash
  Estimates,   \* admission estimates, in cents
  Costs,       \* measured costs, in cents
  Cap,         \* cap_cents of every period
  Spends,      \* sums the rollup may read from the usage facts
  NPeriods,    \* bound: hard-cap periods
  Skewed,      \* whether an application clock may disagree with NOW()
  SweepLimit,  \* batch_limit of the reaper
  MaxTries,    \* bound: claims of each caller (task attempts, fallback hops)
  MaxFaults    \* bound: lost answers, unavailable databases and crashes

Worker == Callers \ Proxy

ASSUME BudgetAssumption ==
  /\ Proxy \subseteq Callers
  /\ KeyOf \in [Callers -> Keys]
  /\ MaxTries \in [Callers -> Nat]
  /\ Estimates \subseteq Nat /\ Costs \subseteq Nat /\ Spends \subseteq Nat
  /\ Cap \in Nat /\ NPeriods \in Nat /\ MaxFaults \in Nat
  /\ SweepLimit \in Nat \ {0}
  /\ Skewed \in BOOLEAN

VARIABLES
  row,     \* ibex_core.budget_reservations by reservation_key
  period,  \* the active hard-cap period, 0 when there is none
  spent,   \* budget_periods.spent_cents_cached by period
  pc,      \* where a caller stands
  ver,     \* the version of the reservation a caller holds, 0 if none
  est,     \* the estimate that reservation was priced at
  told,    \* what the last ledger call told a caller
  tries,   \* claims a caller has made
  faults   \* faults so far

tableVars == <<row, period, spent>>
callerVars == <<pc, ver, est, told, tries>>
vars == <<tableVars, callerVars, faults>>

-----------------------------------------------------------------------------
(* Rows                                                                    *)

States == {"absent", "claimed", "finalized", "released", "expired"}
Leases == {"none", "live", "lapsed", "stale"}
Markers == {"none", "complete", "estimated"}

Absent == [state |-> "absent", hash |-> "none", period |-> 0, est |-> 0,
           final |-> 0, marker |-> "none", lease |-> "none", version |-> 0]

\* The SUM of activeHoldsSQL: the live holds of period p, row k excluded.
Held(p, k) ==
  MapThenSumSet(LAMBDA j : row[j].est,
    {j \in Keys \ {k} : /\ row[j].state = "claimed" /\ row[j].lease = "live"
                        /\ row[j].period = p})

\* Faulty variant: every hold of another row is left out.
FitsAlone(k, e) == spent[period] + e <= Cap

\* The hard-cap comparison of claimFresh and resolveExisting.
Fits(k, e) == spent[period] + Held(period, k) + e <= Cap

\* INSERT of a first reservation.
Fresh(o, e) ==
  [state |-> "claimed", hash |-> HashOf[o], period |-> period, est |-> e,
   final |-> 0, marker |-> "none", lease |-> "live", version |-> 1]

\* Faulty variant: the reclaimed row keeps the version of the old owner.
ResetSameVersion(r, e) ==
  [r EXCEPT !.state = "claimed", !.period = period, !.est = e, !.final = 0,
            !.marker = "none", !.lease = "live"]

\* Faulty variant: the settled amount is left on the reclaimed row.
ResetKeepsAmount(r, e) ==
  [r EXCEPT !.state = "claimed", !.period = period, !.est = e,
            !.lease = "live", !.version = @ + 1]

\* resetReservationSQL: a lapsed or terminal row starts over in place.
Reset(r, e) ==
  [state |-> "claimed", hash |-> r.hash, period |-> period, est |-> e,
   final |-> 0, marker |-> "none", lease |-> "live", version |-> r.version + 1]

\* A terminal transition: the lease is cleared and the version moves on.
Close(r, s, cents, m) ==
  [state |-> s, hash |-> r.hash, period |-> r.period, est |-> r.est,
   final |-> cents, marker |-> m, lease |-> "none", version |-> r.version + 1]

\* expireStaleClaimSQL, _EXPIRE_ROW_SQL and the SET of the reaper.
Expired(r) == Close(r, "expired", 0, "none")

\* Faulty variant: a live lease does not protect the hold.
SeesNever(o, r) == {FALSE}

\* Whether the runtime takes a claimed row's lease for live.  The worker asks
\* the database; the proxy compares with its own clock.
SeesLive(o, r) ==
  IF o \in Proxy /\ Skewed THEN BOOLEAN ELSE {r.lease = "live"}

-----------------------------------------------------------------------------
(* The claim transaction                                                   *)

\* What a refusal for want of capacity leaves of the row: the proxy commits
\* the expiry of a lapsed claim, the worker's exception rolls it back.
Refused(o, r) ==
  IF r.state = "claimed" /\ o \in Proxy THEN Expired(r) ELSE r

\* Outcome kind and resulting row of one admission, as the runtime saw it.
ClaimInTx(o, e, live) ==
  LET k == KeyOf[o]
      r == row[k]
  IN CASE period = 0 -> [kind |-> "no_cap", row |-> r]
       [] period # 0 /\ r.state = "absent" /\ Fits(k, e) ->
            [kind |-> "owned", row |-> Fresh(o, e)]
       [] period # 0 /\ r.state = "absent" /\ ~Fits(k, e) ->
            [kind |-> "exceeded", row |-> r]
       [] period # 0 /\ r.state # "absent" /\ r.hash # HashOf[o] ->
            [kind |-> "conflict", row |-> r]
       [] OTHER ->
            IF r.state = "claimed" /\ live
            THEN [kind |-> "in_progress", row |-> r]
            ELSE IF Fits(k, e) THEN [kind |-> "owned", row |-> Reset(r, e)]
                               ELSE [kind |-> "exceeded", row |-> Refused(o, r)]

\* How a ledger call ends for its caller: the answer arrives, the commit's
\* answer is lost, or nothing was committed.
Endings == {"answered", "lost", "failed"}

Charge(ending) ==
  /\ ending # "answered" => faults < MaxFaults
  /\ faults' = faults + (IF ending = "answered" THEN 0 ELSE 1)

\* Where a caller that does not own a hold goes.  A chat request ends: it was
\* refused, or (no cap) runs without a reservation.  Celery runs an extraction
\* task again when the ledger was unavailable or the key in progress.
NotOwned(o, kind) ==
  IF o \in Worker /\ kind \in {"in_progress", "error"} THEN "admit" ELSE "done"

\* Claim: claimBudgetAdmission, the re-claim of rebudgetForFallback, and
\* _admit_budget of the worker.
Claim(o) ==
  /\ pc[o] = "admit" /\ tries[o] < MaxTries[o]
  /\ \E e \in Estimates, live \in SeesLive(o, row[KeyOf[o]]), ending \in Endings :
       LET out == ClaimInTx(o, e, live)
           kind == IF ending = "answered" THEN out.kind ELSE "error"
       IN /\ Charge(ending)
          /\ row' = IF ending = "failed" THEN row
                    ELSE [row EXCEPT ![KeyOf[o]] = out.row]
          /\ told' = [told EXCEPT ![o] = kind]
          /\ pc' = [pc EXCEPT ![o] = IF kind = "owned" THEN "working"
                                     ELSE NotOwned(o, kind)]
          /\ ver' = [ver EXCEPT ![o] = IF kind = "owned" THEN out.row.version
                                       ELSE 0]
          /\ est' = [est EXCEPT ![o] = IF kind = "owned" THEN e ELSE 0]
  /\ tries' = [tries EXCEPT ![o] = @ + 1]
  /\ UNCHANGED <<period, spent>>

\* No hold is taken: the cached snapshot shows no hard cap, or the request
\* cannot be priced and is refused before the ledger is asked.
SkipLedger(o) ==
  /\ pc[o] = "admit"
  /\ pc' = [pc EXCEPT ![o] = "done"]
  /\ UNCHANGED <<tableVars, ver, est, told, tries, faults>>

-----------------------------------------------------------------------------
(* Settlement                                                              *)

\* The WHERE clause of finalizeReservationSQL and releaseReservationSQL.
Holds(o, r) == r.state = "claimed" /\ r.version = ver[o]

\* Faulty variant: any identical settlement counts as this claim's own.
ReplayOfAnyone(o, r, s, cents, marker) ==
  r.state = s /\ r.final = cents /\ r.marker = marker

\* An identical repeat of this claim's own transition.
Replay(o, r, s, cents, marker) ==
  /\ r.version = ver[o] + 1
  /\ r.state = s /\ r.final = cents /\ r.marker = marker

\* The settle transaction: close the hold, or accept an identical repeat, or
\* report that the claim is closed.
Settle(o, s, cents, marker, ending) ==
  LET r == row[KeyOf[o]] IN
  /\ Charge(ending)
  /\ row' = IF ending # "failed" /\ Holds(o, r)
            THEN [row EXCEPT ![KeyOf[o]] = Close(r, s, cents, marker)]
            ELSE row
  /\ told' = [told EXCEPT ![o] =
       IF ending # "answered" THEN "error"
       ELSE IF Holds(o, r) \/ Replay(o, r, s, cents, marker) THEN s
            ELSE "closed"]
  /\ UNCHANGED <<period, spent, ver, est, tries>>

\* The provider answered: the measured cost, or the estimate when it reported
\* no usage, is finalized.  A chat request ends whatever the ledger says; an
\* extraction task goes on to write its memories.
Finalize(o) ==
  /\ pc[o] = "working"
  /\ \E ending \in Endings :
       \/ \E c \in Costs : Settle(o, "finalized", c, "complete", ending)
       \/ Settle(o, "finalized", est[o], "estimated", ending)
  /\ pc' = [pc EXCEPT ![o] = IF o \in Proxy THEN "done" ELSE "persist"]

\* The provider failed, or answered with a transient status: the hold is
\* released.  A chat request may then try the next fallback model, which
\* claims the same key again; an extraction task is retried by Celery.
Release(o) ==
  /\ pc[o] = "working"
  /\ \E ending \in Endings : Settle(o, "released", 0, "none", ending)
  /\ \/ pc' = [pc EXCEPT ![o] = "admit"]
     \/ o \in Proxy /\ pc' = [pc EXCEPT ![o] = "done"]

\* The memories and the session pointer are written, or the task is retried
\* from its start because a write failed.
Persist(o) ==
  /\ pc[o] = "persist"
  /\ \/ pc' = [pc EXCEPT ![o] = "done"] /\ UNCHANGED faults
     \/ faults < MaxFaults /\ faults' = faults + 1
        /\ pc' = [pc EXCEPT ![o] = "admit"]
  /\ UNCHANGED <<tableVars, ver, est, told, tries>>

\* The process dies, or an extraction call ends in an error that is not a
\* transport error: the hold stays behind.  A lost task is delivered again.
Crash(o) ==
  /\ pc[o] \in {"working", "persist"} /\ faults < MaxFaults
  /\ faults' = faults + 1
  /\ \/ pc' = [pc EXCEPT ![o] = "done"]
     \/ o \in Worker /\ pc' = [pc EXCEPT ![o] = "admit"]
  /\ ver' = [ver EXCEPT ![o] = 0]
  /\ UNCHANGED <<tableVars, est, told, tries>>

-----------------------------------------------------------------------------
(* Time, the reaper, the rollup and the administrator                      *)

LeaseLapse(k) ==
  /\ row[k].lease = "live"
  /\ row' = [row EXCEPT ![k].lease = "lapsed"]
  /\ UNCHANGED <<period, spent, callerVars, faults>>

GracePass(k) ==
  /\ row[k].lease = "lapsed"
  /\ row' = [row EXCEPT ![k].lease = "stale"]
  /\ UNCHANGED <<period, spent, callerVars, faults>>

\* Faulty variant: the comparison with the grace window is turned around.
ReapableInGrace(k) == row[k].state = "claimed" /\ row[k].lease = "lapsed"

\* The stale CTE of _EXPIRE_STALE_SQL.
Reapable(k) == row[k].state = "claimed" /\ row[k].lease = "stale"

\* budget_reservation_sweep: one UPDATE over at most SweepLimit rows.
ExpireStale ==
  LET stale == {k \in Keys : Reapable(k)} IN
  /\ stale # {}
  /\ \E batch \in SUBSET stale :
       /\ Cardinality(batch) = IF Cardinality(stale) < SweepLimit
                               THEN Cardinality(stale) ELSE SweepLimit
       /\ row' = [k \in Keys |-> IF k \in batch THEN Expired(row[k]) ELSE row[k]]
  /\ UNCHANGED <<period, spent, callerVars, faults>>

\* budget_spent_rollup: the sum of the usage facts replaces the cached spend.
\* Facts arrive late and rollups overlap, so any sum may be the one written.
Rollup ==
  /\ period # 0
  /\ \E s \in Spends : spent' = [spent EXCEPT ![period] = s]
  /\ UNCHANGED <<row, period, callerVars, faults>>

\* A hard-cap period begins (the previous one, if any, has ended).
NextPeriod ==
  /\ period < NPeriods
  /\ period' = period + 1
  /\ UNCHANGED <<row, spent, callerVars, faults>>

-----------------------------------------------------------------------------

Init ==
  /\ row = [k \in Keys |-> Absent]
  /\ period \in 0..(IF NPeriods = 0 THEN 0 ELSE 1)
  /\ spent = [p \in 1..NPeriods |-> 0]
  /\ pc = [o \in Callers |-> "admit"]
  /\ ver = [o \in Callers |-> 0]
  /\ est = [o \in Callers |-> 0]
  /\ told = [o \in Callers |-> "none"]
  /\ tries = [o \in Callers |-> 0]
  /\ faults = 0

CallerStep(o) ==
  Claim(o) \/ SkipLedger(o) \/ Finalize(o) \/ Release(o) \/ Persist(o) \/ Crash(o)

Next ==
  \/ \E o \in Callers : CallerStep(o)
  \/ \E k \in Keys : LeaseLapse(k) \/ GracePass(k)
  \/ ExpireStale \/ Rollup \/ NextPeriod

Spec == Init /\ [][Next]_vars

\* Leases run out and Celery beat keeps scheduling the reaper; no caller has
\* to make progress.
FairSpec ==
  /\ Spec
  /\ \A k \in Keys : WF_vars(LeaseLapse(k)) /\ WF_vars(GracePass(k))
  /\ WF_vars(ExpireStale)

-----------------------------------------------------------------------------
(* Properties                                                              *)

Hashes == {"none"} \cup {HashOf[o] : o \in Callers}

RowType ==
  [state : States, hash : Hashes,
   period : 0..NPeriods, est : Nat, final : Nat, marker : Markers,
   lease : Leases, version : Nat]

Replies == {"none", "owned", "no_cap", "exceeded", "conflict", "in_progress",
            "error", "closed", "finalized", "released"}

\* Every variable keeps its type.
TypeOK ==
  /\ row \in [Keys -> RowType]
  /\ period \in 0..NPeriods
  /\ spent \in [1..NPeriods -> Nat]
  /\ pc \in [Callers -> {"admit", "working", "persist", "done"}]
  /\ ver \in [Callers -> Nat]
  /\ est \in [Callers -> Nat]
  /\ told \in [Callers -> Replies]
  /\ tries \in [Callers -> Nat]
  /\ faults \in 0..MaxFaults

RowOK(r) ==
  /\ r.state = "finalized" <=> r.marker # "none"
  /\ r.state # "finalized" => r.final = 0
  /\ r.state = "claimed" <=> r.lease # "none"
  /\ r.state # "absent" => r.version > 0

\* Every row satisfies the CHECK constraints of migration 000046 after every
\* statement of both runtimes: only a finalized row carries an amount and a
\* marker, only a claimed row carries a lease, and versions are positive.
ChecksHold == \A k \in Keys : RowOK(row[k])

\* The version identifies the owner: two callers never hold a reservation of
\* the same key at the same version, however claims, retries, fallbacks and
\* the reaper interleave, so at most one of them can ever settle a hold.
SingleOwner ==
  \A o1, o2 \in Callers :
    o1 # o2 /\ KeyOf[o1] = KeyOf[o2] /\ ver[o1] # 0 => ver[o1] # ver[o2]

\* The live holds of a period never add up to more than its cap, whatever the
\* cached spend does.
HoldsWithinCap ==
  \A p \in 1..NPeriods :
    MapThenSumSet(LAMBDA j : row[j].est,
      {j \in Keys : /\ row[j].state = "claimed" /\ row[j].lease = "live"
                    /\ row[j].period = p}) <= Cap

\* A caller is told that its hold was finalized or released only when the row
\* is in that state by this caller's own transition: a stale owner whose key
\* was reclaimed, settled by its new owner or reaped is told so.
SettlementIsOwn ==
  [][\A o \in Callers :
       told'[o] # told[o] /\ told'[o] \in {"finalized", "released"} =>
         /\ row'[KeyOf[o]].state = told'[o]
         /\ row'[KeyOf[o]].version = ver[o] + 1]_vars

\* Nobody but its owner ends a hold whose lease has not run out: neither a
\* competing claim, nor the reaper, nor the settlement of an older owner.
LiveHoldIsProtected ==
  [][\A k \in Keys :
       row[k].lease = "live" /\ row'[k].version # row[k].version =>
         \E o \in Callers : /\ KeyOf[o] = k /\ ver[o] = row[k].version
                            /\ pc[o] = "working" /\ pc'[o] # "working"]_vars

\* Every hold ends: it is settled, reclaimed by a later
\* attempt, or expired by the reaper when its owner crashed or lost its way.
EveryHoldEnds ==
  \A k \in Keys : row[k].state = "claimed" ~> row[k].state # "claimed"

=============================================================================
