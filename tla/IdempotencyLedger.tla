------------------------- MODULE IdempotencyLedger --------------------------
(***************************************************************************)
(* The PostgreSQL request-idempotency ledger (packages/idempotency in Go,  *)
(* packages/ibex_idempotency in Python, one table) and the handlers that   *)
(* use it: chat completions and session termination in the proxy, the      *)
(* extraction enqueue of the worker, POST /v1/memories.                    *)
(*                                                                         *)
(* One transaction is one step.  A lease is live or lapsed by the clock of *)
(* the database; the runtimes also look at their own clock, which may be   *)
(* wrong.  A response is named by the request that produced it.            *)
(***************************************************************************)
EXTENDS Naturals

CONSTANTS Keys, Requests, None,
          KeyOf, BodyHash,
          Chat,       \* requests answered before the response is recorded
          Attempts,   \* how often a handler tries to finalize
          MaxFailures   \* bound: lost answers, crashes, refusals, wrong clocks

LedgerAssumption ==
  /\ KeyOf \in [Requests -> Keys]
  /\ Chat \subseteq Requests /\ None \notin Requests
  /\ Attempts \in [Requests -> Nat \ {0}]
  /\ MaxFailures \in Nat

VARIABLES row,    \* ibex_core.idempotency_ledger
          stage, id, version,   \* a request: its place in the handler, its ClaimToken
          tries,  \* its failed attempts to finalize
          served, \* the response its client was given
          failures
callVars == <<stage, id, version, tries, served>>
ledgerVars == <<row, callVars, failures>>

Hashes == {BodyHash[q] : q \in Requests}
Running == {"owned", "executed", "replied", "releasing"}

\* An absent row keeps the id of the last one: ids are never used again.
RowType == [state : {"absent", "claimed", "finalized"}, id : Nat, version : Nat,
            hash : Hashes \cup {None}, lease : {"none", "live", "lapsed"},
            resp : Requests \cup {None}]

LedgerInit ==
  /\ row = [k \in Keys |-> [state |-> "absent", id |-> 0, version |-> 0,
                            hash |-> None, lease |-> "none", resp |-> None]]
  /\ stage = [q \in Requests |-> "idle"]
  /\ id = [q \in Requests |-> 0]
  /\ version = [q \in Requests |-> 0]
  /\ tries = [q \in Requests |-> 0]
  /\ served = [q \in Requests |-> None]
  /\ failures = 0

Go(q, to) == stage' = [stage EXCEPT ![q] = to]
Put(q, r) == row' = [row EXCEPT ![KeyOf[q]] = r]

\* A call ends with an answer, commits and loses the answer, or does nothing.
Endings == {"answered", "lost", "failed"}
Charge(n) == failures + n <= MaxFailures /\ failures' = failures + n
Cost(ending) == IF ending = "answered" THEN 0 ELSE 1

-----------------------------------------------------------------------------
(* Claim                                                                   *)

Inserted(q, r) ==
  [state |-> "claimed", id |-> r.id + 1, version |-> 1, hash |-> BodyHash[q],
   lease |-> "live", resp |-> None]

\* Faulty variant: the reclaiming owner gets the token of the old one.
ReclaimedSame(r) ==
  [state |-> "claimed", id |-> r.id, version |-> r.version, hash |-> r.hash,
   lease |-> "live", resp |-> None]

\* The UPDATE that takes a lapsed claim over.
Reclaimed(r) ==
  [state |-> "claimed", id |-> r.id, version |-> r.version + 1, hash |-> r.hash,
   lease |-> "live", resp |-> None]

\* Faulty variant: the clock of the runtime alone decides on a takeover.
OutcomeOwnClock(q, r, seesLive) ==
  CASE r.state = "absent" -> "owned"
    [] r.state # "absent" /\ r.hash # BodyHash[q] -> "conflict"
    [] r.state = "finalized" /\ r.hash = BodyHash[q] -> "replay"
    [] OTHER -> IF seesLive THEN "in_progress" ELSE "owned"

\* Faulty variant: a claim stays in progress until its owner ends it.
OutcomeNoTakeover(q, r, seesLive) ==
  CASE r.state = "absent" -> "owned"
    [] r.state # "absent" /\ r.hash # BodyHash[q] -> "conflict"
    [] r.state = "finalized" /\ r.hash = BodyHash[q] -> "replay"
    [] OTHER -> "in_progress"

\* insertOrLoad and resolveClaim.  A claim the runtime's clock holds lapsed is
\* taken over only if the database agrees.
Outcome(q, r, seesLive) ==
  CASE r.state = "absent" -> "owned"
    [] r.state # "absent" /\ r.hash # BodyHash[q] -> "conflict"
    [] r.state = "finalized" /\ r.hash = BodyHash[q] -> "replay"
    [] OTHER -> IF seesLive \/ r.lease = "live" THEN "in_progress" ELSE "owned"

\* The runtime's clock disagrees with the database's about the lease.
Wrong(r, seesLive) == IF r.state = "claimed" /\ seesLive # (r.lease = "live") THEN 1 ELSE 0

Taken(q, r) == IF r.state = "absent" THEN Inserted(q, r) ELSE Reclaimed(r)

\* Claim and its error path.  A row released between the INSERT and the SELECT
\* is an error too, and every handler answers 503 without doing the work.
Claim(q) ==
  LET r == row[KeyOf[q]] IN
  /\ stage[q] = "idle"
  /\ \E ending \in Endings, live \in BOOLEAN :
       LET kind == Outcome(q, r, live)
           told == IF ending = "answered" THEN kind ELSE "error"
       IN /\ Charge(Cost(ending) + Wrong(r, live))
          /\ IF kind = "owned" /\ ending # "failed"
             THEN Put(q, Taken(q, r)) ELSE UNCHANGED row
          /\ Go(q, CASE told = "owned" -> "owned"
                     [] told = "replay" -> "answered"
                     [] told = "conflict" -> "conflict"
                     [] OTHER -> "idle")
          /\ served' = [served EXCEPT ![q] = IF told = "replay" THEN r.resp ELSE @]
          /\ id' = [id EXCEPT ![q] = IF told = "owned" THEN Taken(q, r).id ELSE @]
          /\ version' = [version EXCEPT ![q] =
                           IF told = "owned" THEN Taken(q, r).version ELSE @]
  /\ tries' = [tries EXCEPT ![q] = 0]

-----------------------------------------------------------------------------
(* Work, release and finalize                                              *)

\* The provider call, the session completion, the dispatch or the write.
Execute(q) ==
  /\ stage[q] = "owned" /\ Go(q, "executed")
  /\ UNCHANGED <<row, id, version, tries, served, failures>>

\* The work failed in a way the handler knows of, or the response is one that
\* is not to be kept (429, 5xx): the claim is given back.
Reject(q) ==
  /\ stage[q] = "owned" /\ Go(q, "releasing") /\ Charge(1)
  /\ UNCHANGED <<row, id, version, tries, served>>

\* The request ends with its claim in place: the process died, the client of a
\* chat request went away, or the session could not be completed.
Leave(q) ==
  /\ stage[q] \in Running /\ Charge(1)
  /\ Go(q, IF served[q] = None THEN "idle" ELSE "answered")
  /\ UNCHANGED <<row, id, version, tries, served>>

\* The WHERE clause of Finalize and Release.
Owns(q, r) == r.state = "claimed" /\ r.id = id[q] /\ r.version = version[q]

Deleted(r) ==
  [state |-> "absent", id |-> r.id, version |-> 0, hash |-> None,
   lease |-> "none", resp |-> None]

\* A response too large to be kept is released after it was given.
Oversize(q) ==
  /\ stage[q] = "replied" /\ Go(q, "releasing") /\ Charge(1)
  /\ UNCHANGED <<row, id, version, tries, served>>

\* Release, whose failure is only logged.
Release(q) ==
  LET r == row[KeyOf[q]] IN
  /\ stage[q] = "releasing" /\ Go(q, IF served[q] = None THEN "idle" ELSE "answered")
  /\ \E ending \in Endings :
       /\ Charge(Cost(ending))
       /\ IF Owns(q, r) /\ ending # "failed" THEN Put(q, Deleted(r)) ELSE UNCHANGED row
  /\ UNCHANGED <<id, version, tries, served>>

\* The chat handler writes and flushes the response first.
Reply(q) ==
  /\ q \in Chat /\ stage[q] = "executed" /\ Go(q, "replied")
  /\ served' = [served EXCEPT ![q] = q]
  /\ UNCHANGED <<row, id, version, tries, failures>>

Finalized(q, r) ==
  [state |-> "finalized", id |-> r.id, version |-> r.version + 1, hash |-> r.hash,
   lease |-> "none", resp |-> q]

\* Faulty variant: a finalize that changed no row counts as a success.
AfterUnchecked(q, owned, ending) ==
  CASE q \in Chat \/ ending = "answered" -> "answered"
    [] OTHER -> IF tries[q] + 1 < Attempts[q] THEN "executed" ELSE "idle"

\* Where Finalize leaves the handler.  The chat handler only logs an error;
\* the others answer 503 when the claim was lost, and when the ledger stays
\* unavailable.
AfterFinalize(q, owned, ending) ==
  CASE q \in Chat \/ (ending = "answered" /\ owned) -> "answered"
    [] q \notin Chat /\ ending = "answered" /\ ~owned -> "idle"
    [] OTHER -> IF tries[q] + 1 < Attempts[q] THEN "executed" ELSE "idle"

Finalize(q) ==
  LET r == row[KeyOf[q]]
      owned == Owns(q, r)
  IN
  /\ stage[q] = IF q \in Chat THEN "replied" ELSE "executed"
  /\ \E ending \in Endings :
       /\ Charge(Cost(ending))
       /\ IF owned /\ ending # "failed" THEN Put(q, Finalized(q, r)) ELSE UNCHANGED row
       /\ Go(q, AfterFinalize(q, owned, ending))
       /\ served' = [served EXCEPT ![q] =
            IF q \notin Chat /\ AfterFinalize(q, owned, ending) = "answered" THEN q ELSE @]
       /\ tries' = [tries EXCEPT ![q] = @ + Cost(ending)]
  /\ UNCHANGED <<id, version>>

-----------------------------------------------------------------------------
(* Time                                                                    *)

\* A lease runs out.  That it does so under a handler at work is a fault.
Lapse(k) ==
  /\ row[k].lease = "live"
  /\ Charge(IF \E q \in Requests : KeyOf[q] = k /\ stage[q] \in Running /\ Owns(q, row[k])
            THEN 1 ELSE 0)
  /\ row' = [row EXCEPT ![k] = [@ EXCEPT !.lease = "lapsed"]]
  /\ UNCHANGED callVars

Move(q) ==
  \/ Claim(q) \/ Execute(q) \/ Reject(q) \/ Leave(q)
  \/ Oversize(q) \/ Release(q) \/ Reply(q) \/ Finalize(q)

LedgerNext == (\E q \in Requests : Move(q)) \/ (\E k \in Keys : Lapse(k))

LedgerSpec == LedgerInit /\ [][LedgerNext]_ledgerVars

\* Handlers run on, clients retry a 409 in progress and a 503, time passes.
LedgerFairSpec ==
  /\ LedgerSpec
  /\ \A q \in Requests :
       WF_ledgerVars(Claim(q) \/ Execute(q) \/ Release(q) \/ Reply(q) \/ Finalize(q))
  /\ \A k \in Keys : WF_ledgerVars(Lapse(k))

-----------------------------------------------------------------------------
(* Properties                                                              *)

\* Types, and what the columns of a row say of one another: a lease belongs to
\* a claim, a response to a finalized row.
LedgerTypeOK ==
  /\ row \in [Keys -> RowType]
  /\ \A k \in Keys : /\ row[k].lease = "none" <=> row[k].state # "claimed"
                     /\ row[k].resp = None <=> row[k].state # "finalized"
                     /\ row[k].hash = None <=> row[k].state = "absent"
  /\ stage \in [Requests -> {"idle", "answered", "conflict"} \cup Running]
  /\ id \in [Requests -> Nat] /\ version \in [Requests -> Nat]
  /\ tries \in [Requests -> Nat]
  /\ served \in [Requests -> Requests \cup {None}]
  /\ failures \in 0..MaxFailures

\* A claim has one owner: of the handlers at work under a key at most one holds
\* the id and version of the row, however leases lapsed, claims were released
\* and inserted again, and answers were lost.
OneOwner ==
  \A p, q \in Requests :
    /\ KeyOf[p] = KeyOf[q]
    /\ stage[p] \in Running /\ Owns(p, row[KeyOf[p]])
    /\ stage[q] \in Running /\ Owns(q, row[KeyOf[q]])
    => p = q

\* A claim that is in force is taken by no other request, whatever the clock
\* of the runtime shows, and is ended only by the handler that owns it.
LiveClaimIsKept ==
  [][\A k \in Keys :
       row[k].lease = "live" /\ row'[k].version # row[k].version =>
         \E q \in Requests : /\ KeyOf[q] = k /\ Owns(q, row[k])
                             /\ stage[q] \in Running
                             /\ <<stage'[q], tries'[q]>> # <<stage[q], tries[q]>>]_ledgerVars

\* The ledger keeps the promise of an idempotency key: one response is recorded,
\* it stays, and whoever is answered after it was recorded gets it.  Only the
\* answer a chat handler gives before it records is outside the promise.
Promise == INSTANCE ReplayOnce WITH
  HashOf <- BodyHash,
  recorded <- [k \in Keys |-> IF row[k].state = "finalized" THEN row[k].resp ELSE None],
  answers <- [q \in Requests |-> IF q \in Chat /\ served[q] = q THEN None ELSE served[q]]

KeepsPromise == Promise!Spec

\* One response is recorded for a key and replayed to whoever asks, a claim has
\* one owner, and a claim in force is ended by its owner only, whatever the
\* clock of the other runtime shows (packages/idempotency/ledger.go,
\* ibex_idempotency/ledger.py).
PromiseIsKept == KeepsPromise /\ []OneOwner /\ LiveClaimIsKept

\* Every request is answered or refused for good: a claim whose owner went
\* away holds its key only until the lease runs out.
EveryoneIsAnswered == \A q \in Requests : <>(stage[q] \in {"answered", "conflict"})

=============================================================================
