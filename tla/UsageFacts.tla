----------------------------- MODULE UsageFacts -----------------------------
(***************************************************************************)
(* The usage-fact writer of the proxy (packages/billing/factwriter.go).    *)
(* Requests hand a fact to a bounded buffer; the loop, and at the end      *)
(* Shutdown, take the whole buffer and insert it into ClickHouse.  The     *)
(* table has no key: an insert that reports an error may have taken        *)
(* effect, and its rows are put back.                                      *)
(***************************************************************************)
EXTENDS Naturals, Sequences, Functions, FiniteSets

CONSTANTS
  Facts,          \* one fact per request
  MaxBufferSize,  \* cfg.MaxBufferSize
  MaxErrors       \* inserts that report an error

FactsAssumption == MaxBufferSize \in Nat /\ MaxErrors \in Nat

VARIABLES
  buf,       \* w.buf
  closed,    \* w.closed, with stopCh closed
  loop,      \* the loop: "idle", "flush" (its rows are taken), "ended"
  shut,      \* Shutdown: "not called", "wait", "flush", "failed", "ok"
  rows,      \* the rows a Flush has taken; one Flush runs at a time
  sink,      \* copies of each fact in ibex.usage_facts
  reply,     \* what became of each Write: "none", "accepted", "refused"
  dropped,   \* facts onDrop reported after they had been accepted
  unsure,    \* facts of an insert that failed and took effect
  errors     \* inserts that failed so far

factsVars == <<buf, closed, loop, shut, rows, sink, reply, dropped, unsure, errors>>

FactsInit ==
  /\ buf = <<>>
  /\ rows = <<>>
  /\ closed = FALSE
  /\ loop = "idle"
  /\ shut = "not called"
  /\ sink = [f \in Facts |-> 0]
  /\ reply = [f \in Facts |-> "none"]
  /\ dropped = {}
  /\ unsure = {}
  /\ errors = 0

\* Write: refused once closed or full; the refusal is an error the caller logs.
Write(f) ==
  /\ reply[f] = "none"
  /\ IF closed \/ Len(buf) >= MaxBufferSize
     THEN /\ reply' = [reply EXCEPT ![f] = "refused"]
          /\ UNCHANGED buf
     ELSE /\ reply' = [reply EXCEPT ![f] = "accepted"]
          /\ buf' = Append(buf, f)
  /\ UNCHANGED <<closed, loop, shut, rows, sink, dropped, unsure, errors>>

\* takeBuffer.
TakeBuffer ==
  /\ rows' = buf
  /\ buf' = <<>>

\* flushOnce on a tick or a signal: Flush takes the buffer, if there is anything.
FlushOnce ==
  /\ loop = "idle"
  /\ ~closed
  /\ buf # <<>>
  /\ TakeBuffer
  /\ loop' = "flush"
  /\ UNCHANGED <<closed, shut, sink, reply, dropped, unsure, errors>>

\* loop: the select sees stopCh and returns.
LoopEnds ==
  /\ loop = "idle"
  /\ closed
  /\ loop' = "ended"
  /\ UNCHANGED <<buf, closed, shut, rows, sink, reply, dropped, unsure, errors>>

\* The rows requeueFront has to place: the restored ones before the newer ones.
Combined == rows \o buf

\* What fits into the buffer again.
Kept == SubSeq(Combined, 1, IF Len(Combined) > MaxBufferSize THEN MaxBufferSize ELSE Len(Combined))

\* Faulty variant of Discarded: the writes that came in meanwhile are
\* overwritten and only the overflow of the restored rows is reported.
DiscardedOfRows == Range(rows) \ Range(Kept)

\* The rows onDrop reports.
Discarded == Range(Combined) \ Range(Kept)

\* requeueFront.
RequeueFront ==
  /\ buf' = Kept
  /\ dropped' = dropped \cup Discarded

\* insertRows succeeds.
Inserted ==
  /\ sink' = [f \in Facts |-> sink[f] + (IF f \in Range(rows) THEN 1 ELSE 0)]
  /\ rows' = <<>>
  /\ UNCHANGED <<buf, dropped, unsure, errors>>

\* insertRows reports an error, after the insert took effect or without.
InsertFailed ==
  /\ errors < MaxErrors
  /\ errors' = errors + 1
  /\ \/ UNCHANGED <<sink, unsure>>
     \/ /\ sink' = [f \in Facts |-> sink[f] + (IF f \in Range(rows) THEN 1 ELSE 0)]
        /\ unsure' = unsure \cup Range(rows)
  /\ RequeueFront
  /\ rows' = <<>>

\* The insert of the loop; its error is ignored and the rows wait for a tick.
LoopInsert ==
  /\ loop = "flush"
  /\ Inserted \/ InsertFailed
  /\ loop' = "idle"
  /\ UNCHANGED <<closed, shut, reply>>

\* Shutdown: closed under the lock.  A second call returns at once.
Shutdown ==
  /\ ~closed
  /\ closed' = TRUE
  /\ shut' = "wait"
  /\ UNCHANGED <<buf, loop, rows, sink, reply, dropped, unsure, errors>>

\* Faulty variant of LoopIsOver: Shutdown does not wait for the loop.
LoopIsOverAlways == TRUE

\* wg.Wait and flushWG.Wait.
LoopIsOver == loop = "ended"

\* The final Flush takes what is left.
FinalTake ==
  /\ shut = "wait"
  /\ LoopIsOver
  /\ TakeBuffer
  /\ shut' = "flush"
  /\ UNCHANGED <<closed, loop, sink, reply, dropped, unsure, errors>>

\* The final insert.  Its error is what Shutdown returns, and is logged.
FinalInsert ==
  /\ shut = "flush"
  /\ \/ Inserted /\ shut' = "ok"
     \/ InsertFailed /\ shut' = "failed"
  /\ UNCHANGED <<closed, loop, reply>>

FactsNext ==
  \/ \E f \in Facts : Write(f)
  \/ FlushOnce
  \/ LoopEnds
  \/ LoopInsert
  \/ Shutdown
  \/ FinalTake
  \/ FinalInsert

FactsSpec == FactsInit /\ [][FactsNext]_factsVars

FactsTypeOK ==
  /\ Len(buf) <= MaxBufferSize
  /\ reply \in [Facts -> {"none", "accepted", "refused"}]
  /\ sink \in [Facts -> Nat]

\* No accepted fact disappears silently ("billing facts are never dropped
\* silently", factwriter.go:140): it is buffered, being inserted, in the table or
\* reported by onDrop; and when Shutdown returns without an error nothing is left
\* in the buffer.  A fact is in the table more than once only if one of its
\* inserts failed after it took effect.
FactsAreAccounted ==
  /\ \A f \in Facts : reply[f] = "accepted" =>
       f \in Range(buf) \cup Range(rows) \cup dropped \/ sink[f] > 0
  /\ shut = "ok" => buf = <<>> /\ rows = <<>>
  /\ \A f \in Facts : sink[f] > 1 => f \in unsure
=============================================================================
