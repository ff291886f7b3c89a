--------------------------- MODULE ExtractionFlow ---------------------------
(***************************************************************************)
(* From chat turns to one extraction task: chat requests append the turns  *)
(* of a session to a Redis document with compare-and-set; POST terminate   *)
(* hands a snapshot of it to the worker, which claims the session in its   *)
(* idempotency ledger and publishes a Celery task; the snapshot is then    *)
(* deleted from Redis if it is still what is stored.                       *)
(*                                                                         *)
(* One session; a turn is named by the chat request it belongs to.  One    *)
(* Redis command or one transaction is one step.  A snapshot stands for    *)
(* its own request hash (services/proxy/internal/extractionbuffer,         *)
(* session_terminate.go, services/worker/app/enqueue_http.py).             *)
(***************************************************************************)
EXTENDS Naturals, Sequences, FiniteSets

CONSTANTS Chats, Terminations, Procs, NoCall,
          ProcOf,     \* the proxy process of a terminate call
          MaxTurns,   \* MaxTurnsPerBatch
          MaxFlowFaults

FlowAssumption ==
  /\ ProcOf \in [Terminations -> Procs] /\ NoCall \notin Terminations
  /\ MaxTurns \in Nat \ {0} /\ MaxFlowFaults \in Nat

VARIABLES buf,             \* the Redis document, <<>> when absent
          apc, expected,   \* a chat request and the document its append read
          tpc, snap,       \* a terminate call and the snapshot it peeked
          flight,          \* terminateEnqueueFlight of every process
          wpc,             \* its request in the worker
          claim,           \* the ledger row of the session in the worker's claim
          tasks,           \* the tasks published
          expired,         \* turns whose document outlived its TTL
          excused,         \* a lease lapsed or a publish was wrongly held failed
          flowFaults
chatVars == <<apc, expected>>
callVars == <<tpc, snap, flight>>
workVars == <<wpc, claim, tasks, excused>>
flowVars == <<buf, chatVars, callVars, workVars, expired, flowFaults>>

Turns(s) == {s[i] : i \in 1..Len(s)}
Dispatched == UNION {Turns(k.turns) : k \in tasks}
NoRow == [state |-> "absent", hash |-> <<>>, by |-> NoCall, live |-> FALSE]

FlowInit ==
  /\ buf = <<>>
  /\ apc = [q \in Chats |-> "asked"] /\ expected = [q \in Chats |-> <<>>]
  /\ tpc = [t \in Terminations |-> "new"] /\ snap = [t \in Terminations |-> <<>>]
  /\ flight = [p \in Procs |-> NoCall]
  /\ wpc = [t \in Terminations |-> "none"] /\ claim = NoRow
  /\ tasks = {} /\ expired = {} /\ excused = FALSE /\ flowFaults = 0

FlowFault == flowFaults < MaxFlowFaults /\ flowFaults' = flowFaults + 1
Step(q, to) == apc' = [apc EXCEPT ![q] = to]
Go(t, to) == tpc' = [tpc EXCEPT ![t] = to]
Work(t, to) == wpc' = [wpc EXCEPT ![t] = to]

-----------------------------------------------------------------------------
(* Append                                                                  *)

\* The response is written and flushed; the append comes after it.
Answer(q) ==
  /\ apc[q] = "asked" /\ Step(q, "answered")
  /\ UNCHANGED <<buf, expected, callVars, workVars, expired, flowFaults>>

ReadExpected(q) ==
  /\ apc[q] = "answered" /\ Step(q, "writing")
  /\ expected' = [expected EXCEPT ![q] = buf]
  /\ UNCHANGED <<buf, callVars, workVars, expired, flowFaults>>

Full(s) == Len(s) >= MaxTurns

MergeTurns(s, q) == IF Full(s) THEN s ELSE Append(s, q)

\* Faulty variant: the document is overwritten whatever it holds.
SameDocumentAlways(s) == TRUE

\* The comparison of the two Lua scripts.
SameDocument(s) == buf = s

\* appendCASLua; a conflict reads again, without a limit of attempts.
AppendCAS(q) ==
  /\ apc[q] = "writing"
  /\ IF SameDocument(expected[q])
     THEN /\ buf' = MergeTurns(expected[q], q)
          /\ Step(q, IF Full(expected[q]) THEN "capped" ELSE "buffered")
     ELSE Step(q, "answered") /\ UNCHANGED buf
  /\ UNCHANGED <<expected, callVars, workVars, expired, flowFaults>>

\* Redis fails: the append gives up.  When only the reply of the script was
\* lost, the client sends it again and takes its own write for a conflict.
AppendFails(q) ==
  /\ FlowFault
  /\ \/ /\ apc[q] \in {"answered", "writing"} /\ Step(q, "dropped")
        /\ UNCHANGED buf
     \/ /\ apc[q] = "writing" /\ SameDocument(expected[q])
        /\ buf' = MergeTurns(expected[q], q)
        /\ \E to \in {"dropped", "answered"} : Step(q, to)
  /\ UNCHANGED <<expected, callVars, workVars, expired>>

\* The TTL of the document.
Expire ==
  /\ buf # <<>> /\ buf' = <<>> /\ FlowFault
  /\ expired' = expired \cup Turns(buf)
  /\ UNCHANGED <<chatVars, callVars, workVars>>

-----------------------------------------------------------------------------
(* POST /v1/sessions/{id}/terminate                                        *)

\* The session is completed, or was before (CompleteNoop), or the store fails;
\* the response is sent and the enqueue goes on in the background.
Terminate(t) ==
  /\ tpc[t] = "new"
  /\ \/ Go(t, "waiting") /\ UNCHANGED flowFaults
     \/ Go(t, "done") /\ FlowFault
  /\ UNCHANGED <<buf, chatVars, snap, flight, workVars, expired>>

EnterFlight(t) ==
  /\ tpc[t] = "waiting" /\ flight[ProcOf[t]] = NoCall
  /\ flight' = [flight EXCEPT ![ProcOf[t]] = t] /\ Go(t, "peek")
  /\ UNCHANGED <<buf, chatVars, snap, workVars, expired, flowFaults>>

\* An empty buffer is skipped and an error leaves it as it is.
Peek(t) ==
  /\ tpc[t] = "peek"
  /\ \/ /\ snap' = [snap EXCEPT ![t] = buf]
        /\ Go(t, IF buf = <<>> THEN "leaving" ELSE "posting") /\ UNCHANGED flowFaults
     \/ Go(t, "leaving") /\ UNCHANGED snap /\ FlowFault
  /\ UNCHANGED <<buf, chatVars, flight, workVars, expired>>

\* One attempt to reach the worker.
PostEnqueue(t) ==
  /\ tpc[t] = "posting"
  /\ \/ Work(t, "arrived") /\ Go(t, "posted") /\ UNCHANGED flowFaults
     \/ UNCHANGED wpc /\ Go(t, "leaving") /\ FlowFault
  /\ UNCHANGED <<buf, chatVars, snap, flight, claim, tasks, excused, expired>>

\* Only 202 is success.
Receive(t) ==
  /\ tpc[t] = "posted"
  /\ \/ /\ wpc[t] \in {"accepted", "conflict", "busy", "unavailable"}
        /\ Go(t, IF wpc[t] = "accepted" THEN "acking" ELSE "leaving")
        /\ UNCHANGED flowFaults
     \/ Go(t, "leaving") /\ FlowFault
  /\ UNCHANGED <<buf, chatVars, snap, flight, workVars, expired>>

\* ackIfMatchLua; its error is logged.
AckSnapshot(t) ==
  /\ tpc[t] = "acking" /\ Go(t, "leaving")
  /\ \/ /\ buf' = (IF SameDocument(snap[t]) THEN <<>> ELSE buf)
        /\ UNCHANGED flowFaults
     \/ UNCHANGED buf /\ FlowFault
  /\ UNCHANGED <<chatVars, snap, flight, workVars, expired>>

\* Faulty variant: the entry is removed only when there was something to send.
FreedIfPosted(t) == IF snap[t] = <<>> THEN flight ELSE [flight EXCEPT ![ProcOf[t]] = NoCall]

Freed(t) == [flight EXCEPT ![ProcOf[t]] = NoCall]

Leave(t) ==
  /\ tpc[t] = "leaving" /\ flight' = Freed(t) /\ Go(t, "done")
  /\ UNCHANGED <<buf, chatVars, snap, workVars, expired, flowFaults>>

\* A proxy process stops with its calls; Redis and the worker go on.
Crash(p) ==
  /\ FlowFault
  /\ flight' = [flight EXCEPT ![p] = NoCall]
  /\ tpc' = [t \in Terminations |-> IF ProcOf[t] = p /\ tpc[t] # "new" THEN "done" ELSE tpc[t]]
  /\ UNCHANGED <<buf, chatVars, snap, workVars, expired>>

-----------------------------------------------------------------------------
(* POST /internal/extraction/enqueue of the worker                         *)

Claimed(t) == [state |-> "claimed", hash |-> snap[t], by |-> t, live |-> TRUE]

\* Faulty variant: a claim in progress is taken over.
OutcomeTakeover(t) ==
  IF claim.state # "absent" /\ claim.hash # snap[t] THEN "conflict"
  ELSE IF claim.state = "finalized" THEN "accepted" ELSE "claimed"

\* The answer of the ledger for Idempotency-Key = session id.
Outcome(t) ==
  IF claim.state # "absent" /\ claim.hash # snap[t] THEN "conflict"
  ELSE IF claim.state = "finalized" THEN "accepted"
  ELSE IF claim.state = "claimed" /\ claim.live THEN "busy" ELSE "claimed"

ClaimSession(t) ==
  /\ wpc[t] = "arrived"
  /\ \/ /\ Work(t, Outcome(t)) /\ UNCHANGED flowFaults
        /\ claim' = IF Outcome(t) = "claimed" THEN Claimed(t) ELSE claim
     \/ /\ Work(t, "unavailable") /\ FlowFault
        /\ claim' \in {claim, IF Outcome(t) = "claimed" THEN Claimed(t) ELSE claim}
  /\ UNCHANGED <<buf, chatVars, callVars, tasks, excused, expired>>

Publish(t) == tasks' = tasks \cup {[by |-> t, turns |-> snap[t]]}

\* The broker takes the task, or the publish fails or is refused (busy); it may
\* have been taken all the same.
Dispatch(t) ==
  /\ wpc[t] = "claimed"
  /\ \/ Publish(t) /\ Work(t, "dispatched") /\ UNCHANGED <<excused, flowFaults>>
     \/ UNCHANGED <<tasks, excused>> /\ Work(t, "releasing") /\ FlowFault
     \/ Publish(t) /\ excused' = TRUE /\ Work(t, "releasing") /\ FlowFault
  /\ UNCHANGED <<buf, chatVars, callVars, claim, expired>>

Owns(t) == claim.state = "claimed" /\ claim.by = t

\* A claim that was taken over cannot be finalized: 503.
Finalize(t) ==
  /\ wpc[t] = "dispatched"
  /\ \/ /\ claim' = IF Owns(t) THEN [claim EXCEPT !.state = "finalized"] ELSE claim
        /\ Work(t, IF Owns(t) THEN "accepted" ELSE "unavailable") /\ UNCHANGED flowFaults
     \/ /\ claim' \in {claim, IF Owns(t) THEN [claim EXCEPT !.state = "finalized"] ELSE claim}
        /\ Work(t, "unavailable") /\ FlowFault
  /\ UNCHANGED <<buf, chatVars, callVars, tasks, excused, expired>>

Release(t) ==
  /\ wpc[t] = "releasing" /\ Work(t, "unavailable")
  /\ \/ claim' = (IF Owns(t) THEN NoRow ELSE claim) /\ UNCHANGED flowFaults
     \/ UNCHANGED claim /\ FlowFault
  /\ UNCHANGED <<buf, chatVars, callVars, tasks, excused, expired>>

InWorker(t) == wpc[t] \in {"claimed", "dispatched", "releasing"}

\* The worker dies with the request and its claim in place.
WorkerStops(t) ==
  /\ InWorker(t) /\ FlowFault
  /\ Work(t, "unavailable")
  /\ UNCHANGED <<buf, chatVars, callVars, claim, tasks, excused, expired>>

Lapse ==
  /\ claim.state = "claimed" /\ claim.live /\ FlowFault
  /\ claim' = [claim EXCEPT !.live = FALSE] /\ excused' = TRUE
  /\ UNCHANGED <<buf, chatVars, callVars, wpc, tasks, expired>>

Chat(q) == Answer(q) \/ ReadExpected(q) \/ AppendCAS(q)
Enqueue(t) ==
  \/ EnterFlight(t) \/ Peek(t) \/ PostEnqueue(t)
  \/ Receive(t) \/ AckSnapshot(t) \/ Leave(t)
Worker(t) == ClaimSession(t) \/ Dispatch(t) \/ Finalize(t) \/ Release(t)

FlowNext ==
  \/ \E q \in Chats : Chat(q) \/ AppendFails(q)
  \/ \E t \in Terminations : Terminate(t) \/ Enqueue(t) \/ Worker(t) \/ WorkerStops(t)
  \/ \E p \in Procs : Crash(p)
  \/ Lapse \/ Expire

FlowSpec == FlowInit /\ [][FlowNext]_flowVars

\* The goroutines of the proxy and the requests of the worker are scheduled.
FlowFairSpec ==
  /\ FlowSpec
  /\ \A q \in Chats : WF_flowVars(ReadExpected(q) \/ AppendCAS(q))
  /\ \A t \in Terminations : WF_flowVars(Enqueue(t)) /\ WF_flowVars(Worker(t))

-----------------------------------------------------------------------------
(* Properties                                                              *)

\* Every variable has its type, and neither the stored document nor a snapshot
\* of it exceeds MaxTurnsPerBatch, also when lost replies repeat an append.
FlowTypeOK ==
  /\ Turns(buf) \subseteq Chats /\ Len(buf) <= MaxTurns
  /\ apc \in [Chats -> {"asked", "answered", "writing", "buffered", "capped", "dropped"}]
  /\ \A q \in Chats : Turns(expected[q]) \subseteq Chats
  /\ tpc \in [Terminations -> {"new", "waiting", "peek", "posting", "posted", "acking",
                        "leaving", "done"}]
  /\ \A t \in Terminations : Turns(snap[t]) \subseteq Chats /\ Len(snap[t]) <= MaxTurns
  /\ flight \in [Procs -> Terminations \cup {NoCall}]
  /\ wpc \in [Terminations -> {"none", "arrived", "claimed", "dispatched", "releasing",
                        "accepted", "conflict", "busy", "unavailable"}]
  /\ claim.state \in {"absent", "claimed", "finalized"}
  /\ expired \subseteq Chats /\ flowFaults \in 0..MaxFlowFaults

\* "Concurrent appends merge via compare-and-set retries (no lost turns ...)":
\* a turn whose append succeeded is in the buffer until it is in a published task
\* (or the document expired), whatever appends, acks and crashes come between.
BufferedIsKept ==
  \A q \in Chats : apc[q] = "buffered" => q \in Turns(buf) \cup Dispatched \cup expired

\* Terminate calls of several processes, their retries after time-outs, lost
\* answers and crashes publish one task between them, unless a lease lapsed or a
\* publish that was reported as failed had succeeded.
OneTaskPerSession == ~excused => Cardinality(tasks) <= 1

\* A buffered turn is kept until it is in a published task, and terminate calls
\* of several processes, their retries and lost answers publish one task
\* (session_terminate.go, enqueue_http.py).
TurnsReachOneTask == BufferedIsKept /\ OneTaskPerSession

\* Every append and every terminate call that began comes to its end: the flight
\* of a session is handed on and the compare-and-set loop does not starve.
EverythingEnds ==
  /\ \A t \in Terminations : tpc[t] = "waiting" ~> tpc[t] = "done"
  /\ \A q \in Chats : apc[q] = "answered" ~> apc[q] \in {"buffered", "capped", "dropped"}

\* "If a previous extraction enqueue attempt did not complete, terminate will
\* retry it (retained Redis turns)" (engineering/API_DOCUMENTATION.md:1487): the
\* worker turns a terminate call down with a conflict only while another one is at
\* work, or when a task was published.
RetainedIsRetried ==
  (\E t \in Terminations : wpc[t] = "conflict")
    => tasks # {} \/ \E t \in Terminations : InWorker(t)

=============================================================================
