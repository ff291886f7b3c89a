------------------------------ MODULE McpEdge ------------------------------
(***************************************************************************)
(* What the two MCP servers have in common, each in a process of its own:  *)
(* bearer middleware with the auth breaker (packages/mcp_runtime), the     *)
(* calendar-minute limiter in Redis, the audit queue with its writer, and  *)
(* shutdown.  A step is the code between two awaits: the call to the auth  *)
(* service, the limiter's script and the audit sink.  The tools are in     *)
(* McpOperator and McpMemory.                                              *)
(***************************************************************************)
EXTENDS AuthBreaker, Sequences

CONSTANTS Scenarios,     \* what calls may ask: a set of [Calls -> [org, bearer, ...]]
          DefaultRpm, Overrides,   \* limits; Overrides is a function on some orgs
          FailClosed,    \* protected profile: no calls while Redis is down
          QueueSize,     \* audit_queue_size
          MaxMinute,     \* bound on the clock
          MaxFaults      \* bound on cancellations and failures of dependencies

EdgeAssumption ==
  /\ DefaultRpm \in Nat /\ QueueSize \in Nat \ {0} /\ MaxMinute \in Nat /\ MaxFaults \in Nat
  /\ FailClosed \in BOOLEAN

VARIABLES request,       \* the scenario at hand
          stage,         \* new, auth, bound, counting, done, or a stage of the tool
          answer,        \* what the client got
          window,        \* the minute in the key a call counts under
          allowed,       \* calls let through by a count (not by failing open)
          minute, count, \* the clock; the counters in Redis by org and minute
          queue,         \* the audit queue: calls, and "stop" for the sentinel
          writer,        \* the writer task: idle, stopped, cancelled, or at a call
          handed,        \* events the sink has been given
          dropped,       \* AsyncAuditEmitter._dropped
          closing,       \* no, draining or closed
          faults

edgeVars == <<breaker, fails, cooled, reserved, val, request, stage, answer, window, allowed,
              minute, count, queue, writer, handed, dropped, closing, faults>>

Orgs == UNION {{r[c].org : c \in Calls} : r \in Scenarios}
Minutes == 0..MaxMinute

EdgeInit ==
  /\ BreakerInit
  /\ request \in Scenarios
  /\ stage = [c \in Calls |-> "new"]
  /\ answer = [c \in Calls |-> [kind |-> "none"]]
  /\ window = [c \in Calls |-> 0]
  /\ allowed = {}
  /\ minute = 0
  /\ count = [o \in Orgs |-> [m \in Minutes |-> 0]]
  /\ queue = <<>>
  /\ writer = "idle"
  /\ handed = 0
  /\ dropped = 0
  /\ closing = "no"
  /\ faults = 0

-----------------------------------------------------------------------------
\* The audit queue.

Full == Len(queue) >= QueueSize

\* AsyncAuditEmitter.emit: never waits.
Emit(c) ==
  IF closing # "no" \/ Full
  THEN dropped' = dropped + 1 /\ UNCHANGED queue
  ELSE queue' = Append(queue, c) /\ UNCHANGED dropped

\* AsyncAuditEmitter._run.
TakeEvent ==
  /\ writer = "idle"
  /\ queue # <<>>
  /\ queue' = Tail(queue)
  /\ writer' = IF Head(queue) = "stop" THEN "stopped" ELSE Head(queue)
  /\ UNCHANGED <<breakerVars, request, stage, answer, window, allowed, minute, count, handed, dropped,
                 closing, faults>>

\* The sink writes the event, or fails and the failure is logged.
WriteEvent ==
  /\ writer \in Calls
  /\ handed' = handed + 1
  /\ writer' = "idle"
  /\ UNCHANGED <<breakerVars, request, stage, answer, window, allowed, minute, count, queue, dropped,
                 closing, faults>>

\* Faulty variant: the event displaced by the sentinel is not counted.
SignalStopSilently ==
  /\ queue' = Append(IF Full THEN Tail(queue) ELSE queue, "stop")
  /\ UNCHANGED dropped

\* _signal_stop: the sentinel displaces the oldest event of a full queue.
SignalStop ==
  /\ queue' = Append(IF Full THEN Tail(queue) ELSE queue, "stop")
  /\ dropped' = IF Full THEN dropped + 1 ELSE dropped

\* _shutdown begins once the session manager has ended its calls.
CloseAudit ==
  /\ closing = "no"
  /\ \A c \in Calls : stage[c] \in {"new", "done"}
  /\ closing' = "draining"
  /\ SignalStop
  /\ UNCHANGED <<breakerVars, request, stage, answer, window, allowed, minute, count, writer, handed, faults>>

\* The writer ends, or is cancelled when it has not within five seconds.
FinishClose ==
  /\ closing = "draining"
  /\ writer' = IF writer = "stopped" THEN "stopped" ELSE "cancelled"
  /\ closing' = "closed"
  /\ UNCHANGED <<breakerVars, request, stage, answer, window, allowed, minute, count, queue, handed, dropped,
                 faults>>

-----------------------------------------------------------------------------
\* Bearer middleware.

Fault == faults < MaxFaults /\ faults' = faults + 1
NoFault == UNCHANGED faults

Done(c, a) ==
  /\ stage' = [stage EXCEPT ![c] = "done"]
  /\ answer' = [answer EXCEPT ![c] = a]

Quiet == UNCHANGED <<request, window, allowed, minute, count, writer, handed, closing>>

\* _reject: a deny event, then the error.
Reject(c, code) == Emit(c) /\ Done(c, [kind |-> code])

Arrive(c) ==
  /\ stage[c] = "new" /\ closing = "no"
  /\ NoFault /\ Quiet
  /\ IF request[c].bearer
     THEN /\ ReserveOrReject(c)
          /\ IF val'[c] = "rejected"
             THEN Reject(c, "auth_unavailable")
             ELSE stage' = [stage EXCEPT ![c] = "auth"] /\ UNCHANGED <<answer, queue, dropped>>
     ELSE Reject(c, "auth_failed") /\ UNCHANGED breakerVars

\* An error that is neither of the two auth errors leaves the middleware as it is.
Validated(c, outcome) ==
  /\ stage[c] = "auth"
  /\ ValidateReturns(c, outcome)
  /\ Quiet
  /\ CASE outcome = "accepted" ->
            NoFault /\ stage' = [stage EXCEPT ![c] = "bound"] /\ UNCHANGED <<answer, queue, dropped>>
       [] outcome = "failed" -> NoFault /\ Reject(c, "auth_failed")
       [] outcome = "unavailable" -> Fault /\ Reject(c, "auth_unavailable")
       [] outcome = "error" -> Fault /\ Done(c, [kind |-> "server_error"]) /\ UNCHANGED <<queue, dropped>>

-----------------------------------------------------------------------------
\* The limiter.

EffectiveLimit(org) ==
  IF org \in DOMAIN Overrides /\ Overrides[org] > 0 THEN Overrides[org]
  ELSE IF DefaultRpm > 1 THEN DefaultRpm ELSE 1

\* The minute is read before the script runs.
StartCheck(c) ==
  /\ stage[c] = "bound"
  /\ window' = [window EXCEPT ![c] = minute]
  /\ stage' = [stage EXCEPT ![c] = "counting"]
  /\ NoFault
  /\ UNCHANGED <<breakerVars, request, answer, allowed, minute, count, queue, writer, handed, dropped, closing>>

Incremented(c) == [count EXCEPT ![request[c].org][window[c]] = @ + 1]

\* Faulty variant: one call more than the limit.
WithinLimitPlusOne(c, n) == n <= EffectiveLimit(request[c].org) + 1

WithinLimit(c, n) == n <= EffectiveLimit(request[c].org)

\* A tool call ends; its event is emitted in a finally clause, whatever happened.
ToolEnds(c, a) == Emit(c) /\ Done(c, a)

\* The checks between the limiter and the first await of the tool: the call is
\* refused with a code or goes on to the stage `first'.
Admit(c, refusal, first) ==
  IF refusal = "none"
  THEN stage' = [stage EXCEPT ![c] = first] /\ UNCHANGED <<answer, queue, dropped>>
  ELSE ToolEnds(c, [kind |-> refusal])

Check(c, refusal, first) ==
  /\ stage[c] = "counting"
  /\ NoFault
  /\ count' = Incremented(c)
  /\ IF WithinLimit(c, count'[request[c].org][window[c]])
     THEN allowed' = allowed \cup {c} /\ Admit(c, refusal, first)
     ELSE ToolEnds(c, [kind |-> "rate_limited"]) /\ UNCHANGED allowed
  /\ UNCHANGED <<breakerVars, request, window, minute, writer, handed, closing>>

\* Redis fails, before or after it counted.
CheckFails(c, refusal, first) ==
  /\ stage[c] = "counting"
  /\ Fault
  /\ count' \in {count, Incremented(c)}
  /\ IF FailClosed
     THEN ToolEnds(c, [kind |-> "rate_limit_unavailable"])
     ELSE Admit(c, refusal, first)
  /\ UNCHANGED <<breakerVars, request, window, allowed, minute, writer, handed, closing>>

\* A key lives for 90 seconds from its first count; a check takes at most one
\* second (socket_timeout), so no check meets the expired key of its minute.
Tick ==
  /\ minute < MaxMinute
  /\ minute' = minute + 1
  /\ count' = [o \in Orgs |-> [m \in Minutes |->
                 IF m < minute /\ \A c \in Calls : ~(stage[c] = "counting" /\ window[c] = m)
                 THEN 0 ELSE count[o][m]]]
  /\ UNCHANGED <<breakerVars, request, stage, answer, window, allowed, queue, writer, handed, dropped,
                 closing, faults>>

AuthCools ==
  /\ CoolDown
  /\ UNCHANGED <<request, stage, answer, window, allowed, minute, count, queue, writer, handed, dropped,
                 closing, faults>>

-----------------------------------------------------------------------------
\* A call is cancelled: before the tool's try block nothing is recorded, within
\* it the finally clause emits.
Cancel(c, toolStages) ==
  /\ Fault /\ Quiet
  /\ \/ /\ stage[c] = "auth"
        /\ ValidateCancelled(c)
        /\ Done(c, [kind |-> "cancelled_early"])
        /\ UNCHANGED <<queue, dropped>>
     \/ /\ stage[c] = "bound"
        /\ Done(c, [kind |-> "cancelled_early"])
        /\ UNCHANGED <<breakerVars, queue, dropped>>
     \/ /\ stage[c] \in toolStages \cup {"counting"}
        /\ ToolEnds(c, [kind |-> "cancelled"])
        /\ UNCHANGED breakerVars

\* The steps that do not depend on the tool.
EdgeStep ==
  \/ \E c \in Calls :
       \/ Arrive(c)
       \/ \E o \in Outcomes : Validated(c, o)
  \/ TakeEvent
  \/ WriteEvent
  \/ CloseAudit
  \/ FinishClose
  \/ Tick
  \/ AuthCools

-----------------------------------------------------------------------------
Unaudited == {"none", "server_error", "cancelled_early"}

Audited == {c \in Calls : answer[c].kind \notin Unaudited}

(* Every denied or finished call has left one audit event, and every event *)
(* is in the queue, with the sink or counted as dropped: a full queue,     *)
(* an emit after close and the sentinel that displaces an event lose none  *)
(* silently, unless the writer had to be cancelled (AsyncAuditEmitter).    *)
EveryCallAccounted ==
  writer # "cancelled" =>
    Cardinality(Audited)
      = handed + dropped + Len(SelectSeq(queue, LAMBDA e : e # "stop"))
               + (IF writer \in Calls THEN 1 ELSE 0)

(* No more calls than the effective limit are let through by the counter   *)
(* of one organisation and minute, however late their scripts run.         *)
ExecutionsWithinLimit ==
  \A o \in Orgs : \A m \in Minutes :
    Cardinality({c \in allowed : request[c].org = o /\ window[c] = m}) <= EffectiveLimit(o)

=============================================================================
