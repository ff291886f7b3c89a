----------------------------- MODULE McpMemory -----------------------------
(***************************************************************************)
(* The tools of the MCP memory server (services/mcp-memory/app/tools.py):  *)
(* each checks the token's permission, asks the auth service whether the   *)
(* agent is active and forwards one HTTP call to the memory service.  A    *)
(* request is [org, bearer, tool, permissions, agent, named, args] with    *)
(* agent the token's agent and named the one in the arguments, or "none".  *)
(* The memory service is what its HTTP interface shows: a write is done    *)
(* once per idempotency key.                                               *)
(***************************************************************************)
EXTENDS McpEdge

CONSTANT Configured      \* is IBEX_MEMORY_HTTP_URL set?

VARIABLES active,        \* agents whose status is active
          late,          \* calls that began after their agent was suspended
          effects,       \* calls that changed or read memories
          wire,          \* requests under way to the memory service
          keyed          \* writes done, by idempotency key: the content's fingerprint

memoryVars == <<edgeVars, active, late, effects, wire, keyed>>

Agents == UNION {{r[c].agent : c \in Calls} \cup {r[c].named : c \in Calls} : r \in Scenarios}
            \ {"none"}

MemoryInit ==
  /\ EdgeInit
  /\ active = Agents
  /\ late = {}
  /\ effects = {}
  /\ wire = {}
  /\ keyed = <<>>

-----------------------------------------------------------------------------
\* Arguments.  FastMCP validates them with the signature of the tool before the
\* handler runs, so the handler's own models accept what reaches them.

SearchMemoryArgs(a) == DOMAIN a = {"query", "limit"} /\ a.limit \in 1..50

WriteMemoryArgs(a) == DOMAIN a = {"content", "category"}

RecordFeedbackArgs(a) == DOMAIN a = {"feedback"}

GetMemoryLineageArgs(a) == DOMAIN a = {"max_depth"} /\ a.max_depth \in 1..5

Declared(c) ==
  LET r == request[c]
  IN CASE r.tool = "search_memory"      -> SearchMemoryArgs(r.args)
       [] r.tool = "write_memory"       -> WriteMemoryArgs(r.args)
       [] r.tool = "record_feedback"    -> RecordFeedbackArgs(r.args)
       [] r.tool = "get_memory_lineage" -> GetMemoryLineageArgs(r.args)

\* An undeclared or malformed argument ends the call before it is counted.
RefuseArguments(c) ==
  /\ stage[c] = "bound"
  /\ ~Declared(c)
  /\ NoFault /\ Quiet
  /\ Done(c, [kind |-> "server_error"])
  /\ UNCHANGED <<breakerVars, queue, dropped, active, late, effects, wire, keyed>>

-----------------------------------------------------------------------------
\* The tool up to its first await.

Permission(tool) ==
  IF tool \in {"write_memory", "record_feedback"} THEN "MEMORY_WRITE" ELSE "MEMORY_READ"

NamesAgent(c) == request[c].tool \in {"search_memory", "write_memory"}

\* resolve_tool_agent_id: the token's agent, else the one asked for.
AgentOf(c) ==
  IF request[c].agent # "none" \/ ~NamesAgent(c) THEN request[c].agent ELSE request[c].named

AgentConflict(c) ==
  /\ NamesAgent(c)
  /\ request[c].agent # "none"
  /\ request[c].named \notin {"none", request[c].agent}

MemoryRefusal(c) ==
  CASE Permission(request[c].tool) \notin request[c].permissions -> "permission_denied"
    [] AgentConflict(c)                                         -> "permission_denied"
    [] NamesAgent(c) /\ AgentOf(c) = "none"                     -> "invalid_params"
    [] ~Configured                                              -> "backend_unavailable"
    [] OTHER                                                    -> "none"

\* Faulty variant: the reading tools rely on the memory service.
MustVerifyWrites(c) == AgentOf(c) # "none" /\ Permission(request[c].tool) = "MEMORY_WRITE"

\* A token without an agent may give feedback and read lineage unverified.
MustVerify(c) == AgentOf(c) # "none"

FirstStage(c) == IF MustVerify(c) THEN "verifying" ELSE "ready"

-----------------------------------------------------------------------------
\* GRPCAgentVerifier.verify.

VerifyAgent(c) ==
  /\ stage[c] = "verifying"
  /\ NoFault /\ Quiet
  /\ IF AgentOf(c) \in active
     THEN stage' = [stage EXCEPT ![c] = "ready"] /\ UNCHANGED <<answer, queue, dropped>>
     ELSE ToolEnds(c, [kind |-> "permission_denied"])
  /\ UNCHANGED <<breakerVars, active, late, effects, wire, keyed>>

\* Any other status, a network error or a payload that does not decode.
VerifyFails(c) ==
  /\ stage[c] = "verifying"
  /\ Fault /\ Quiet
  /\ ToolEnds(c, [kind |-> "auth_unavailable"])
  /\ UNCHANGED <<breakerVars, active, late, effects, wire, keyed>>

-----------------------------------------------------------------------------
\* One exchange with the memory service.  The service handles the request in a
\* step of its own; the client sees a status, a timeout, a transport error or a
\* body it cannot read.

\* normalize_write_content: outer white space does not count.
NormalizeWriteContent(content) == content.text

WriteIdempotencyKey(c) == <<request[c].org, AgentOf(c), NormalizeWriteContent(request[c].args.content)>>

Fingerprint(c) == request[c].args

KeyTaken(c) == WriteIdempotencyKey(c) \in DOMAIN keyed

Remember(c) ==
  keyed' = [k \in DOMAIN keyed \cup {WriteIdempotencyKey(c)} |->
              IF k \in DOMAIN keyed THEN keyed[k] ELSE Fingerprint(c)]

Send(c) ==
  /\ stage[c] = "ready"
  /\ stage' = [stage EXCEPT ![c] = "sending"]
  /\ wire' = wire \cup {c}
  /\ UNCHANGED <<breakerVars, request, answer, window, allowed, minute, count, queue, writer,
                 handed, dropped, closing, faults, active, late, effects, keyed>>

Status(c, s) == stage' = IF stage[c] = "sending" THEN [stage EXCEPT ![c] = s] ELSE stage

\* The service answers with a status, to a caller that may have given up; a
\* server error may come after the effect.
MemoryHandles(c) ==
  /\ c \in wire
  /\ wire' = wire \ {c}
  /\ IF request[c].tool = "write_memory" /\ KeyTaken(c)
     THEN /\ Status(c, IF keyed[WriteIdempotencyKey(c)] = Fingerprint(c) THEN "201" ELSE "409")
          /\ UNCHANGED <<effects, keyed>>
     ELSE \/ /\ \E s \in {"201", "500"} : Status(c, s)
             /\ effects' = effects \cup {c}
             /\ IF request[c].tool = "write_memory" THEN Remember(c) ELSE UNCHANGED keyed
          \/ /\ \E s \in {"401", "403", "404", "422", "500"} : Status(c, s)
             /\ UNCHANGED <<effects, keyed>>
  /\ UNCHANGED <<breakerVars, request, answer, window, allowed, minute, count, queue, writer,
                 handed, dropped, closing, faults, active, late>>

Statuses == {"201", "401", "403", "404", "409", "422", "500"}

\* _map_memory_http_error; "none" is an error without a status.
\* Faulty variant: what is not a server error is a rejection.
MapMemoryHttpErrorNarrow(status) ==
  CASE status = "401" -> "unauthorized"
    [] status = "403" -> "permission_denied"
    [] status = "404" -> "not_found"
    [] status = "500" -> "backend_unavailable"
    [] OTHER          -> "backend_rejected"

MapMemoryHttpError(status) ==
  CASE status = "401" -> "unauthorized"
    [] status = "403" -> "permission_denied"
    [] status = "404" -> "not_found"
    [] status \in {"409", "422"} -> "backend_rejected"
    [] OTHER -> "backend_unavailable"

Receive(c) ==
  /\ stage[c] \in Statuses
  /\ NoFault /\ Quiet
  /\ ToolEnds(c, [kind |-> IF stage[c] = "201" THEN "ok" ELSE MapMemoryHttpError(stage[c])])
  /\ UNCHANGED <<breakerVars, active, late, effects, wire, keyed>>

\* The answer is lost, or is not an object with the declared fields.
ReceiveFails(c) ==
  /\ stage[c] \in Statuses \cup {"sending"}
  /\ Fault /\ Quiet
  /\ ToolEnds(c, [kind |-> MapMemoryHttpError("none")])
  /\ UNCHANGED <<breakerVars, active, late, effects, wire, keyed>>

-----------------------------------------------------------------------------
\* An operator suspends an agent.
Suspend(a) ==
  /\ a \in active
  /\ active' = active \ {a}
  /\ UNCHANGED <<edgeVars, late, effects, wire, keyed>>

NotesLate ==
  late' = late \cup {c \in Calls : stage[c] = "new" /\ stage'[c] # "new"
                                     /\ AgentOf(c) # "none" /\ AgentOf(c) \notin active}

MemoryNext ==
  \/ EdgeStep /\ NotesLate /\ UNCHANGED <<active, effects, wire, keyed>>
  \/ \E c \in Calls :
       \/ RefuseArguments(c)
       \/ Declared(c) /\ StartCheck(c) /\ UNCHANGED <<active, late, effects, wire, keyed>>
       \/ Check(c, MemoryRefusal(c), FirstStage(c))
            /\ UNCHANGED <<active, late, effects, wire, keyed>>
       \/ CheckFails(c, MemoryRefusal(c), FirstStage(c))
            /\ UNCHANGED <<active, late, effects, wire, keyed>>
       \/ VerifyAgent(c)
       \/ VerifyFails(c)
       \/ Send(c)
       \/ MemoryHandles(c)
       \/ Receive(c)
       \/ ReceiveFails(c)
       \/ Cancel(c, {"verifying", "ready", "sending"} \cup Statuses)
            /\ UNCHANGED <<active, late, effects, wire, keyed>>
  \/ \E a \in active : Suspend(a)

MemorySpec == MemoryInit /\ [][MemoryNext]_memoryVars

-----------------------------------------------------------------------------
(* A call that began after its agent was suspended reaches no memory: the  *)
(* tools are the only place where the status is asked (tools.py,           *)
(* get_memory_lineage).                                                    *)
SuspendedAgentIsStopped == late \cap effects = {}

(* A refusal tells the truth: when a tool answers that the request was     *)
(* rejected, the memory service did nothing for it.  Whatever may have     *)
(* been done and cannot be confirmed is "unavailable", and a repeated      *)
(* write of the same content is done at most once.                         *)
RejectedMeansNothingDone ==
  /\ \A c \in effects :
       answer[c].kind \in {"none", "ok", "backend_unavailable", "cancelled"}
  /\ \A c, d \in effects :
       request[c].tool = "write_memory" /\ request[d].tool = "write_memory"
         /\ WriteIdempotencyKey(c) = WriteIdempotencyKey(d) => c = d
=============================================================================
