--------------------------- MODULE AgentLifecycle ---------------------------
(***************************************************************************)
(* Agents: the management API creates, patches, deletes them and moves     *)
(* them through their statuses; the proxy creates sessions under them.     *)
(* The two meet in the row lock of the agent.                              *)
(*                                                                         *)
(* Statements of one transaction are separate steps, each of which sees    *)
(* what is committed when it runs (READ COMMITTED) and what its own        *)
(* transaction wrote; an UPDATE or SELECT FOR UPDATE waits for the row     *)
(* lock, which is kept until the transaction ends.  A request's            *)
(* uncommitted change is in `own`.  An insert waits for an uncommitted one *)
(* with its key.  One organisation; descriptive fields are one field, the  *)
(* tokens' permissions are checked before the first step.                  *)
(***************************************************************************)
EXTENDS Integers, Sequences, FiniteSets, FiniteSetsExt

CONSTANTS
    Texts,      \* slugs, names and external ids
    Cases,      \* what the requests ask for: sequences of records with op and arguments
    Agents,     \* the agents there are at the start: id -> row
    MaxFaults   \* requests that die, answers that are lost

Statuses == {"active", "paused", "archived", "suspended"}
Rows == [slug : Texts, name : Texts, status : Statuses \cup {""}, deleted : BOOLEAN]

\* Agents are numbered from 1; a request other than a create names one of the first.
ASSUME AgentsAssumption ==
    /\ "" \in Texts
    /\ Agents \in Seq(Rows)
    /\ \A q \in Cases : \A r \in DOMAIN q :
         /\ r # 0
         /\ q[r].op \in {"get", "create", "patch", "delete", "pause", "activate", "archive", "session"}
         /\ q[r].op # "create" => q[r].agent \in DOMAIN Agents
         /\ q[r].op = "create" => q[r].slug \in Texts
         /\ q[r].op \in {"create", "patch"} => q[r].name \in Texts
         /\ q[r].op = "session" => q[r].ext \in Texts

VARIABLES
    requests,   \* one of Cases
    agents,     \* ibex_core.agents: id -> [slug, name, status, deleted]
    sessions,   \* ibex_core.sessions: set of [agent, ext, by]
    lock,       \* the request that holds the row lock of an agent, 0 if none
    own,        \* a request's uncommitted write
    pc,         \* the next statement of a request
    seen,       \* what a request has read
    answer,     \* what a request was told
    faults

vars == <<requests, agents, sessions, lock, own, pc, seen, answer, faults>>

R == DOMAIN requests
Q(r) == requests[r]
NoRow == [slug |-> "", name |-> "", status |-> "", deleted |-> TRUE]
Nothing == [kind |-> "none", agent |-> 0, row |-> NoRow, ext |-> ""]
NoAnswer == [code |-> "none", row |-> NoRow]

Init ==
    /\ requests \in Cases
    /\ agents = Agents
    /\ sessions = {}
    /\ lock = [a \in DOMAIN Agents |-> 0]
    /\ own = [r \in R |-> Nothing]
    /\ pc = [r \in R |-> "start"]
    /\ seen = [r \in R |-> NoRow]
    /\ answer = [r \in R |-> NoAnswer]
    /\ faults = 0

-----------------------------------------------------------------------------
\* What the database does.

Live(a) == a \in DOMAIN agents /\ ~agents[a].deleted
Lockable(r, a) == lock[a] \in {0, r}
Locked(r, a) == lock' = [lock EXCEPT ![a] = r]
ReleaseLocks(r) == lock' = [a \in DOMAIN lock |-> IF lock[a] = r THEN 0 ELSE lock[a]]

Goto(r, l) == pc' = [pc EXCEPT ![r] = l]
Hold(r, w) == own' = [own EXCEPT ![r] = w]
Update(a, row) == [kind |-> "agent", agent |-> a, row |-> row, ext |-> ""]

\* The request ends without a commit.
Refuse(r, code) ==
    /\ answer' = [answer EXCEPT ![r] = [NoAnswer EXCEPT !.code = code]]
    /\ Goto(r, "done")
    /\ ReleaseLocks(r)
    /\ Hold(r, Nothing)
    /\ UNCHANGED <<agents, sessions, seen, faults>>

\* Uncommitted inserts of other requests that a unique index makes this one wait for.
InsertsSlug(s) == {t \in R : own[t].kind = "create" /\ own[t].row.slug = s}
InsertsSession(a, e) == {t \in R : own[t].kind = "session" /\ own[t].agent = a /\ own[t].ext = e /\ e # ""}

-----------------------------------------------------------------------------
\* services/agents.py

\* GET: the row, or NOT_FOUND for a deleted one.
GetAgent(r) ==
    /\ Q(r).op = "get" /\ pc[r] = "start"
    /\ IF Live(Q(r).agent)
       THEN /\ answer' = [answer EXCEPT ![r] = [code |-> "ok", row |-> agents[Q(r).agent]]]
            /\ Goto(r, "done")
            /\ UNCHANGED <<agents, sessions, lock, own, seen, faults>>
       ELSE Refuse(r, "NOT_FOUND")

\* AgentCreate / AgentPatch: what pydantic refuses before the handler runs.
BoundedFields(f) == f # "oversized"
ValidBody(r) == BoundedFields(Q(r).name) /\ (Q(r).op = "create" => Q(r).slug # "Bad Slug")

CreateParams(r) == [slug |-> Q(r).slug, name |-> Q(r).name, status |-> "active", deleted |-> FALSE]

\* The slug of a deleted agent stays taken.
IsSlugConflict(s) == \E a \in DOMAIN agents : agents[a].slug = s

CreateAgent(r) ==
    /\ Q(r).op = "create" /\ pc[r] = "start"
    /\ InsertsSlug(Q(r).slug) = {}
    /\ IF ~ValidBody(r) THEN Refuse(r, "VALIDATION_ERROR")
       ELSE IF IsSlugConflict(Q(r).slug) THEN Refuse(r, "AGENT_SLUG_CONFLICT")
       ELSE /\ Hold(r, [kind |-> "create", agent |-> 0, row |-> CreateParams(r), ext |-> ""])
            /\ Goto(r, "commit")
            /\ UNCHANGED <<agents, sessions, lock, seen, answer, faults>>

\* A field that is set to null is written as NULL; a name may not be.
PatchFlags(r, row) == IF Q(r).name = "unset" THEN row ELSE [row EXCEPT !.name = Q(r).name]

PatchAgent(r) ==
    LET a == Q(r).agent
    IN  /\ Q(r).op = "patch" /\ pc[r] = "start"
        /\ ValidBody(r) /\ Q(r).name # "unset" => Lockable(r, a)
        /\ IF ~ValidBody(r) THEN Refuse(r, "VALIDATION_ERROR")
           ELSE IF ~Live(a) THEN Refuse(r, "NOT_FOUND")
           ELSE IF Q(r).name = "unset"
           THEN /\ answer' = [answer EXCEPT ![r] = [code |-> "ok", row |-> agents[a]]]
                /\ Goto(r, "done")
                /\ UNCHANGED <<agents, sessions, lock, own, seen, faults>>
           ELSE IF Q(r).name = "null" THEN Refuse(r, "INTERNAL")
           ELSE /\ Locked(r, a)
                /\ Hold(r, Update(a, PatchFlags(r, agents[a])))
                /\ Goto(r, "commit")
                /\ UNCHANGED <<agents, sessions, seen, answer, faults>>

LockAgentRow(r) ==
    LET a == Q(r).agent
    IN  /\ Q(r).op = "delete" /\ pc[r] = "start"
        /\ Lockable(r, a)
        /\ IF ~Live(a) THEN Refuse(r, "NOT_FOUND")
           ELSE /\ Locked(r, a)
                /\ Goto(r, "exists")
                /\ UNCHANGED <<agents, sessions, own, seen, answer, faults>>

LiveSessionsExist(a) == \E s \in sessions : s.agent = a

\* Faulty variant: only sessions without an external id are counted.
SessionsBlockDeleteAnonymous(a) == \E s \in sessions : s.agent = a /\ s.ext = ""

\* total_sessions is never written by the code: the row's own count stays zero.
SessionsBlockDelete(a) == LiveSessionsExist(a)

SoftDeleteAgent(r) ==
    LET a == Q(r).agent
    IN  /\ Q(r).op = "delete" /\ pc[r] = "exists"
        /\ IF SessionsBlockDelete(a) THEN Refuse(r, "AGENT_HAS_SESSIONS")
           ELSE /\ Hold(r, Update(a, [agents[a] EXCEPT !.deleted = TRUE]))
                /\ Goto(r, "commit")
                /\ UNCHANGED <<agents, sessions, lock, seen, answer, faults>>

\* _LIFECYCLE_NEXT.
LifecycleNext(action, status) ==
    CASE action = "pause" /\ status = "active" -> "paused"
      [] action = "activate" /\ status \in {"paused", "archived", "suspended"} -> "active"
      [] action = "archive" /\ status \in {"active", "paused", "suspended"} -> "archived"
      [] OTHER -> "none"
Actions == {"pause", "activate", "archive"}

\* The status is read without a lock.
AssertLifecycleTransition(r) ==
    LET a == Q(r).agent
    IN  /\ Q(r).op \in Actions /\ pc[r] = "start"
        /\ IF ~Live(a) THEN Refuse(r, "NOT_FOUND")
           ELSE IF LifecycleNext(Q(r).op, agents[a].status) = "none" THEN Refuse(r, "VALIDATION_ERROR")
           ELSE /\ seen' = [seen EXCEPT ![r] = agents[a]]
                /\ Goto(r, "cas")
                /\ UNCHANGED <<agents, sessions, lock, own, answer, faults>>

\* Faulty variant: the update does not compare the status that was read.
StatusCasBlind(row, expected) == ~row.deleted

StatusCas(row, expected) == ~row.deleted /\ row.status = expected

SetAgentStatus(r) ==
    LET a == Q(r).agent
    IN  /\ Q(r).op \in Actions /\ pc[r] = "cas"
        /\ Lockable(r, a)
        /\ IF ~StatusCas(agents[a], seen[r].status) THEN Refuse(r, "AGENT_STATUS_CONFLICT")
           ELSE /\ Locked(r, a)
                /\ Hold(r, Update(a, [agents[a] EXCEPT
                            !.status = LifecycleNext(Q(r).op, seen[r].status)]))
                /\ Goto(r, "commit")
                /\ UNCHANGED <<agents, sessions, seen, answer, faults>>

-----------------------------------------------------------------------------
\* packages/session/get_or_create.go

FoundExternal(r) == {s \in sessions : s.agent = Q(r).agent /\ s.ext = Q(r).ext /\ s.ext # ""}

FindExistingByExternal(r) ==
    /\ Q(r).op = "session" /\ pc[r] = "start"
    /\ IF FoundExternal(r) # {}
       THEN /\ answer' = [answer EXCEPT ![r] = [NoAnswer EXCEPT !.code = "existing"]]
            /\ Goto(r, "done")
       ELSE Goto(r, "lock") /\ UNCHANGED answer
    /\ UNCHANGED <<agents, sessions, lock, own, seen, faults>>

\* Faulty variant: the agent is looked up without its row lock.
LockActiveAgentUnlocked(r, a) == Live(a) /\ UNCHANGED lock

LockActiveAgent(r, a) == Lockable(r, a) /\ Live(a) /\ Locked(r, a)

LockForSession(r) ==
    /\ Q(r).op = "session" /\ pc[r] = "lock"
    /\ \/ /\ LockActiveAgent(r, Q(r).agent)
          /\ Goto(r, "insert")
          /\ UNCHANGED <<agents, sessions, own, seen, answer, faults>>
       \/ /\ Lockable(r, Q(r).agent) /\ ~Live(Q(r).agent)
          /\ Refuse(r, "AGENT_NOT_FOUND")

\* The insert waits for an uncommitted one with its key; a committed one makes it fail.
InsertSession(r) ==
    LET a == Q(r).agent
    IN  /\ Q(r).op = "session" /\ pc[r] = "insert"
        /\ InsertsSession(a, Q(r).ext) \ {r} = {}
        /\ IF FoundExternal(r) = {}
           THEN /\ Hold(r, [kind |-> "session", agent |-> a, row |-> NoRow, ext |-> Q(r).ext])
                /\ Goto(r, "commit")
                /\ UNCHANGED lock
           ELSE /\ Hold(r, Nothing)
                /\ Goto(r, "race")
                /\ ReleaseLocks(r)
        /\ UNCHANGED <<agents, sessions, seen, answer, faults>>

ResolveUniqueRace(r) ==
    /\ Q(r).op = "session" /\ pc[r] = "race"
    /\ answer' = [answer EXCEPT ![r] = [NoAnswer EXCEPT !.code = IF FoundExternal(r) # {} THEN "existing" ELSE "ERROR"]]
    /\ Goto(r, "done")
    /\ UNCHANGED <<agents, sessions, lock, own, seen, faults>>

-----------------------------------------------------------------------------
\* COMMIT, whose answer may be lost, and the death of a request before it.

NewAgent == 1 + Cardinality(DOMAIN agents)
Apply(r) ==
    LET w == own[r]
    IN  /\ agents' = CASE w.kind = "agent" -> [agents EXCEPT ![w.agent] = w.row]
                       [] w.kind = "create" -> [a \in 1 .. NewAgent |-> IF a = NewAgent THEN w.row ELSE agents[a]]
                       [] OTHER -> agents
        /\ sessions' = IF w.kind = "session" THEN sessions \cup {[agent |-> w.agent, ext |-> w.ext, by |-> r]}
                                             ELSE sessions
        /\ lock' = [a \in DOMAIN agents' |-> IF a \in DOMAIN lock /\ lock[a] # r THEN lock[a] ELSE 0]

Commit(r) ==
    /\ pc[r] = "commit"
    /\ Apply(r)
    /\ Hold(r, Nothing)
    /\ Goto(r, "done")
    /\ \/ /\ answer' = [answer EXCEPT ![r] = [code |-> "ok", row |-> own[r].row]]
          /\ UNCHANGED faults
       \/ /\ faults < MaxFaults /\ faults' = faults + 1
          /\ answer' = [answer EXCEPT ![r].code = "lost"]
    /\ UNCHANGED seen

Die(r) ==
    /\ pc[r] \notin {"start", "done"} /\ faults < MaxFaults
    /\ faults' = faults + 1
    /\ ReleaseLocks(r)
    /\ Hold(r, Nothing)
    /\ Goto(r, "done")
    /\ answer' = [answer EXCEPT ![r].code = "lost"]
    /\ UNCHANGED <<agents, sessions, seen>>

\* External: an agent is suspended by an administrator of the platform.
Suspend(a) ==
    /\ Live(a) /\ agents[a].status = "active" /\ lock[a] = 0 /\ faults < MaxFaults
    /\ faults' = faults + 1
    /\ agents' = [agents EXCEPT ![a].status = "suspended"]
    /\ UNCHANGED <<sessions, lock, own, pc, seen, answer>>

Step ==
    \/ \E r \in R :
         \/ GetAgent(r) \/ CreateAgent(r) \/ PatchAgent(r)
         \/ LockAgentRow(r) \/ SoftDeleteAgent(r)
         \/ AssertLifecycleTransition(r) \/ SetAgentStatus(r)
         \/ FindExistingByExternal(r) \/ LockForSession(r) \/ InsertSession(r) \/ ResolveUniqueRace(r)
         \/ Commit(r) \/ Die(r)
    \/ \E a \in DOMAIN Agents : Suspend(a)

Next == Step /\ UNCHANGED requests

Spec == Init /\ [][Next]_vars

-----------------------------------------------------------------------------
\* Properties.

\* A deleted agent has no session: whether the delete or the session comes first, the row lock
\* makes the later one see the other (soft_delete_agent, lockActiveAgent), and no key of a
\* session is used twice.
NoSessionUnderDeletedAgent ==
    /\ \A s \in sessions : ~agents[s.agent].deleted
    /\ \A s, t \in sessions : s.ext # "" /\ s.ext = t.ext /\ s.agent = t.agent => s = t

\* However requests overlap, the status of an agent only moves along _LIFECYCLE_NEXT or is
\* suspended from outside, a deleted agent is not changed any more, and a request that names a
\* lifecycle action is answered "ok" with the status its own transition wrote.
StatusMovesByTheTable ==
    [][/\ \A a \in DOMAIN Agents :
            /\ agents'[a].status # agents[a].status =>
                 \/ \E x \in Actions : LifecycleNext(x, agents[a].status) = agents'[a].status
                 \/ agents'[a].status = "suspended"
            /\ agents[a].deleted => agents'[a] = agents[a]
       /\ \A r \in R : answer'[r].code = "ok" /\ answer[r].code # "ok" /\ Q(r).op \in Actions =>
            /\ agents'[Q(r).agent] = answer'[r].row
            /\ LifecycleNext(Q(r).op, agents[Q(r).agent].status) = answer'[r].row.status]_vars
=============================================================================
