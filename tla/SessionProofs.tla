--------------------------- MODULE SessionProofs ----------------------------
(***************************************************************************)
(* Proofs about agents with their sessions (AgentLifecycle) and about the  *)
(* turns of a session (SessionTurns), for any agents, requests and faults. *)
(* The two share no state.                                                 *)
(***************************************************************************)
EXTENDS AgentLifecycle, SessionTurns, FiniteSetTheorems, TLAPS

-----------------------------------------------------------------------------
(* Agents.  The argument is about the row lock: whatever a request wants   *)
(* to commit was computed from the row it has locked since, so it still    *)
(* holds when it commits.                                                  *)

Writes == [kind : {"none", "agent", "create", "session"}, agent : Nat, row : Rows, ext : Texts]
Codes == {"none", "ok", "existing", "lost", "ERROR", "NOT_FOUND", "VALIDATION_ERROR",
          "AGENT_SLUG_CONFLICT", "INTERNAL", "AGENT_HAS_SESSIONS", "AGENT_STATUS_CONFLICT",
          "AGENT_NOT_FOUND"}
Answers == [code : Codes, row : Rows]

TypeOK ==
    /\ requests \in Cases
    /\ \E n \in Nat : agents \in [1 .. n -> Rows]
    /\ DOMAIN Agents \subseteq DOMAIN agents
    /\ lock \in [DOMAIN agents -> R \cup {0}]
    /\ sessions \subseteq [agent : DOMAIN agents, ext : Texts, by : R]
    /\ own \in [R -> Writes]
    /\ pc \in [R -> {"start", "exists", "cas", "lock", "insert", "race", "commit", "done"}]
    /\ seen \in [R -> Rows]
    /\ answer \in [R -> Answers]

\* The row that a change of an agent makes of the row it has locked.
Changed(r, row) ==
    IF Q(r).op = "patch" THEN PatchFlags(r, row)
    ELSE IF Q(r).op = "delete" THEN [row EXCEPT !.deleted = TRUE]
    ELSE [row EXCEPT !.status = LifecycleNext(Q(r).op, row.status)]

\* A request holds the lock of a live agent.
HoldsLive(r, a) == a \in DOMAIN agents /\ lock[a] = r /\ ~agents[a].deleted

\* An uncommitted change of an agent.
ChangeOK(r) ==
    own[r].kind = "agent" =>
        LET a == own[r].agent
        IN  /\ pc[r] = "commit" /\ Q(r).op \in {"patch", "delete"} \cup Actions
            /\ a = Q(r).agent /\ HoldsLive(r, a)
            /\ own[r].row = Changed(r, agents[a])
            /\ Q(r).op \in Actions => LifecycleNext(Q(r).op, agents[a].status) # "none"
            /\ Q(r).op = "delete" => \A s \in sessions : s.agent # a

\* An uncommitted session.
SessionOK(r) ==
    own[r].kind = "session" =>
        /\ Q(r).op = "session" /\ HoldsLive(r, own[r].agent)
        /\ \A s \in sessions : s.agent = own[r].agent /\ s.ext = own[r].ext => s.ext = ""

\* Where a request is in its transaction.
StepOK(r) ==
    /\ pc[r] = "exists" => HoldsLive(r, Q(r).agent)
    /\ pc[r] = "insert" => HoldsLive(r, Q(r).agent)
    /\ pc[r] = "cas" => LifecycleNext(Q(r).op, seen[r].status) # "none"
    /\ own[r].kind # "none" => pc[r] = "commit"
    /\ own[r].kind = "create" => Q(r).op = "create" /\ ~own[r].row.deleted
    /\ pc[r] = "commit" /\ Q(r).op \in Actions => own[r].kind = "agent"
    /\ pc[r] = "commit" => own[r].kind # "none"

IInv ==
    /\ TypeOK
    /\ NoSessionUnderDeletedAgent
    /\ \A r \in R : ChangeOK(r) /\ SessionOK(r) /\ StepOK(r)

-----------------------------------------------------------------------------
LEMMA NothingType == NoRow \in Rows /\ Nothing \in Writes /\ NoAnswer \in Answers
BY AgentsAssumption, Zenon
   DEF NoRow, Nothing, NoAnswer, Rows, Statuses, Writes, Answers, Codes

LEMMA InitInv == Init => IInv
<1> SUFFICES ASSUME Init PROVE IInv OBVIOUS
<1>0. Len(Agents) \in Nat /\ Agents \in [1 .. Len(Agents) -> Rows]
  <2>1. Agents \in Seq(Rows) BY AgentsAssumption, Zenon
  <2>2. QED BY <2>1
<1>1. TypeOK
  BY <1>0, AgentsAssumption, NothingType, Zenon DEF Init, TypeOK, R
<1>2. QED
  BY <1>1, Zenon
     DEF Init, IInv, NoSessionUnderDeletedAgent, ChangeOK, SessionOK, StepOK, Nothing, R

\* What is known of a request survives a step that leaves it, and the agents it has locked,
\* alone.
LEMMA Frame ==
    ASSUME IInv, NEW t \in R, requests' = requests,
           own'[t] = own[t], pc'[t] = pc[t], seen'[t] = seen[t],
           \A a \in DOMAIN agents : lock[a] = t =>
               /\ a \in DOMAIN agents' /\ agents'[a] = agents[a] /\ lock'[a] = t
               /\ \A s \in sessions' : s.agent = a => s \in sessions
    PROVE  ChangeOK(t)' /\ SessionOK(t)' /\ StepOK(t)'
<1>1. ChangeOK(t) /\ SessionOK(t) /\ StepOK(t) BY Zenon DEF IInv
<1>2. ChangeOK(t)'
  BY <1>1, ZenonT(30) DEF ChangeOK, HoldsLive, Q, Changed, PatchFlags, Actions
<1>3. SessionOK(t)' BY <1>1, Zenon DEF SessionOK, HoldsLive, Q
<1>4. StepOK(t)' BY <1>1 DEF StepOK, HoldsLive, Q
<1>5. QED BY <1>2, <1>3, <1>4, Zenon

\* A request of any case is a number that is not the mark of a free lock.
LEMMA RequestType ==
    ASSUME TypeOK, NEW r \in R
    PROVE  /\ r # 0
           /\ Q(r).op # "create" => Q(r).agent \in DOMAIN Agents /\ Q(r).agent \in DOMAIN agents
BY AgentsAssumption, Zenon DEF TypeOK, R, Q

\* A step of one request that changes neither agents nor sessions and takes no lock of
\* another keeps the invariant if it keeps what is known of that request.
LEMMA LocalStep ==
    ASSUME IInv, NEW r \in R, UNCHANGED <<requests, agents, sessions>>,
           lock' \in [DOMAIN agents -> R \cup {0}],
           \A a \in DOMAIN agents : lock'[a] = lock[a] \/ lock[a] \in {0, r},
           NEW w \in Writes, own' = [own EXCEPT ![r] = w],
           NEW l \in {"start", "exists", "cas", "lock", "insert", "race", "commit", "done"},
           pc' = [pc EXCEPT ![r] = l],
           NEW n \in Rows, seen' = [seen EXCEPT ![r] = n],
           NEW m \in Answers, answer' = [answer EXCEPT ![r] = m],
           ChangeOK(r)' /\ SessionOK(r)' /\ StepOK(r)'
    PROVE  IInv'
<1>1. TypeOK' BY Zenon DEF IInv, TypeOK, R
<1>2. NoSessionUnderDeletedAgent' BY Zenon DEF IInv, NoSessionUnderDeletedAgent
<1>3. ASSUME NEW t \in R, t # r PROVE ChangeOK(t)' /\ SessionOK(t)' /\ StepOK(t)'
  <2>1. own'[t] = own[t] /\ pc'[t] = pc[t] /\ seen'[t] = seen[t]
    BY <1>3, Zenon DEF IInv, TypeOK
  <2>2. \A a \in DOMAIN agents : lock[a] = t => lock'[a] = t
    BY <1>3, RequestType, Zenon DEF IInv
  <2>3. QED BY <2>1, <2>2, Frame, Zenon
<1>4. QED BY <1>1, <1>2, <1>3, Zenon DEF IInv, R

\* Leaving a variable alone is writing what it holds for the request.
LEMMA Unchanged ==
    ASSUME TypeOK, NEW r \in R
    PROVE  /\ own = [own EXCEPT ![r] = own[r]] /\ own[r] \in Writes
           /\ seen = [seen EXCEPT ![r] = seen[r]] /\ seen[r] \in Rows
           /\ answer = [answer EXCEPT ![r] = answer[r]] /\ answer[r] \in Answers
           /\ lock \in [DOMAIN agents -> R \cup {0}]
BY Zenon DEF TypeOK

\* A request that ends without a commit.
LEMMA EndStep ==
    ASSUME IInv, NEW r \in R, UNCHANGED <<requests, agents, sessions, seen>>,
           ReleaseLocks(r), Hold(r, Nothing), Goto(r, "done"),
           NEW m \in Answers, answer' = [answer EXCEPT ![r] = m]
    PROVE  IInv'
<1>1. own'[r].kind = "none" /\ pc'[r] = "done"
  BY Zenon DEF IInv, TypeOK, Hold, Goto, Nothing
<1>2. ChangeOK(r)' /\ SessionOK(r)' /\ StepOK(r)'
  BY <1>1, Zenon DEF ChangeOK, SessionOK, StepOK
<1>3. /\ lock' \in [DOMAIN agents -> R \cup {0}]
      /\ \A a \in DOMAIN agents : lock'[a] = lock[a] \/ lock[a] \in {0, r}
  BY Zenon DEF IInv, TypeOK, ReleaseLocks
<1>4. QED
  BY <1>2, <1>3, NothingType, Unchanged, LocalStep, Zenon DEF IInv, Hold, Goto

LEMMA RefuseStep ==
    ASSUME IInv, NEW r \in R, UNCHANGED requests, NEW code \in Codes, Refuse(r, code)
    PROVE  IInv'
<1>1. [NoAnswer EXCEPT !.code = code] \in Answers BY NothingType, Zenon DEF Answers
<1>2. QED BY <1>1, EndStep, Zenon DEF Refuse

\* A request that is answered without having written anything.
LEMMA AnswerStep ==
    ASSUME IInv, NEW r \in R, UNCHANGED <<requests, agents, sessions, lock, own, seen>>,
           Goto(r, "done"), own[r].kind = "none",
           NEW m \in Answers, answer' = [answer EXCEPT ![r] = m]
    PROVE  IInv'
<1>1. pc'[r] = "done" /\ own'[r].kind = "none" BY Zenon DEF IInv, TypeOK, Goto
<1>2. ChangeOK(r)' /\ SessionOK(r)' /\ StepOK(r)'
  BY <1>1, Zenon DEF ChangeOK, SessionOK, StepOK
<1>3. QED BY <1>2, Unchanged, LocalStep, Zenon DEF IInv, Goto

\* Before the commit step nothing is written.
LEMMA NothingYet ==
    ASSUME IInv, NEW r \in R, pc[r] # "commit"
    PROVE  own[r].kind = "none"
BY Zenon DEF IInv, StepOK

-----------------------------------------------------------------------------
LEMMA GetStep ==
    ASSUME IInv, NEW r \in R, UNCHANGED requests, GetAgent(r) PROVE IInv'
<1>1. CASE Live(Q(r).agent)
  <2>1. [code |-> "ok", row |-> agents[Q(r).agent]] \in Answers
    BY <1>1, Zenon DEF Live, IInv, TypeOK, Answers, Codes
  <2>2. QED BY <1>1, <2>1, NothingYet, AnswerStep, Zenon DEF GetAgent
<1>2. CASE ~Live(Q(r).agent) BY <1>2, RefuseStep, Zenon DEF GetAgent, Codes
<1>3. QED BY <1>1, <1>2, Zenon

LEMMA CreateStep ==
    ASSUME IInv, NEW r \in R, UNCHANGED requests, CreateAgent(r) PROVE IInv'
<1>1. CASE ~ValidBody(r) \/ IsSlugConflict(Q(r).slug)
  BY <1>1, RefuseStep, Zenon DEF CreateAgent, Codes
<1>2. CASE ValidBody(r) /\ ~IsSlugConflict(Q(r).slug)
  <2> DEFINE w == [kind |-> "create", agent |-> 0, row |-> CreateParams(r), ext |-> ""]
  <2>1. Q(r).op = "create" /\ Q(r).slug \in Texts /\ Q(r).name \in Texts
    BY AgentsAssumption, Zenon DEF CreateAgent, IInv, TypeOK, R, Q
  <2>2. CreateParams(r) \in Rows BY <2>1, Zenon DEF CreateParams, Rows, Statuses
  <2>3. w \in Writes BY <2>2, AgentsAssumption, Zenon DEF Writes
  <2>4. own' = [own EXCEPT ![r] = w] /\ Goto(r, "commit")
        /\ UNCHANGED <<agents, sessions, lock, seen, answer>>
    BY <1>2, Zenon DEF CreateAgent, Hold
  <2>5. own'[r] = w /\ pc'[r] = "commit" BY <2>4, Zenon DEF Goto, IInv, TypeOK
  <2>6. Q(r)'.op = "create" BY <2>1, Zenon DEF Q
  <2>7. ~w.row.deleted BY Zenon DEF CreateParams
  <2> HIDE DEF w
  <2>8. w.kind = "create" BY Zenon DEF w
  <2>9. ChangeOK(r)' /\ SessionOK(r)' /\ StepOK(r)'
    BY <2>5, <2>6, <2>7, <2>8 DEF ChangeOK, SessionOK, StepOK, Actions
  <2>10. QED BY <2>3, <2>4, <2>9, Unchanged, LocalStep, Zenon DEF IInv, Goto
<1>3. QED BY <1>1, <1>2, Zenon

\* A request takes the lock of a live agent and holds a change of it back for its commit.
LEMMA HoldChange ==
    ASSUME IInv, NEW r \in R, UNCHANGED <<requests, agents, sessions, seen, answer>>,
           NEW a \in DOMAIN agents, a = Q(r).agent, Live(a), Lockable(r, a),
           Locked(r, a) \/ (lock[a] = r /\ UNCHANGED lock),
           Hold(r, Update(a, Changed(r, agents[a]))), Goto(r, "commit"),
           Changed(r, agents[a]) \in Rows,
           Q(r).op \in {"patch", "delete"} \cup Actions,
           Q(r).op \in Actions => LifecycleNext(Q(r).op, agents[a].status) # "none",
           Q(r).op = "delete" => \A s \in sessions : s.agent # a
    PROVE  IInv'
<1> DEFINE w == Update(a, Changed(r, agents[a]))
<1>0. a \in Nat BY DEF IInv, TypeOK
<1>1. w \in Writes /\ w.kind = "agent" /\ w.agent = a /\ w.row = Changed(r, agents[a])
  BY <1>0, AgentsAssumption, Zenon DEF Update, Writes
<1>2. own' = [own EXCEPT ![r] = w] /\ own'[r] = w /\ pc'[r] = "commit"
  BY Zenon DEF Hold, Goto, IInv, TypeOK
<1>3. /\ lock' \in [DOMAIN agents -> R \cup {0}] /\ lock'[a] = r
      /\ \A b \in DOMAIN agents : lock'[b] = lock[b] \/ lock[b] \in {0, r}
  BY DEF Locked, Lockable, IInv, TypeOK
<1> HIDE DEF w
<1>4. Changed(r, agents[a])' = Changed(r, agents[a]) /\ Q(r)' = Q(r)
  BY Zenon DEF Changed, PatchFlags, Q, Actions
<1>5. ChangeOK(r)'
  BY <1>1, <1>2, <1>3, <1>4, Zenon DEF ChangeOK, HoldsLive, Live
<1>6. SessionOK(r)' /\ StepOK(r)'
  BY <1>1, <1>2, Zenon DEF SessionOK, StepOK
<1>7. QED BY <1>1, <1>2, <1>3, <1>5, <1>6, Unchanged, LocalStep, Zenon DEF IInv, Goto

LEMMA PatchStep ==
    ASSUME IInv, NEW r \in R, UNCHANGED requests, PatchAgent(r) PROVE IInv'
<1> DEFINE a == Q(r).agent
<1>1. CASE ~ValidBody(r) \/ ~Live(a) BY <1>1, RefuseStep, Zenon DEF PatchAgent, Codes
<1>2. CASE ValidBody(r) /\ Live(a) /\ Q(r).name = "unset"
  <2>1. [code |-> "ok", row |-> agents[a]] \in Answers
    BY <1>2, Zenon DEF Live, IInv, TypeOK, Answers, Codes
  <2>2. QED BY <1>2, <2>1, NothingYet, AnswerStep DEF PatchAgent
<1>3. CASE ValidBody(r) /\ Live(a) /\ Q(r).name = "null"
  BY <1>3, RefuseStep, Zenon DEF PatchAgent, Codes
<1>4. CASE ValidBody(r) /\ Live(a) /\ Q(r).name \notin {"unset", "null"}
  <2>1. /\ Q(r).op = "patch" /\ Lockable(r, a) /\ Locked(r, a) /\ Goto(r, "commit")
        /\ Hold(r, Update(a, PatchFlags(r, agents[a])))
        /\ UNCHANGED <<agents, sessions, seen, answer>>
    BY <1>4, Zenon DEF PatchAgent
  <2>2. Changed(r, agents[a]) = PatchFlags(r, agents[a]) BY <2>1, Zenon DEF Changed
  <2>3. Q(r).name \in Texts
    BY <2>1, AgentsAssumption, Zenon DEF IInv, TypeOK, R, Q
  <2>4. agents[a] \in Rows /\ a \in DOMAIN agents BY <1>4, Zenon DEF Live, IInv, TypeOK
  <2>5. PatchFlags(r, agents[a]) \in Rows BY <2>3, <2>4, Zenon DEF PatchFlags, Rows
  <2>6. QED BY <1>4, <2>1, <2>2, <2>4, <2>5, HoldChange DEF Actions
<1>5. QED BY <1>1, <1>2, <1>3, <1>4, Zenon

LEMMA LockRowStep ==
    ASSUME IInv, NEW r \in R, UNCHANGED requests, LockAgentRow(r) PROVE IInv'
<1> DEFINE a == Q(r).agent
<1>1. CASE ~Live(a) BY <1>1, RefuseStep, Zenon DEF LockAgentRow, Codes
<1>2. CASE Live(a)
  <2>1. /\ Q(r).op = "delete" /\ pc[r] = "start" /\ Lockable(r, a) /\ Locked(r, a)
        /\ Goto(r, "exists") /\ UNCHANGED <<agents, sessions, own, seen, answer>>
    BY <1>2, Zenon DEF LockAgentRow
  <2>2. /\ lock' \in [DOMAIN agents -> R \cup {0}] /\ lock'[a] = r
        /\ \A b \in DOMAIN agents : lock'[b] = lock[b] \/ lock[b] \in {0, r}
    BY <1>2, <2>1, Zenon DEF Locked, Lockable, Live, IInv, TypeOK
  <2>3. own'[r].kind = "none" /\ pc'[r] = "exists"
    BY <2>1, NothingYet, Zenon DEF Goto, IInv, TypeOK
  <2>4. ChangeOK(r)' /\ SessionOK(r)' /\ StepOK(r)'
    BY <1>2, <2>1, <2>2, <2>3 DEF ChangeOK, SessionOK, StepOK, HoldsLive, Live, Q
  <2>5. QED BY <2>1, <2>2, <2>4, Unchanged, LocalStep, Zenon DEF IInv, Goto
<1>3. QED BY <1>1, <1>2, Zenon

LEMMA SoftDeleteStep ==
    ASSUME IInv, NEW r \in R, UNCHANGED requests, SoftDeleteAgent(r) PROVE IInv'
<1> DEFINE a == Q(r).agent
<1>1. CASE SessionsBlockDelete(a) BY <1>1, RefuseStep, Zenon DEF SoftDeleteAgent, Codes
<1>2. CASE ~SessionsBlockDelete(a)
  <2>1. /\ Q(r).op = "delete" /\ pc[r] = "exists" /\ UNCHANGED lock
        /\ Hold(r, Update(a, [agents[a] EXCEPT !.deleted = TRUE])) /\ Goto(r, "commit")
        /\ UNCHANGED <<agents, sessions, seen, answer>>
    BY <1>2, Zenon DEF SoftDeleteAgent
  <2>2. HoldsLive(r, a) BY <2>1, Zenon DEF IInv, StepOK
  <2>3. Changed(r, agents[a]) = [agents[a] EXCEPT !.deleted = TRUE]
    BY <2>1, Zenon DEF Changed
  <2>4. agents[a] \in Rows BY <2>2, Zenon DEF HoldsLive, IInv, TypeOK
  <2>5. [agents[a] EXCEPT !.deleted = TRUE] \in Rows BY <2>4, Zenon DEF Rows
  <2>6. Live(a) /\ Lockable(r, a) /\ lock[a] = r /\ a \in DOMAIN agents
    BY <2>2, Zenon DEF HoldsLive, Live, Lockable
  <2>7. \A s \in sessions : s.agent # a
    BY <1>2, Zenon DEF SessionsBlockDelete, LiveSessionsExist
  <2>8. QED BY <2>1, <2>3, <2>5, <2>6, <2>7, HoldChange DEF Actions
<1>3. QED BY <1>1, <1>2, Zenon

LEMMA TableRange ==
    ASSUME NEW x, NEW st PROVE LifecycleNext(x, st) \in Statuses \cup {"none"}
BY Zenon DEF LifecycleNext, Statuses

LEMMA AssertStep ==
    ASSUME IInv, NEW r \in R, UNCHANGED requests, AssertLifecycleTransition(r) PROVE IInv'
<1> DEFINE a == Q(r).agent
<1>1. CASE ~Live(a) \/ LifecycleNext(Q(r).op, agents[a].status) = "none"
  BY <1>1, RefuseStep, Zenon DEF AssertLifecycleTransition, Codes
<1>2. CASE Live(a) /\ LifecycleNext(Q(r).op, agents[a].status) # "none"
  <2>1. /\ pc[r] = "start" /\ seen' = [seen EXCEPT ![r] = agents[a]] /\ Goto(r, "cas")
        /\ UNCHANGED <<agents, sessions, lock, own, answer>>
    BY <1>2, Zenon DEF AssertLifecycleTransition
  <2>2. agents[a] \in Rows BY <1>2, Zenon DEF Live, IInv, TypeOK
  <2>3. own'[r].kind = "none" /\ pc'[r] = "cas" /\ seen'[r] = agents[a] /\ Q(r)' = Q(r)
    BY <2>1, NothingYet, Zenon DEF Goto, IInv, TypeOK, Q
  <2>4. ChangeOK(r)' /\ SessionOK(r)' BY <2>3, Zenon DEF ChangeOK, SessionOK
  <2>5. LifecycleNext(Q(r).op, seen[r].status)' # "none"
    BY <1>2, <2>3, Zenon
  <2>6. StepOK(r)' BY <2>3, <2>5 DEF StepOK
  <2>7. QED BY <2>1, <2>2, <2>4, <2>6, Unchanged, LocalStep, Zenon DEF IInv, Goto
<1>3. QED BY <1>1, <1>2

LEMMA SetStatusStep ==
    ASSUME IInv, NEW r \in R, UNCHANGED requests, SetAgentStatus(r) PROVE IInv'
<1> DEFINE a == Q(r).agent
<1>1. CASE ~StatusCas(agents[a], seen[r].status)
  BY <1>1, RefuseStep, Zenon DEF SetAgentStatus, Codes
<1>2. CASE StatusCas(agents[a], seen[r].status)
  <2> DEFINE st == LifecycleNext(Q(r).op, seen[r].status)
  <2>1. /\ Q(r).op \in Actions /\ pc[r] = "cas" /\ Lockable(r, a) /\ Locked(r, a)
        /\ Hold(r, Update(a, [agents[a] EXCEPT !.status = st])) /\ Goto(r, "commit")
        /\ UNCHANGED <<agents, sessions, seen, answer>>
    BY <1>2, Zenon DEF SetAgentStatus
  <2>2. a \in DOMAIN agents BY <2>1, RequestType, Zenon DEF IInv, Actions
  <2>3. agents[a] \in Rows /\ Live(a) /\ agents[a].status = seen[r].status
    BY <1>2, <2>2 DEF StatusCas, Live, IInv, TypeOK
  <2>4. st # "none" BY <2>1, Zenon DEF IInv, StepOK
  <2>5. st \in Statuses BY <2>4, TableRange, Zenon
  <2>6. [agents[a] EXCEPT !.status = st] \in Rows BY <2>3, <2>5, Zenon DEF Rows
  <2>7. Changed(r, agents[a]) = [agents[a] EXCEPT !.status = st]
    BY <2>1, <2>3, Zenon DEF Changed, Actions
  <2>8. LifecycleNext(Q(r).op, agents[a].status) # "none" BY <2>3, <2>4, Zenon
  <2>9. QED BY <2>1, <2>2, <2>3, <2>6, <2>7, <2>8, HoldChange DEF Actions
<1>3. QED BY <1>1, <1>2, Zenon

\* A step of a session request on its way to the insert.
LEMMA FindStep ==
    ASSUME IInv, NEW r \in R, UNCHANGED requests, FindExistingByExternal(r) PROVE IInv'
<1>0. Q(r).op = "session" /\ pc[r] = "start" /\ own[r].kind = "none"
      /\ UNCHANGED <<agents, sessions, lock, own, seen>>
  BY NothingYet, Zenon DEF FindExistingByExternal
<1>1. CASE FoundExternal(r) # {}
  <2>1. [NoAnswer EXCEPT !.code = "existing"] \in Answers
    BY NothingType, Zenon DEF Answers, Codes
  <2>2. QED BY <1>0, <1>1, <2>1, AnswerStep DEF FindExistingByExternal
<1>2. CASE FoundExternal(r) = {}
  <2>1. Goto(r, "lock") /\ UNCHANGED answer BY <1>2, Zenon DEF FindExistingByExternal
  <2>2. pc'[r] = "lock" /\ own'[r].kind = "none"
    BY <1>0, <2>1, Zenon DEF Goto, IInv, TypeOK
  <2>3. ChangeOK(r)' /\ SessionOK(r)' /\ StepOK(r)'
    BY <2>2, Zenon DEF ChangeOK, SessionOK, StepOK
  <2>4. QED BY <1>0, <2>1, <2>3, Unchanged, LocalStep, Zenon DEF IInv, Goto
<1>3. QED BY <1>1, <1>2, Zenon

LEMMA LockForSessionStep ==
    ASSUME IInv, NEW r \in R, UNCHANGED requests, LockForSession(r) PROVE IInv'
<1> DEFINE a == Q(r).agent
<1>1. CASE Refuse(r, "AGENT_NOT_FOUND") BY <1>1, RefuseStep, Zenon DEF Codes
<1>2. CASE /\ LockActiveAgent(r, a) /\ Goto(r, "insert")
           /\ UNCHANGED <<agents, sessions, own, seen, answer>>
  <2>1. Q(r).op = "session" /\ pc[r] = "lock" BY Zenon DEF LockForSession
  <2>2. /\ lock' \in [DOMAIN agents -> R \cup {0}] /\ lock'[a] = r
        /\ \A b \in DOMAIN agents : lock'[b] = lock[b] \/ lock[b] \in {0, r}
    BY <1>2, Zenon DEF LockActiveAgent, Locked, Lockable, Live, IInv, TypeOK
  <2>3. own'[r].kind = "none" /\ pc'[r] = "insert" /\ Q(r)' = Q(r)
    BY <1>2, <2>1, NothingYet, Zenon DEF Goto, IInv, TypeOK, Q
  <2>4. ChangeOK(r)' /\ SessionOK(r)' BY <2>3, Zenon DEF ChangeOK, SessionOK
  <2>5. HoldsLive(r, a)' BY <1>2, <2>2, <2>3 DEF HoldsLive, LockActiveAgent, Live
  <2>6. StepOK(r)' BY <2>3, <2>5, Zenon DEF StepOK
  <2>7. QED BY <1>2, <2>2, <2>4, <2>6, Unchanged, LocalStep, Zenon DEF IInv, Goto
<1>3. QED BY <1>1, <1>2, Zenon DEF LockForSession

LEMMA InsertStep ==
    ASSUME IInv, NEW r \in R, UNCHANGED requests, InsertSession(r) PROVE IInv'
<1> DEFINE a == Q(r).agent
           w == [kind |-> "session", agent |-> a, row |-> NoRow, ext |-> Q(r).ext]
<1>0. Q(r).op = "session" /\ pc[r] = "insert" /\ UNCHANGED <<agents, sessions, seen, answer>>
  BY Zenon DEF InsertSession
<1>1. HoldsLive(r, a) BY <1>0, Zenon DEF IInv, StepOK
<1>2. CASE FoundExternal(r) = {}
  <2>1. Hold(r, w) /\ Goto(r, "commit") /\ UNCHANGED lock
    BY <1>2, Zenon DEF InsertSession
  <2>2. Q(r).ext \in Texts BY <1>0, AgentsAssumption, Zenon DEF IInv, TypeOK, R, Q
  <2>3. a \in Nat BY <1>1 DEF HoldsLive, IInv, TypeOK
  <2>4. w \in Writes BY <2>2, <2>3, NothingType, Zenon DEF Writes
  <2>5. own'[r] = w /\ pc'[r] = "commit" /\ Q(r)' = Q(r)
    BY <2>1, Zenon DEF Hold, Goto, IInv, TypeOK, Q
  <2>6. \A s \in sessions : s.agent = a /\ s.ext = Q(r).ext => s.ext = ""
    BY <1>2, Zenon DEF FoundExternal
  <2>7. w.kind = "session" /\ w.agent = a /\ w.ext = Q(r).ext OBVIOUS
  <2> HIDE DEF w
  <2>8. ChangeOK(r)' /\ SessionOK(r)' /\ StepOK(r)'
    BY <1>0, <1>1, <2>1, <2>5, <2>6, <2>7, Zenon
       DEF ChangeOK, SessionOK, StepOK, HoldsLive, Actions
  <2>9. QED BY <1>0, <2>1, <2>4, <2>8, Unchanged, LocalStep, Zenon DEF IInv, Goto, Hold
<1>3. CASE FoundExternal(r) # {}
  <2>1. Hold(r, Nothing) /\ Goto(r, "race") /\ ReleaseLocks(r)
    BY <1>3, Zenon DEF InsertSession
  <2>2. own'[r].kind = "none" /\ pc'[r] = "race"
    BY <2>1, Zenon DEF Hold, Goto, IInv, TypeOK, Nothing
  <2>3. ChangeOK(r)' /\ SessionOK(r)' /\ StepOK(r)'
    BY <2>2, Zenon DEF ChangeOK, SessionOK, StepOK
  <2>4. /\ lock' \in [DOMAIN agents -> R \cup {0}]
        /\ \A b \in DOMAIN agents : lock'[b] = lock[b] \/ lock[b] \in {0, r}
    BY <2>1, Zenon DEF IInv, TypeOK, ReleaseLocks
  <2>5. QED
    BY <1>0, <2>1, <2>3, <2>4, NothingType, Unchanged, LocalStep, Zenon
       DEF IInv, Hold, Goto
<1>4. QED BY <1>2, <1>3, Zenon

LEMMA RaceStep ==
    ASSUME IInv, NEW r \in R, UNCHANGED requests, ResolveUniqueRace(r) PROVE IInv'
<1>1. [NoAnswer EXCEPT !.code = IF FoundExternal(r) # {} THEN "existing" ELSE "ERROR"] \in Answers
  BY NothingType, Zenon DEF Answers, Codes
<1>2. QED BY <1>1, NothingYet, AnswerStep, Zenon DEF ResolveUniqueRace

LEMMA DieStep ==
    ASSUME IInv, NEW r \in R, UNCHANGED requests, Die(r) PROVE IInv'
<1>1. answer' = [answer EXCEPT ![r] = [answer[r] EXCEPT !.code = "lost"]]
      /\ [answer[r] EXCEPT !.code = "lost"] \in Answers
  BY DEF Die, IInv, TypeOK, Answers, Codes
<1>2. QED BY <1>1, EndStep, Zenon DEF Die

-----------------------------------------------------------------------------
\* Agents that a commit of request r may change are locked by r.
LEMMA CommitAgents ==
    ASSUME IInv, NEW r \in R, pc[r] = "commit", Apply(r)
    PROVE  /\ \E n \in Nat : agents' \in [1 .. n -> Rows]
           /\ DOMAIN agents \subseteq DOMAIN agents'
           /\ \A a \in DOMAIN agents : lock[a] # r => agents'[a] = agents[a]
           /\ \A a \in DOMAIN agents : agents'[a].deleted =>
                 agents[a].deleted \/ \A s \in sessions : s.agent # a
           /\ own[r].kind = "session" => agents' = agents
<1>0. PICK n \in Nat : agents \in [1 .. n -> Rows] BY Zenon DEF IInv, TypeOK
<1>1. own[r] \in Writes BY Zenon DEF IInv, TypeOK
<1>2. CASE own[r].kind = "agent"
  <2> DEFINE a == own[r].agent
  <2>1. agents' = [agents EXCEPT ![a] = own[r].row] BY <1>2, Zenon DEF Apply
  <2>2. /\ HoldsLive(r, a) /\ own[r].row = Changed(r, agents[a])
        /\ Q(r).op = "delete" => \A s \in sessions : s.agent # a
        /\ Q(r).op \in {"patch", "delete"} \cup Actions
    BY <1>2, Zenon DEF IInv, ChangeOK
  <2>3. own[r].row \in Rows BY <1>1, Zenon DEF Writes
  <2>4. agents[a] \in Rows /\ a \in DOMAIN agents /\ lock[a] = r
    BY <1>0, <2>2, Zenon DEF HoldsLive
  <2>5. Q(r).op # "delete" => own[r].row.deleted = agents[a].deleted
    BY <2>2, <2>4, Zenon DEF Changed, PatchFlags, Rows
  <2>6. agents' \in [1 .. n -> Rows] BY <1>0, <2>1, <2>3, Zenon
  <2>7. QED BY <1>0, <1>2, <2>1, <2>2, <2>4, <2>5, <2>6, Zenon
<1>3. CASE own[r].kind = "create"
  <2>1. Cardinality(DOMAIN agents) = n BY <1>0, FS_Interval
  <2>2. agents' = [a \in 1 .. (n + 1) |-> IF a = n + 1 THEN own[r].row ELSE agents[a]]
    BY <1>3, <2>1 DEF Apply, NewAgent
  <2>3. own[r].row \in Rows BY <1>1, Zenon DEF Writes
  <2>4. agents' \in [1 .. (n + 1) -> Rows] BY <1>0, <2>2, <2>3
  <2>5. QED BY <1>0, <1>3, <2>2, <2>4
<1>4. CASE own[r].kind \in {"none", "session"}
  <2>1. agents' = agents BY <1>4, Zenon DEF Apply
  <2>2. QED BY <1>0, <1>4, <2>1, Zenon
<1>5. QED BY <1>1, <1>2, <1>3, <1>4, Zenon DEF Writes

LEMMA CommitStep ==
    ASSUME IInv, NEW r \in R, UNCHANGED requests, Commit(r) PROVE IInv'
<1>0. pc[r] = "commit" /\ Apply(r) /\ Hold(r, Nothing) /\ Goto(r, "done") /\ UNCHANGED seen
  BY Zenon DEF Commit
<1>1. own[r] \in Writes BY Zenon DEF IInv, TypeOK
<1>2. answer' \in [R -> Answers]
  <2>1. [code |-> "ok", row |-> own[r].row] \in Answers
    BY <1>1, Zenon DEF Writes, Answers, Codes
  <2>2. [answer[r] EXCEPT !.code = "lost"] \in Answers
    BY DEF IInv, TypeOK, Answers, Codes
  <2>3. QED BY <2>1, <2>2, Zenon DEF Commit, IInv, TypeOK
<1>3. lock' \in [DOMAIN agents' -> R \cup {0}]
      /\ \A a \in DOMAIN agents : lock[a] # r => lock'[a] = lock[a]
  BY <1>0, CommitAgents, Zenon DEF Apply, IInv, TypeOK
<1> DEFINE new == [agent |-> own[r].agent, ext |-> own[r].ext, by |-> r]
<1>4. /\ new.agent = own[r].agent /\ new.ext = own[r].ext
      /\ \A s \in sessions' : s \in sessions \/ (own[r].kind = "session" /\ s = new)
  BY <1>0, Zenon DEF Apply
<1> HIDE DEF new
<1>a. DOMAIN agents \subseteq DOMAIN agents' BY <1>0, CommitAgents, Zenon
<1>b. own[r].kind = "session" => agents' = agents BY <1>0, CommitAgents, Zenon
<1>c. \A a \in DOMAIN agents : lock[a] # r => agents'[a] = agents[a]
  BY <1>0, CommitAgents, Zenon
<1>5. own[r].kind = "session" => /\ HoldsLive(r, own[r].agent)
         /\ \A s \in sessions : s.agent = own[r].agent /\ s.ext = own[r].ext => s.ext = ""
  BY Zenon DEF IInv, SessionOK
<1>6. TypeOK'
  <2>1. sessions' \subseteq [agent : DOMAIN agents', ext : Texts, by : R]
    <3>1. sessions \subseteq [agent : DOMAIN agents', ext : Texts, by : R]
      BY <1>a, Zenon DEF IInv, TypeOK
    <3>2. own[r].kind = "session" => new \in [agent : DOMAIN agents', ext : Texts, by : R]
      BY <1>1, <1>5, <1>a, Zenon DEF Writes, HoldsLive, new
    <3>3. QED BY <3>1, <3>2, <1>4, Zenon
  <2>2. own' \in [R -> Writes]
        /\ pc' \in [R -> {"start", "exists", "cas", "lock", "insert", "race", "commit", "done"}]
    BY <1>0, NothingType, Zenon DEF Hold, Goto, IInv, TypeOK
  <2>3. requests' \in Cases /\ seen' \in [R -> Rows] /\ DOMAIN Agents \subseteq DOMAIN agents'
    BY <1>0, CommitAgents, Zenon DEF IInv, TypeOK
  <2>4. QED BY <1>0, <1>2, <1>3, <2>1, <2>2, <2>3, CommitAgents DEF TypeOK, R
<1>7. NoSessionUnderDeletedAgent'
  <2>1. ASSUME NEW s \in sessions' PROVE ~agents'[s.agent].deleted
    <3>1. CASE s \in sessions
      BY <1>0, <3>1, CommitAgents, Zenon DEF IInv, TypeOK, NoSessionUnderDeletedAgent
    <3>2. CASE s \notin sessions
      BY <1>4, <1>5, <1>b, <2>1, <3>2, Zenon DEF HoldsLive
    <3>3. QED BY <3>1, <3>2, Zenon
  <2>2. ASSUME NEW s \in sessions', NEW t \in sessions',
               s.ext # "", s.ext = t.ext, s.agent = t.agent
        PROVE  s = t
    <3>1. CASE s \in sessions /\ t \in sessions
      BY <2>2, <3>1, Zenon DEF IInv, NoSessionUnderDeletedAgent
    <3>2. CASE s = new /\ t = new BY <3>2, Zenon
    <3>3. CASE own[r].kind = "session" /\ s = new /\ t \in sessions
      BY <1>4, <1>5, <2>2, <3>3, Zenon
    <3>4. CASE own[r].kind = "session" /\ t = new /\ s \in sessions
      BY <1>4, <1>5, <2>2, <3>4, Zenon
    <3>5. QED BY <1>4, <2>2, <3>1, <3>2, <3>3, <3>4, Zenon
  <2>3. QED BY <2>1, <2>2, Zenon DEF NoSessionUnderDeletedAgent
<1>8. ASSUME NEW t \in R, t # r PROVE ChangeOK(t)' /\ SessionOK(t)' /\ StepOK(t)'
  <2>1. own'[t] = own[t] /\ pc'[t] = pc[t] /\ seen'[t] = seen[t]
    BY <1>0, <1>8, Zenon DEF Hold, Goto, IInv, TypeOK
  <2>2. \A a \in DOMAIN agents : lock[a] = t =>
            /\ a \in DOMAIN agents' /\ agents'[a] = agents[a] /\ lock'[a] = t
            /\ \A s \in sessions' : s.agent = a => s \in sessions
    BY <1>3, <1>4, <1>5, <1>8, <1>a, <1>c, Zenon DEF HoldsLive
  <2>3. QED BY <2>1, <2>2, Frame
<1>9. ChangeOK(r)' /\ SessionOK(r)' /\ StepOK(r)'
  <2>1. own'[r].kind = "none" /\ pc'[r] = "done"
    BY <1>0, Zenon DEF IInv, TypeOK, Hold, Goto, Nothing
  <2>2. QED BY <2>1, Zenon DEF ChangeOK, SessionOK, StepOK
<1>10. QED BY <1>6, <1>7, <1>8, <1>9, Zenon DEF IInv, R

\* A suspension from outside finds the row unlocked.
LEMMA SuspendStep ==
    ASSUME IInv, NEW b \in DOMAIN Agents, UNCHANGED requests, Suspend(b) PROVE IInv'
<1>0. PICK n \in Nat : agents \in [1 .. n -> Rows] BY Zenon DEF IInv, TypeOK
<1>1. /\ b \in DOMAIN agents /\ lock[b] = 0
      /\ agents' = [agents EXCEPT ![b] = [agents[b] EXCEPT !.status = "suspended"]]
      /\ UNCHANGED <<sessions, lock, own, pc, seen, answer>>
  BY Zenon DEF Suspend, Live, IInv, TypeOK
<1>2. /\ [agents[b] EXCEPT !.status = "suspended"] \in Rows
      /\ [agents[b] EXCEPT !.status = "suspended"].deleted = agents[b].deleted
  BY <1>0, <1>1, Zenon DEF Rows, Statuses
<1>3. /\ agents' \in [1 .. n -> Rows] /\ DOMAIN agents' = DOMAIN agents
      /\ \A a \in DOMAIN agents : agents'[a].deleted = agents[a].deleted
      /\ \A a \in DOMAIN agents : a # b => agents'[a] = agents[a]
  BY <1>0, <1>1, <1>2, Zenon
<1>4. TypeOK' BY <1>1, <1>3, Zenon DEF IInv, TypeOK, R
<1>5. NoSessionUnderDeletedAgent'
  BY <1>1, <1>3, Zenon DEF IInv, TypeOK, NoSessionUnderDeletedAgent
<1>6. ASSUME NEW t \in R PROVE ChangeOK(t)' /\ SessionOK(t)' /\ StepOK(t)'
  <2>1. t # 0 BY RequestType, Zenon DEF IInv
  <2>2. QED BY <1>1, <1>3, <2>1, Frame
<1>7. QED BY <1>4, <1>5, <1>6, Zenon DEF IInv, R

LEMMA NextInv == IInv /\ [Next]_vars => IInv'
<1> SUFFICES ASSUME IInv, [Next]_vars PROVE IInv' OBVIOUS
<1>1. CASE UNCHANGED vars
  <2>1. TypeOK' /\ NoSessionUnderDeletedAgent'
    BY <1>1, Zenon DEF vars, IInv, TypeOK, NoSessionUnderDeletedAgent, R
  <2>2. ASSUME NEW t \in R PROVE ChangeOK(t)' /\ SessionOK(t)' /\ StepOK(t)'
    BY <1>1, Frame DEF vars
  <2>3. QED BY <1>1, <2>1, <2>2 DEF vars, IInv, R
<1>2. CASE Next
  BY <1>2, GetStep, CreateStep, PatchStep, LockRowStep, SoftDeleteStep, AssertStep, SetStatusStep,
     FindStep, LockForSessionStep, InsertStep, RaceStep, CommitStep, DieStep, SuspendStep
     DEF Next, Step
<1>3. QED BY <1>1, <1>2

THEOREM Invariance == Spec => []IInv
BY InitInv, NextInv, PTL DEF Spec

\* No session is left under a deleted agent and no key of a session is used twice, for any
\* number of agents and any overlapping requests (agents.py soft_delete_agent,
\* get_or_create.go lockActiveAgent).
THEOREM SessionTheorem == Spec => []NoSessionUnderDeletedAgent
<1>1. IInv => NoSessionUnderDeletedAgent BY Zenon DEF IInv
<1>2. QED BY <1>1, Invariance, PTL

-----------------------------------------------------------------------------
\* What one step may do to an agent, and what it may answer.
MovesByTheTable ==
    /\ \A a \in DOMAIN Agents :
         /\ agents'[a].status # agents[a].status =>
              \/ \E x \in Actions : LifecycleNext(x, agents[a].status) = agents'[a].status
              \/ agents'[a].status = "suspended"
         /\ agents[a].deleted => agents'[a] = agents[a]
    /\ \A r \in R : answer'[r].code = "ok" /\ answer[r].code # "ok" /\ Q(r).op \in Actions =>
         /\ agents'[Q(r).agent] = answer'[r].row
         /\ LifecycleNext(Q(r).op, agents[Q(r).agent].status) = answer'[r].row.status

\* A step that leaves the agents alone and answers no lifecycle action with "ok".
LEMMA QuietStep ==
    ASSUME UNCHANGED agents,
           \A t \in R : Q(t).op \in Actions => answer'[t].code # "ok" \/ answer'[t] = answer[t]
    PROVE  MovesByTheTable
BY Zenon DEF MovesByTheTable

LEMMA OtherAnswers ==
    ASSUME IInv, NEW r \in R, NEW m \in Answers, answer' = [answer EXCEPT ![r] = m],
           UNCHANGED agents, m.code # "ok" \/ Q(r).op \notin Actions
    PROVE  MovesByTheTable
<1>1. \A t \in R : Q(t).op \in Actions => answer'[t].code # "ok" \/ answer'[t] = answer[t]
  BY Zenon DEF IInv, TypeOK
<1>2. QED BY <1>1, QuietStep

LEMMA RefusedMoves ==
    ASSUME IInv, NEW r \in R, NEW code \in Codes \ {"ok"}, Refuse(r, code)
    PROVE  MovesByTheTable
<1>1. [NoAnswer EXCEPT !.code = code] \in Answers /\ [NoAnswer EXCEPT !.code = code].code # "ok"
  BY NothingType, Zenon DEF Answers
<1>2. QED BY <1>1, OtherAnswers, Zenon DEF Refuse

LEMMA ReadMoves ==
    ASSUME IInv, NEW r \in R,
           \/ GetAgent(r) \/ CreateAgent(r) \/ PatchAgent(r) \/ LockAgentRow(r) \/ SoftDeleteAgent(r)
           \/ AssertLifecycleTransition(r) \/ SetAgentStatus(r) \/ FindExistingByExternal(r)
           \/ LockForSession(r) \/ InsertSession(r) \/ ResolveUniqueRace(r)
    PROVE  MovesByTheTable
<1>1. CASE \E code \in Codes \ {"ok"} : Refuse(r, code) BY <1>1, RefusedMoves, Zenon
<1>2. CASE UNCHANGED <<agents, answer>> BY <1>2, QuietStep, Zenon
<1>3. CASE /\ Q(r).op \notin Actions /\ UNCHANGED agents
           /\ \E m \in Answers : answer' = [answer EXCEPT ![r] = m]
  BY <1>3, OtherAnswers, Zenon
<1> DEFINE a == Q(r).agent
<1>4. Live(a) => [code |-> "ok", row |-> agents[a]] \in Answers
  BY Zenon DEF Live, IInv, TypeOK, Answers, Codes
<1>5. \A c \in Codes : [NoAnswer EXCEPT !.code = c] \in Answers
  BY NothingType, Zenon DEF Answers
<1>6. CASE GetAgent(r)
  BY <1>1, <1>3, <1>4, <1>6 DEF GetAgent, Actions, Codes
<1>7. CASE CreateAgent(r) BY <1>1, <1>2, <1>7, Zenon DEF CreateAgent, Codes
<1>8. CASE PatchAgent(r)
  BY <1>1, <1>2, <1>3, <1>4, <1>8, Zenon DEF PatchAgent, Actions, Codes
<1>9. CASE LockAgentRow(r) \/ SoftDeleteAgent(r)
  BY <1>1, <1>2, <1>9 DEF LockAgentRow, SoftDeleteAgent, Codes
<1>10. CASE AssertLifecycleTransition(r) \/ SetAgentStatus(r)
  BY <1>1, <1>2, <1>10 DEF AssertLifecycleTransition, SetAgentStatus, Codes
<1>11. CASE FindExistingByExternal(r)
  BY <1>2, <1>3, <1>5, <1>11 DEF FindExistingByExternal, Actions, Codes
<1>12. CASE LockForSession(r) \/ InsertSession(r)
  BY <1>1, <1>2, <1>12 DEF LockForSession, InsertSession, Codes
<1>13. CASE ResolveUniqueRace(r)
  BY <1>3, <1>5, <1>13, Zenon DEF ResolveUniqueRace, Actions, Codes
<1>14. QED BY <1>6, <1>7, <1>8, <1>9, <1>10, <1>11, <1>12, <1>13

LEMMA CommitMoves ==
    ASSUME IInv, NEW r \in R, Commit(r) PROVE MovesByTheTable
<1>0. pc[r] = "commit" /\ Apply(r) BY Zenon DEF Commit
<1>1. \A t \in R : t # r => answer'[t] = answer[t] BY Zenon DEF Commit, IInv, TypeOK
<1>2. answer'[r].code = "ok" /\ answer[r].code # "ok" => answer'[r].row = own[r].row
  BY DEF Commit, IInv, TypeOK, Answers
<1>3. own[r] \in Writes BY Zenon DEF IInv, TypeOK
<1>4. CASE own[r].kind = "agent"
  <2> DEFINE a == own[r].agent
  <2>1. agents' = [agents EXCEPT ![a] = own[r].row] BY <1>0, <1>4, Zenon DEF Apply
  <2>2. /\ a = Q(r).agent /\ HoldsLive(r, a) /\ own[r].row = Changed(r, agents[a])
        /\ Q(r).op \in {"patch", "delete"} \cup Actions
    BY <1>4, Zenon DEF IInv, ChangeOK
  <2>3. agents[a] \in Rows /\ a \in DOMAIN agents /\ ~agents[a].deleted
    BY <2>2, Zenon DEF HoldsLive, IInv, TypeOK
  <2>4. /\ Q(r).op \notin Actions => own[r].row.status = agents[a].status
        /\ Q(r).op \in Actions => own[r].row.status = LifecycleNext(Q(r).op, agents[a].status)
    BY <2>2, <2>3, Zenon DEF Changed, PatchFlags, Rows, Actions
  <2>5. \A b \in DOMAIN Agents : agents'[b] = IF b = a THEN own[r].row ELSE agents[b]
    BY <2>1, Zenon DEF IInv, TypeOK
  <2>6. agents'[a] = own[r].row BY <2>1, <2>3, Zenon
  <2>7. QED BY <1>1, <1>2, <2>2, <2>3, <2>4, <2>5, <2>6, Zenon DEF MovesByTheTable
<1>5. CASE own[r].kind # "agent"
  <2>1. Q(r).op \notin Actions BY <1>0, <1>5, Zenon DEF IInv, StepOK
  <2>2. \A b \in DOMAIN Agents : agents'[b] = agents[b]
    <3>1. PICK n \in Nat : agents \in [1 .. n -> Rows] BY Zenon DEF IInv, TypeOK
    <3>2. Cardinality(DOMAIN agents) = n BY <3>1, FS_Interval
    <3>3. DOMAIN Agents \subseteq 1 .. n BY <3>1, Zenon DEF IInv, TypeOK
    <3>4. QED BY <1>0, <1>3, <1>5, <3>1, <3>2, <3>3 DEF Apply, NewAgent, Writes
  <2>3. QED BY <1>1, <2>1, <2>2, Zenon DEF MovesByTheTable
<1>6. QED BY <1>4, <1>5, Zenon

LEMMA NextMoves == IInv /\ [Next]_vars => [MovesByTheTable]_vars
<1> SUFFICES ASSUME IInv, Next PROVE MovesByTheTable BY Zenon DEF Next
<1>1. ASSUME NEW r \in R, Die(r) PROVE MovesByTheTable
  <2>1. [answer[r] EXCEPT !.code = "lost"] \in Answers
        /\ [answer[r] EXCEPT !.code = "lost"].code # "ok"
    BY DEF IInv, TypeOK, Answers, Codes
  <2>2. QED BY <1>1, <2>1, OtherAnswers, Zenon DEF Die, IInv, TypeOK
<1>2. ASSUME NEW b \in DOMAIN Agents, Suspend(b) PROVE MovesByTheTable
  <2>1. b \in DOMAIN agents /\ ~agents[b].deleted /\ UNCHANGED answer
        /\ agents' = [agents EXCEPT ![b] = [agents[b] EXCEPT !.status = "suspended"]]
    BY <1>2, Zenon DEF Suspend, Live, IInv, TypeOK
  <2>2. [agents[b] EXCEPT !.status = "suspended"].status = "suspended"
    BY <2>1, Zenon DEF IInv, TypeOK, Rows
  <2>3. \A a \in DOMAIN Agents : agents'[a] = IF a = b THEN [agents[b] EXCEPT !.status = "suspended"]
                                              ELSE agents[a]
    BY <2>1, Zenon DEF IInv, TypeOK
  <2>4. QED BY <2>1, <2>2, <2>3, Zenon DEF MovesByTheTable
<1>3. QED BY <1>1, <1>2, ReadMoves, CommitMoves, Zenon DEF Next, Step

\* The status of an agent only moves along _LIFECYCLE_NEXT or is suspended from outside, a
\* deleted agent does not change, and a lifecycle action is answered "ok" only with the status
\* its own transition wrote (agents.py set_agent_status).
THEOREM StatusTheorem == Spec => StatusMovesByTheTable
<1>1. IInv /\ [Next]_vars => [MovesByTheTable]_vars BY NextMoves, Zenon
<1>2. QED BY <1>1, Invariance, PTL DEF Spec, StatusMovesByTheTable, MovesByTheTable

-----------------------------------------------------------------------------
(* The turns of a session.  A gap cannot be excluded step by step: turns   *)
(* are recorded in any order.  The invariant says that an index below one  *)
(* that is cached, taken or recorded is on record or in the hands of a     *)
(* request, as long as nothing failed.                                     *)

\* A request that will record its turn, or learn that the index is on record.
Holding == {"reserving", "caching", "asked", "append", "reappend"}
Covered(i) == i \in Indexes \/ \E q \in TurnRequests : reqPc[q] \in Holding /\ turn[q] = i
UpTo(n) == \A i \in Nat : i < n => Covered(i)
NoHole ==
  /\ cache # NoTurn => UpTo(cache)
  /\ \A q \in TurnRequests : reqPc[q] \in Holding \cup {"recorded"} => UpTo(turn[q])
  /\ \A j \in Indexes : UpTo(j)

Authors == {c.by : c \in checkpoints}
Counts ==
  /\ IsFiniteSet(checkpoints) /\ IsFiniteSet(Indexes) /\ IsFiniteSet(Authors)
  /\ CountIsCheckpoints

\* A request has a checkpoint only when it is past its append.
Recorded ==
  /\ \A c \in checkpoints : reqPc[c.by] \in {"recorded", "done", "unrecorded"}
  /\ \A q \in TurnRequests : reqPc[q] = "recorded" => turn[q] \in Indexes

TurnsInv == TurnsTypeOK /\ Counts /\ Recorded /\ (failures = 0 => NoHole)

LEMMA IndexesAreNat ==
  ASSUME TurnsTypeOK PROVE Indexes \subseteq Nat
  BY Zenon DEF TurnsTypeOK, CheckpointRow, Indexes

\* The turn count leads to no hole: with as many checkpoints as it says, one of
\* them has an index at or above each number below it.
LEMMA CountIsCovered ==
  ASSUME TurnsTypeOK, Counts, NoHole
  PROVE  UpTo(count)
<1> SUFFICES ASSUME NEW i \in Nat, i < count PROVE Covered(i)
  BY Zenon DEF UpTo
<1>1. Indexes \subseteq Nat
  BY IndexesAreNat, Zenon
<1>2. CASE \E j \in Indexes : i <= j
  <2>1. PICK j \in Indexes : i <= j
    BY <1>2, Zenon
  <2>2. CASE i = j
    BY <2>2, Zenon DEF Covered
  <2>3. CASE i < j
    BY <2>3, Zenon DEF NoHole, UpTo
  <2> QED
    BY <2>1, <2>2, <2>3, <1>1
<1>3. CASE \A j \in Indexes : ~(i <= j)
  <2>1. Indexes \in SUBSET (0..(i - 1))
    BY <1>1, <1>3
  <2>2. IsFiniteSet(0..(i - 1)) /\ Cardinality(0..(i - 1)) = i
    BY FS_Interval
  <2>3. Cardinality(Indexes) <= i
    BY <2>1, <2>2, FS_Subset, Zenon
  <2>4. count \in Nat /\ Cardinality(Indexes) = count
    BY Zenon DEF Counts, CountIsCheckpoints, TurnsTypeOK
  <2> QED
    BY <2>3, <2>4
<1> QED
  BY <1>2, <1>3, Zenon

\* A set of count naturals without a hole is 0 .. count - 1.
LEMMA NoHoleNoGap == TurnsInv => GapsAreFailures
<1> SUFFICES ASSUME TurnsInv, failures = 0, \A q \in TurnRequests : TurnSettled(q)
             PROVE  Indexes = 0..(count - 1)
  BY Zenon DEF GapsAreFailures
<1>1. Counts /\ NoHole /\ TurnsTypeOK
  BY Zenon DEF TurnsInv
<1>2. UpTo(count) /\ count \in Nat
  BY <1>1, CountIsCovered, Zenon DEF TurnsTypeOK
<1>3. \A i \in Nat : Covered(i) => i \in Indexes
  BY Zenon DEF Covered, TurnSettled, Holding
<1>4. 0..(count - 1) \in SUBSET Indexes
  BY <1>2, <1>3 DEF UpTo
<1>5. Cardinality(0..(count - 1)) = count
  BY <1>2, FS_Interval
<1>6. IsFiniteSet(Indexes) /\ Cardinality(Indexes) = count
  BY <1>1, Zenon DEF Counts, CountIsCheckpoints
<1> QED
  BY <1>4, <1>5, <1>6, FS_Subset, Zenon

-----------------------------------------------------------------------------
\* What was covered stays so when no checkpoint is lost and whoever held an
\* index holds it still or finds it on record.
LEMMA StaysCovered ==
  ASSUME Indexes \subseteq Indexes',
         \A q \in TurnRequests : reqPc[q] \in Holding =>
           turn[q] \in Indexes' \/ (reqPc'[q] \in Holding /\ turn'[q] = turn[q])
  PROVE  \A n : UpTo(n) => UpTo(n)'
<1>1. ASSUME NEW i \in Nat, Covered(i) PROVE Covered(i)'
  BY <1>1, Zenon DEF Covered
<1> QED
  BY <1>1, Zenon DEF UpTo

\* A checkpoint is added (appendCheckpoint).
LEMMA RecordKeeps ==
  ASSUME TurnsTypeOK, Counts, NEW q \in TurnRequests, ~Taken(q), Record(q),
         \A c \in checkpoints : c.by # q
  PROVE  /\ Counts' /\ Indexes' = Indexes \cup {turn[q]}
         /\ count' \in Nat /\ checkpoints' \subseteq CheckpointRow
<1> DEFINE new == [turn |-> turn[q], by |-> q]
<1>1. checkpoints' = checkpoints \cup {new} /\ count' = count + 1
  BY Zenon DEF Record
<1>2. turn[q] \in Nat /\ new \in CheckpointRow /\ new.turn = turn[q] /\ new.by = q
  BY Zenon DEF TurnsTypeOK, CheckpointRow
<1> HIDE DEF new
<1>3. Indexes' = Indexes \cup {turn[q]}
  BY <1>1, <1>2, Zenon DEF Indexes
<1>4. Authors' = Authors \cup {q}
  BY <1>1, <1>2, Zenon DEF Authors
<1>5. turn[q] \notin Indexes /\ new \notin checkpoints
  BY <1>2, Zenon DEF Taken, Indexes
<1>6. q \notin Authors
  BY Zenon DEF Authors
<1>7. IsFiniteSet(checkpoints) /\ IsFiniteSet(Indexes) /\ IsFiniteSet(Authors)
  BY Zenon DEF Counts
<1>8. IsFiniteSet(checkpoints') /\ Cardinality(checkpoints') = Cardinality(checkpoints) + 1
  BY <1>1, <1>5, <1>7, FS_AddElement, Zenon
<1>9. IsFiniteSet(Indexes') /\ Cardinality(Indexes') = Cardinality(Indexes) + 1
  BY <1>3, <1>5, <1>7, FS_AddElement, Zenon
<1>10. IsFiniteSet(Authors') /\ Cardinality(Authors') = Cardinality(Authors) + 1
  BY <1>4, <1>6, <1>7, FS_AddElement, Zenon
<1>11. Counts'
  BY <1>1, <1>8, <1>9, <1>10, Zenon DEF Counts, CountIsCheckpoints, Authors
<1> QED
  BY <1>1, <1>2, <1>3, <1>11 DEF TurnsTypeOK

-----------------------------------------------------------------------------
Past == {"recorded", "done", "unrecorded"}

\* A step of a request that touches neither the count nor the checkpoints.
LEMMA QuietKeeps ==
  ASSUME TurnsInv, NEW q \in TurnRequests, NEW to, Advance(q, to),
         UNCHANGED <<count, checkpoints>>,
         to # "recorded", reqPc[q] \in Past => to \in Past,
         \A p \in TurnRequests : p # q => turn'[p] = turn[p]
  PROVE  Counts' /\ Recorded' /\ Indexes' = Indexes
<1>1. Indexes' = Indexes /\ Authors' = Authors
  BY Zenon DEF Indexes, Authors
<1>2. Counts'
  BY <1>1, Zenon DEF TurnsInv, Counts, CountIsCheckpoints, Authors
<1>3. Recorded'
  BY <1>1, Zenon DEF TurnsInv, TurnsTypeOK, Recorded, Advance, Past, CheckpointRow
<1> QED
  BY <1>1, <1>2, <1>3, Zenon

LEMMA CacheGetKeeps ==
  ASSUME TurnsAssumption, TurnsInv, NEW q \in TurnRequests, CacheGet(q)
  PROVE  TurnsInv'
<1>1. PICK to \in {"reserving", "lookup"} : Advance(q, to)
  BY Zenon DEF CacheGet
<1>2. Counts' /\ Recorded' /\ Indexes' = Indexes
  BY <1>1, QuietKeeps, Zenon DEF CacheGet, Past, sessionRow, TurnsInv, TurnsTypeOK
<1>3. TurnsTypeOK'
  BY
     DEF TurnsInv, TurnsTypeOK, TurnsAssumption, CacheGet, CacheFault, Advance, sessionRow
<1>4. ASSUME failures' = 0 PROVE NoHole'
  <2>1. NoHole
    BY <1>4, Zenon DEF TurnsInv, CacheGet
  <2>2. \A n : UpTo(n) => UpTo(n)'
    BY <1>2, StaysCovered, Zenon DEF CacheGet, Advance, TurnsInv, TurnsTypeOK, Holding
  <2> QED
    BY <1>2, <2>1, <2>2, Zenon
       DEF NoHole, CacheGet, Advance, TurnsInv, TurnsTypeOK, Holding
<1> QED
  BY <1>2, <1>3, <1>4, Zenon DEF TurnsInv

LEMMA ReserveTurnKeeps ==
  ASSUME TurnsAssumption, TurnsInv, NEW q \in TurnRequests, Reserve(q)
  PROVE  TurnsInv'
<1>1. PICK to \in {"asked"} : Advance(q, to)
  BY Zenon DEF Reserve
<1>2. Counts' /\ Recorded' /\ Indexes' = Indexes
  BY <1>1, QuietKeeps, Zenon DEF Reserve, Past, sessionRow, TurnsInv, TurnsTypeOK
<1>3. TurnsTypeOK'
  BY
     DEF TurnsInv, TurnsTypeOK, TurnsAssumption, Reserve, Advance, sessionRow, CacheSet, CacheFault
<1>4. ASSUME failures' = 0 PROVE NoHole'
  <2>1. NoHole
    BY <1>4, Zenon DEF TurnsInv, Reserve
  <2>2. \A n : UpTo(n) => UpTo(n)'
    BY <1>2, StaysCovered, Zenon DEF Reserve, Advance, TurnsInv, TurnsTypeOK, Holding
  <2>3. UpTo(turn[q] + 1)'
    BY <1>2, <2>1, <2>2
       DEF NoHole, UpTo, Covered, Reserve, Advance, TurnsInv, TurnsTypeOK, Holding, Recorded
  <2> QED
    BY <1>2, <2>1, <2>2, <2>3, Zenon
       DEF NoHole, Reserve, Advance, TurnsInv, TurnsTypeOK, Holding, CacheSet, CacheFault
<1> QED
  BY <1>2, <1>3, <1>4, Zenon DEF TurnsInv

LEMMA LookupKeeps ==
  ASSUME TurnsAssumption, TurnsInv, NEW q \in TurnRequests, Lookup(q)
  PROVE  TurnsInv'
<1>1. PICK to \in {"caching", "inserting"} : Advance(q, to)
  BY Zenon DEF Lookup
<1>2. Counts' /\ Recorded' /\ Indexes' = Indexes
  BY <1>1, QuietKeeps, Zenon DEF Lookup, Past, sessionRow, TurnsInv, TurnsTypeOK
<1>3. TurnsTypeOK'
  BY Zenon
     DEF TurnsInv, TurnsTypeOK, TurnsAssumption, Lookup, Advance, sessionRow, NextIndex
<1>4. ASSUME failures' = 0 PROVE NoHole'
  <2>1. NoHole
    BY <1>4, Zenon DEF TurnsInv, Lookup
  <2>2. \A n : UpTo(n) => UpTo(n)'
    BY <1>2, StaysCovered, Zenon DEF Lookup, Advance, TurnsInv, TurnsTypeOK, Holding
  <2>3. UpTo(count)'
    BY <2>1, <2>2, CountIsCovered, Zenon DEF TurnsInv, Lookup, sessionRow
  <2> QED
    BY <1>2, <2>1, <2>2, <2>3, Zenon
       DEF NoHole, Lookup, Advance, TurnsInv, TurnsTypeOK, Holding, NextIndex, sessionRow
<1> QED
  BY <1>2, <1>3, <1>4, Zenon DEF TurnsInv

LEMMA InsertKeeps ==
  ASSUME TurnsAssumption, TurnsInv, NEW q \in TurnRequests, Insert(q)
  PROVE  TurnsInv'
<1>1. PICK to \in {"caching"} : Advance(q, to)
  BY Zenon DEF Insert
<1>2. Counts' /\ Recorded' /\ Indexes' = Indexes
  BY <1>1, QuietKeeps, Zenon DEF Insert, Past, sessionRow, TurnsInv, TurnsTypeOK
<1>3. TurnsTypeOK'
  BY Zenon
     DEF TurnsInv, TurnsTypeOK, TurnsAssumption, Insert, Advance, sessionRow, NextIndex
<1>4. ASSUME failures' = 0 PROVE NoHole'
  <2>1. NoHole
    BY <1>4, Zenon DEF TurnsInv, Insert
  <2>2. \A n : UpTo(n) => UpTo(n)'
    BY <1>2, StaysCovered, Zenon DEF Insert, Advance, TurnsInv, TurnsTypeOK, Holding
  <2>3. UpTo(count)'
    BY <2>1, <2>2, CountIsCovered, Zenon DEF TurnsInv, Insert, sessionRow
  <2> QED
    BY <1>2, <2>1, <2>2, <2>3, Zenon
       DEF NoHole, Insert, Advance, TurnsInv, TurnsTypeOK, Holding, NextIndex
<1> QED
  BY <1>2, <1>3, <1>4, Zenon DEF TurnsInv

LEMMA CacheTurnKeeps ==
  ASSUME TurnsAssumption, TurnsInv, NEW q \in TurnRequests, CacheTurn(q)
  PROVE  TurnsInv'
<1>1. PICK to \in {"asked"} : Advance(q, to)
  BY Zenon DEF CacheTurn
<1>2. Counts' /\ Recorded' /\ Indexes' = Indexes
  BY <1>1, QuietKeeps, Zenon DEF CacheTurn, Past, sessionRow, TurnsInv, TurnsTypeOK
<1>3. TurnsTypeOK'
  BY
     DEF TurnsInv, TurnsTypeOK, TurnsAssumption, CacheTurn, Advance, sessionRow, CacheSet, CacheFault
<1>4. ASSUME failures' = 0 PROVE NoHole'
  <2>1. NoHole
    BY <1>4, Zenon DEF TurnsInv, CacheTurn
  <2>2. \A n : UpTo(n) => UpTo(n)'
    BY <1>2, StaysCovered, Zenon DEF CacheTurn, Advance, TurnsInv, TurnsTypeOK, Holding
  <2>3. UpTo(turn[q] + 1)'
    BY <1>2, <2>1, <2>2
       DEF NoHole, UpTo, Covered, CacheTurn, Advance, TurnsInv, TurnsTypeOK, Holding, Recorded
  <2> QED
    BY <1>2, <2>1, <2>2, <2>3, Zenon
       DEF NoHole, CacheTurn, Advance, TurnsInv, TurnsTypeOK, Holding, CacheSet, CacheFault
<1> QED
  BY <1>2, <1>3, <1>4, Zenon DEF TurnsInv

LEMMA ResolveFailsKeeps ==
  ASSUME TurnsAssumption, TurnsInv, NEW q \in TurnRequests, ResolveFails(q)
  PROVE  TurnsInv'
<1>1. PICK to \in {"unrecorded"} : Advance(q, to)
  BY Zenon DEF ResolveFails
<1>2. Counts' /\ Recorded' /\ Indexes' = Indexes
  BY <1>1, QuietKeeps, Zenon DEF ResolveFails, Past, sessionRow, TurnsInv, TurnsTypeOK
<1>3. TurnsTypeOK'
  BY
     DEF TurnsInv, TurnsTypeOK, TurnsAssumption, ResolveFails, Advance, sessionRow, Failure
<1>4. failures' # 0
  BY DEF ResolveFails, Failure, TurnsInv, TurnsTypeOK
<1> QED
  BY <1>2, <1>3, <1>4, Zenon DEF TurnsInv

LEMMA ProviderFailsKeeps ==
  ASSUME TurnsAssumption, TurnsInv, NEW q \in TurnRequests, ProviderFails(q)
  PROVE  TurnsInv'
<1>1. PICK to \in {"unrecorded"} : Advance(q, to)
  BY Zenon DEF ProviderFails
<1>2. Counts' /\ Recorded' /\ Indexes' = Indexes
  BY <1>1, QuietKeeps, Zenon DEF ProviderFails, Past, sessionRow, TurnsInv, TurnsTypeOK
<1>3. TurnsTypeOK'
  BY
     DEF TurnsInv, TurnsTypeOK, TurnsAssumption, ProviderFails, Advance, sessionRow, Failure
<1>4. failures' # 0
  BY DEF ProviderFails, Failure, TurnsInv, TurnsTypeOK
<1> QED
  BY <1>2, <1>3, <1>4, Zenon DEF TurnsInv

LEMMA CompleteKeeps ==
  ASSUME TurnsAssumption, TurnsInv, NEW q \in TurnRequests, Complete(q)
  PROVE  TurnsInv'
<1>1. PICK to \in {"append"} : Advance(q, to)
  BY Zenon DEF Complete
<1>2. Counts' /\ Recorded' /\ Indexes' = Indexes
  BY <1>1, QuietKeeps, Zenon DEF Complete, Past, sessionRow, TurnsInv, TurnsTypeOK
<1>3. TurnsTypeOK'
  BY Zenon DEF TurnsInv, TurnsTypeOK, TurnsAssumption, Complete, Advance, sessionRow
<1>4. ASSUME failures' = 0 PROVE NoHole'
  <2>1. NoHole
    BY <1>4, Zenon DEF TurnsInv, Complete
  <2>2. \A n : UpTo(n) => UpTo(n)'
    BY <1>2, StaysCovered, Zenon DEF Complete, Advance, TurnsInv, TurnsTypeOK, Holding
  <2> QED
    BY <1>2, <2>1, <2>2, Zenon
       DEF NoHole, Complete, Advance, TurnsInv, TurnsTypeOK, Holding
<1> QED
  BY <1>2, <1>3, <1>4, Zenon DEF TurnsInv

LEMMA InvalidateKeeps ==
  ASSUME TurnsAssumption, TurnsInv, NEW q \in TurnRequests, Invalidate(q)
  PROVE  TurnsInv'
<1>1. PICK to \in {"reload"} : Advance(q, to)
  BY Zenon DEF Invalidate
<1>2. Counts' /\ Recorded' /\ Indexes' = Indexes
  BY <1>1, QuietKeeps, Zenon DEF Invalidate, Past, sessionRow, TurnsInv, TurnsTypeOK
<1>3. TurnsTypeOK'
  BY
     DEF TurnsInv, TurnsTypeOK, TurnsAssumption, Invalidate, Advance, sessionRow, CacheSet, CacheFault
<1>4. ASSUME failures' = 0 PROVE NoHole'
  <2>1. NoHole
    BY <1>4, Zenon DEF TurnsInv, Invalidate
  <2>2. \A n : UpTo(n) => UpTo(n)'
    BY <1>2, StaysCovered, Zenon DEF Invalidate, Advance, TurnsInv, TurnsTypeOK, Holding
  <2> QED
    BY <1>2, <2>1, <2>2, Zenon
       DEF NoHole, Invalidate, Advance, TurnsInv, TurnsTypeOK, Holding, CacheSet, CacheFault
<1> QED
  BY <1>2, <1>3, <1>4, Zenon DEF TurnsInv

LEMMA ReloadKeeps ==
  ASSUME TurnsAssumption, TurnsInv, NEW q \in TurnRequests, Reload(q)
  PROVE  TurnsInv'
<1>1. PICK to \in {"reappend"} : Advance(q, to)
  BY Zenon DEF Reload
<1>2. Counts' /\ Recorded' /\ Indexes' = Indexes
  BY <1>1, QuietKeeps, Zenon DEF Reload, Past, sessionRow, TurnsInv, TurnsTypeOK
<1>3. TurnsTypeOK'
  BY Zenon
     DEF TurnsInv, TurnsTypeOK, TurnsAssumption, Reload, Advance, sessionRow, ReloadIndex
<1>4. ASSUME failures' = 0 PROVE NoHole'
  <2>1. NoHole
    BY <1>4, Zenon DEF TurnsInv, Reload
  <2>2. \A n : UpTo(n) => UpTo(n)'
    BY <1>2, StaysCovered, Zenon DEF Reload, Advance, TurnsInv, TurnsTypeOK, Holding
  <2>3. UpTo(count)'
    BY <2>1, <2>2, CountIsCovered, Zenon DEF TurnsInv, Reload, sessionRow
  <2> QED
    BY <1>2, <2>1, <2>2, <2>3, Zenon
       DEF NoHole, Reload, Advance, TurnsInv, TurnsTypeOK, Holding, ReloadIndex, sessionRow
<1> QED
  BY <1>2, <1>3, <1>4, Zenon DEF TurnsInv

LEMMA CacheNextKeeps ==
  ASSUME TurnsAssumption, TurnsInv, NEW q \in TurnRequests, CacheNext(q)
  PROVE  TurnsInv'
<1>1. PICK to \in {"done"} : Advance(q, to)
  BY Zenon DEF CacheNext
<1>2. Counts' /\ Recorded' /\ Indexes' = Indexes
  BY <1>1, QuietKeeps, Zenon DEF CacheNext, Past, sessionRow, TurnsInv, TurnsTypeOK
<1>3. TurnsTypeOK'
  BY
     DEF TurnsInv, TurnsTypeOK, TurnsAssumption, CacheNext, Advance, sessionRow, CacheSet, CacheFault
<1>4. ASSUME failures' = 0 PROVE NoHole'
  <2>1. NoHole
    BY <1>4, Zenon DEF TurnsInv, CacheNext
  <2>2. \A n : UpTo(n) => UpTo(n)'
    BY <1>2, StaysCovered, Zenon DEF CacheNext, Advance, TurnsInv, TurnsTypeOK, Holding
  <2>3. UpTo(turn[q] + 1)'
    BY <1>2, <2>1, <2>2
       DEF NoHole, UpTo, Covered, CacheNext, Advance, TurnsInv, TurnsTypeOK, Holding, Recorded
  <2> QED
    BY <1>2, <2>1, <2>2, <2>3, Zenon
       DEF NoHole, CacheNext, Advance, TurnsInv, TurnsTypeOK, Holding, CacheSet, CacheFault
<1> QED
  BY <1>2, <1>3, <1>4, Zenon DEF TurnsInv

\* The index of a request is on record: the request lets go of it.
LEMMA TakenKeeps ==
  ASSUME TurnsInv, NEW q \in TurnRequests, NEW to \in {"duplicate", "lost"},
         reqPc[q] \in {"append", "reappend"}, Taken(q), Advance(q, to),
         UNCHANGED <<sessionRow, cache, turn, sweeping, cacheFaults, failures>>
  PROVE  TurnsInv'
<1>1. Counts' /\ Recorded' /\ Indexes' = Indexes
  BY QuietKeeps, Zenon DEF Past, sessionRow
<1>2. TurnsTypeOK'
  BY Zenon DEF TurnsInv, TurnsTypeOK, Advance, sessionRow
<1>3. ASSUME failures' = 0 PROVE NoHole'
  <2>1. NoHole
    BY <1>3, Zenon DEF TurnsInv
  <2>2. \A n : UpTo(n) => UpTo(n)'
    BY <1>1, StaysCovered, Zenon DEF Taken, Advance, TurnsInv, TurnsTypeOK, Holding
  <2> QED
    BY <1>1, <2>1, <2>2, Zenon DEF NoHole, Advance, TurnsInv, TurnsTypeOK, Holding
<1> QED
  BY <1>1, <1>2, <1>3, Zenon DEF TurnsInv

\* The checkpoint of a request is written; the request may not learn of it.
LEMMA WrittenKeeps ==
  ASSUME TurnsInv, NEW q \in TurnRequests, NEW to \in {"recorded", "unrecorded"},
         reqPc[q] \in {"append", "reappend"}, ~Taken(q), Record(q), Advance(q, to),
         UNCHANGED <<cache, turn, sweeping, cacheFaults>>,
         failures' \in 0..MaxFailures, failures' = 0 => failures = 0
  PROVE  TurnsInv'
<1>1. \A c \in checkpoints : c.by # q
  BY Zenon DEF TurnsInv, Recorded
<1>2. /\ Counts' /\ Indexes' = Indexes \cup {turn[q]}
      /\ count' \in Nat /\ checkpoints' \subseteq CheckpointRow
  BY <1>1, RecordKeeps, Zenon DEF TurnsInv
<1>3. TurnsTypeOK'
  BY <1>2, Zenon DEF TurnsInv, TurnsTypeOK, Advance, Record
<1>4. Recorded'
  BY <1>2 DEF TurnsInv, TurnsTypeOK, Recorded, Advance, Record, CheckpointRow
<1>5. ASSUME failures' = 0 PROVE NoHole'
  <2>1. NoHole
    BY <1>5, Zenon DEF TurnsInv
  <2>2. \A n : UpTo(n) => UpTo(n)'
    BY <1>2, StaysCovered, Zenon DEF Advance, TurnsInv, TurnsTypeOK, Holding
  <2>3. UpTo(turn[q])
    BY <2>1, Zenon DEF NoHole, Holding
  <2> QED
    BY <1>2, <2>1, <2>2, <2>3, Zenon DEF NoHole, Advance, TurnsInv, TurnsTypeOK, Holding
<1> QED
  BY <1>2, <1>3, <1>4, <1>5, Zenon DEF TurnsInv

LEMMA AppendKeeps ==
  ASSUME TurnsInv, NEW q \in TurnRequests, AppendTurn(q) \/ Reappend(q)
  PROVE  TurnsInv'
<1>1. CASE Taken(q)
  BY <1>1, TakenKeeps, Zenon DEF AppendTurn, Reappend
<1>2. CASE ~Taken(q)
  BY <1>2, WrittenKeeps, Zenon DEF AppendTurn, Reappend, TurnsInv, TurnsTypeOK
<1> QED
  BY <1>1, <1>2, Zenon

LEMMA CheckpointFailsKeeps ==
  ASSUME TurnsAssumption, TurnsInv, NEW q \in TurnRequests, CheckpointFails(q)
  PROVE  TurnsInv'
<1>1. failures' \in 0..MaxFailures /\ failures' # 0
  BY DEF CheckpointFails, Failure, TurnsInv, TurnsTypeOK, TurnsAssumption
<1>2. CASE UNCHANGED sessionRow
  <2>1. Counts' /\ Recorded'
    BY <1>2, QuietKeeps, Zenon DEF CheckpointFails, Past, sessionRow
  <2>2. TurnsTypeOK'
    BY <1>1, <1>2, Zenon DEF CheckpointFails, TurnsInv, TurnsTypeOK, Advance, sessionRow
  <2> QED
    BY <1>1, <2>1, <2>2, Zenon DEF TurnsInv
<1>3. CASE reqPc[q] # "reload" /\ ~Taken(q) /\ Record(q)
  BY <1>1, <1>3, WrittenKeeps, Zenon DEF CheckpointFails
<1> QED
  BY <1>2, <1>3, Zenon DEF CheckpointFails

\* The session ends, or its cache entry goes.
LEMMA SessionStepKeeps ==
  ASSUME TurnsAssumption, TurnsInv,
         CompleteSession \/ AbandonIdle \/ InvalidateAbandoned \/ CacheExpires
  PROVE  TurnsInv'
<1>1. UNCHANGED <<count, checkpoints, reqPc, turn, failures>>
  BY Zenon
     DEF CompleteSession, AbandonIdle, InvalidateAbandoned, CacheExpires, sessionRow
<1>2. cache' \in {cache, NoTurn}
  BY Zenon DEF CompleteSession, AbandonIdle, InvalidateAbandoned, CacheExpires, CacheSet
<1>3. TurnsTypeOK'
  <2>1. sweeping' \in BOOLEAN
    BY Zenon
       DEF CompleteSession, AbandonIdle, InvalidateAbandoned, CacheExpires, TurnsInv, TurnsTypeOK
  <2>2. cacheFaults' \in 0..MaxCacheFaults
    BY
       DEF CompleteSession, AbandonIdle, InvalidateAbandoned, CacheExpires, CacheSet, CacheFault,
           TurnsInv, TurnsTypeOK, TurnsAssumption
  <2>3. sessionStatus' \in {sessionStatus, "completed", "abandoned"}
    BY Zenon
       DEF CompleteSession, AbandonIdle, InvalidateAbandoned, CacheExpires, sessionRow
  <2> QED
    BY <1>1, <1>2, <2>1, <2>2, <2>3, Zenon DEF TurnsInv, TurnsTypeOK
<1>4. Indexes' = Indexes /\ Authors' = Authors
  BY <1>1, Zenon DEF Indexes, Authors
<1>5. Counts' /\ Recorded'
  BY <1>1, <1>4, Zenon DEF TurnsInv, Counts, CountIsCheckpoints, Recorded, Authors
<1>6. ASSUME failures' = 0 PROVE NoHole'
  <2>1. NoHole
    BY <1>1, <1>6, Zenon DEF TurnsInv
  <2>2. \A n : UpTo(n) => UpTo(n)'
    BY <1>1, <1>4, StaysCovered, Zenon
  <2> QED
    BY <1>1, <1>2, <1>4, <2>1, <2>2, Zenon DEF NoHole
<1> QED
  BY <1>3, <1>5, <1>6, Zenon DEF TurnsInv

LEMMA TurnsInitially == TurnsAssumption /\ TurnsInit => TurnsInv
<1> SUFFICES ASSUME TurnsAssumption, TurnsInit PROVE TurnsInv
  OBVIOUS
<1>1. checkpoints = {} /\ Indexes = {} /\ Authors = {} /\ count = 0
  BY Zenon DEF TurnsInit, Indexes, Authors
<1>2. Counts
  BY <1>1, FS_EmptySet, Zenon DEF Counts, CountIsCheckpoints, Authors
<1>3. TurnsTypeOK
  <2>1. sweeping \in BOOLEAN
    BY Zenon DEF TurnsInit
  <2> QED
    BY <2>1 DEF TurnsInit, TurnsTypeOK, TurnsAssumption
<1>4. Recorded /\ NoHole
  BY <1>1, Zenon DEF TurnsInit, Recorded, NoHole, Holding
<1> QED
  BY <1>2, <1>3, <1>4, Zenon DEF TurnsInv

LEMMA TurnsStep == TurnsAssumption /\ TurnsInv /\ [TurnsNext]_turnsVars => TurnsInv'
<1> SUFFICES ASSUME TurnsAssumption, TurnsInv, [TurnsNext]_turnsVars PROVE TurnsInv'
  OBVIOUS
<1>1. ASSUME NEW q \in TurnRequests, Resolve(q) PROVE TurnsInv'
  BY <1>1, CacheGetKeeps, ReserveTurnKeeps, LookupKeeps, InsertKeeps, CacheTurnKeeps, Zenon
     DEF Resolve
<1>2. ASSUME NEW q \in TurnRequests, RunCheckpoint(q) PROVE TurnsInv'
  BY <1>2, AppendKeeps, InvalidateKeeps, ReloadKeeps, CacheNextKeeps, Zenon
     DEF RunCheckpoint
<1>3. ASSUME NEW q \in TurnRequests, ResolveFails(q) \/ ProviderFails(q) \/ Complete(q)
      PROVE  TurnsInv'
  BY <1>3, ResolveFailsKeeps, ProviderFailsKeeps, CompleteKeeps, Zenon
<1>4. ASSUME NEW q \in TurnRequests, CheckpointFails(q) PROVE TurnsInv'
  BY <1>4, CheckpointFailsKeeps, Zenon
<1>5. CASE CompleteSession \/ AbandonIdle \/ InvalidateAbandoned \/ CacheExpires
  BY <1>5, SessionStepKeeps, Zenon
<1>6. CASE UNCHANGED turnsVars
  <2>1. Indexes' = Indexes /\ Authors' = Authors /\ UNCHANGED <<count, checkpoints, reqPc, turn>>
    BY <1>6, Zenon DEF turnsVars, sessionRow, Indexes, Authors
  <2>2. Counts' /\ Recorded' /\ TurnsTypeOK'
    BY <1>6, <2>1, Zenon
       DEF turnsVars, sessionRow, TurnsInv, Counts, CountIsCheckpoints, Recorded,
                      Authors, TurnsTypeOK
  <2>3. \A n : UpTo(n) => UpTo(n)'
    BY <2>1, StaysCovered, Zenon
  <2> QED
    BY <1>6, <2>1, <2>2, <2>3, Zenon DEF TurnsInv, NoHole, turnsVars
<1> QED
  BY <1>1, <1>2, <1>3, <1>4, <1>5, <1>6, Zenon DEF TurnsNext

\* An end is final (completeInTx, abandonIdleSQL).
LEMMA EndStays ==
  ASSUME [TurnsNext]_turnsVars, sessionStatus \in {"completed", "abandoned"}
  PROVE  sessionStatus' = sessionStatus
<1>1. ASSUME NEW q \in TurnRequests, Resolve(q) \/ ResolveFails(q)
      PROVE  sessionStatus' = sessionStatus
  BY <1>1, Zenon
     DEF Resolve, CacheGet, Reserve, Lookup, Insert, CacheTurn, ResolveFails, sessionRow
<1>2. ASSUME NEW q \in TurnRequests,
             ProviderFails(q) \/ Complete(q) \/ RunCheckpoint(q) \/ CheckpointFails(q)
      PROVE  sessionStatus' = sessionStatus
  BY <1>2, Zenon
     DEF ProviderFails, Complete, RunCheckpoint, AppendTurn, Invalidate, Reload, Reappend,
              CacheNext, CheckpointFails, Record, sessionRow
<1>3. CASE CompleteSession \/ AbandonIdle \/ InvalidateAbandoned \/ CacheExpires
  BY <1>3, Zenon
     DEF CompleteSession, AbandonIdle, InvalidateAbandoned, CacheExpires, MayEnd, sessionRow
<1>4. CASE UNCHANGED turnsVars
  BY <1>4, Zenon DEF turnsVars, sessionRow
<1> QED
  BY <1>1, <1>2, <1>3, <1>4, Zenon DEF TurnsNext

\* The turn count of a session is the number of its checkpoints, no two with one
\* index or of one request; gaps come from failed turns only; an end is final,
\* for any number of requests and failures (checkpoint.go, lifecycle.go,
\* sweeper.go).
THEOREM TurnsTheorem == ASSUME TurnsAssumption PROVE TurnsSpec => TurnsAreCounted
<1>1. TurnsInit => TurnsInv
  BY TurnsInitially, Zenon
<1>2. TurnsInv /\ [TurnsNext]_turnsVars => TurnsInv'
  BY TurnsStep, Zenon
<1>3. TurnsInv => CountIsCheckpoints /\ GapsAreFailures
  BY NoHoleNoGap, Zenon DEF TurnsInv, Counts
<1>4. [TurnsNext]_turnsVars =>
        [(sessionStatus \in {"completed", "abandoned"}) => sessionStatus' = sessionStatus]_turnsVars
  BY EndStays, Zenon
<1> QED
  BY <1>1, <1>2, <1>3, <1>4, PTL DEF TurnsSpec, TurnsAreCounted, EndIsFinal
=============================================================================
