-------------------------- MODULE OperatorDetails --------------------------
(***************************************************************************)
(* The detail and summary reads of the operator surface: one session, one  *)
(* memory with its lineage, one evidence run, the evidence summary and the *)
(* deletion evidence.  Each is several statements in one READ COMMITTED    *)
(* transaction, so every statement sees what has been committed before it  *)
(* and the answer mixes moments.  The writers are the transactions other   *)
(* modules specify, reduced to the columns that are read here.             *)
(***************************************************************************)
EXTENDS Integers, FiniteSets, FiniteSetsExt, SequencesExt

CONSTANTS
  Mems,        \* memories 1..n; the request is about memory 1
  Stores,      \* stores an erasure has to confirm
  Sections,    \* child tables of an evidence run
  Ledgers,     \* audit chains a request may find
  MaxTurns,    \* MAX_SESSION_TURNS
  EdgeLimit,   \* _LINEAGE_EDGE_LIMIT
  JobsLimit,   \* JOBS_LIMIT
  MaxWrites    \* bound of the writes beside one request

DetailsAssumption ==
  /\ Mems = 1..Cardinality(Mems) /\ IsFiniteSet(Stores) /\ IsFiniteSet(Sections)
  /\ {MaxTurns, EdgeLimit, JobsLimit, MaxWrites} \subseteq Nat

Null == 0
Kinds == {"session", "memory", "run", "summary", "deletions"}
Genesis == "genesis"

VARIABLES
  kind,     \* the read this behaviour is about
  pc,       \* its next statement
  got,      \* what the statements returned so far
  session,  \* [live, turns]: turn_count and the checkpoints change together
  mem,      \* memory -> [here, by, tomb]; here: of the caller's organisation
  edges,    \* supersedes edges <<successor, predecessor>>, oldest first
  run,      \* [live, children]: the run and its non-empty child tables
  outbox,   \* delivery status of each outbox row of the run's request
  runs,     \* evidence runs of the window: sequence of completeness values
  policies, \* capture policies: sequence of [agent, mode] by priority
  hold,     \* is a legal hold active
  events,   \* deletion events: [recent, delivered]
  jobs,     \* erasure jobs, oldest first: [status, receipts]
  ledger,   \* the audit chain: sequence of [seq, prev, hash]
  began,    \* the tables when the request began
  writes

request == <<kind, pc, got, began>>
tables == <<session, mem, edges, run, outbox, runs, policies, hold, events, jobs, ledger>>
vars == <<kind, pc, got, began, tables, writes>>

Take(s, n) == SubSeq(s, 1, IF Len(s) > n THEN n ELSE Len(s))
Newest(s, n) == Take(Reverse(s), n)
CountOf(s, v) == Cardinality({i \in 1..Len(s) : s[i] = v})

Statement(at, next, column, value) ==
  /\ pc = at /\ pc' = next
  /\ got' = [got EXCEPT ![column] = value]
  /\ UNCHANGED <<kind, began, tables, writes>>

NotFound == pc' = "not_found" /\ UNCHANGED <<kind, got, began, tables, writes>>
\* A statement that fails or exceeds statement_timeout: SERVICE_DEGRADED.
Degraded == /\ pc \in {"run", "publication", "children", "audit"} /\ writes < MaxWrites
            /\ writes' = writes + 1 /\ pc' = "degraded"
            /\ UNCHANGED <<kind, got, began, tables>>

----------------------------------------------------------------------------
(* One session with its turns *)

ReadSession ==
  \/ pc = "session" /\ ~session.live /\ NotFound
  \/ session.live /\ Statement("session", "turns", "header", session.turns)

\* One turn more than is shown tells whether the list was cut.
ReadTurns ==
  Statement("turns", "done", "turns",
            [shown |-> IF session.turns > MaxTurns THEN MaxTurns ELSE session.turns,
             truncated |-> session.turns > MaxTurns])

----------------------------------------------------------------------------
(* One memory with its lineage *)

ReadMemory ==
  \/ pc = "memory" /\ ~mem[1].here /\ NotFound
  \/ mem[1].here /\ Statement("memory", "tip", "by", mem[1].by)

\* resolve_supersession_tip follows the edges; the depth limit is above the chain here.
TipOf(m) ==
  LET walk[d \in 0..Cardinality(Mems)] ==
        IF d = 0 THEN m
        ELSE LET nexts == {edges[i][1] : i \in {i \in 1..Len(edges) : edges[i][2] = walk[d - 1]}}
             IN  IF nexts = {} THEN walk[d - 1] ELSE Min(nexts)
  IN  walk[Cardinality(Mems)]
ReadTip == Statement("tip", "out_edges", "tip", TipOf(1))

\* The other end of an edge is joined from memories with its state.
EdgeStatement(from, to) ==
  LET mine == SelectSeq(edges, LAMBDA e : e[from] = 1)
  IN  Newest([i \in 1..Len(mine) |-> [id |-> mine[i][to], tomb |-> mem[mine[i][to]].tomb]],
             EdgeLimit + 1)
EdgeRows(rows) == [edges |-> Take(rows, EdgeLimit), truncated |-> Len(rows) > EdgeLimit]

ReadOutEdges == Statement("out_edges", "in_edges", "replaces", EdgeRows(EdgeStatement(1, 2)))
ReadInEdges == Statement("in_edges", "targets", "replaced", EdgeRows(EdgeStatement(2, 1)))

\* The state of the pointer targets, in one statement after the pointers were read.
TargetStatement(ids) == [m \in ids |-> mem[m].tomb]

ReadTargets == Statement("targets", "done", "targets",
                         TargetStatement({got.by, got.tip} \ {Null}))

----------------------------------------------------------------------------
(* One evidence run with its publication state and its children *)

ReadRun ==
  \/ pc = "run" /\ ~run.live /\ NotFound
  \/ run.live /\ Statement("run", "publication", "run", TRUE)

IsPoison(u) == "poison" \in u
IsPublished(u) == u = {"delivered"}
IsPending(u) == u # {} /\ u \subseteq {"pending", "in_flight"}
IsFailedOnly(u) == "failed" \in u /\ u \intersect {"pending", "in_flight", "delivered"} = {}
IsPartial(u) == u \intersect {"failed", "delivered", "pending", "in_flight"} # {}

\* The first rule that applies.
PublicationState(u) ==
  CASE IsPoison(u)     -> "poison"
    [] ~IsPoison(u) /\ IsPublished(u)  -> "published"
    [] ~IsPoison(u) /\ IsPending(u)    -> "pending"
    [] ~IsPoison(u) /\ IsFailedOnly(u) -> "failed"
    [] ~IsPoison(u) /\ ~IsPublished(u) /\ ~IsPending(u) /\ ~IsFailedOnly(u) /\ IsPartial(u)
         -> "partial"
    [] OTHER -> "unavailable"

\* The watermark is the highest sequence number delivered.
MetaForEntries(rows) ==
  LET delivered == {i \in 1..Len(rows) : rows[i] = "delivered"}
  IN  [state |-> PublicationState(Range(rows)),
       watermark |-> IF delivered = {} THEN Null ELSE Max(delivered)]
MapPublication(rows) ==
  IF rows = <<>> THEN [state |-> "unavailable", watermark |-> Null] ELSE MetaForEntries(rows)

ReadPublication == Statement("publication", "children", "publication", MapPublication(outbox))

LoadSpans == run.children \intersect {"spans"}
LoadAssembly == run.children \intersect {"assembly"}
LoadCandidates == run.children \intersect {"candidates"}
LoadDirective == run.children \intersect {"directives"}
LoadTools == run.children \intersect {"tools"}
Loaders == <<LoadSpans, LoadAssembly, LoadCandidates, LoadDirective, LoadTools>>

\* The five child statements, one after the other.
LoadRunChildren ==
  /\ pc = "children"
  /\ LET i == got.loaded + 1
     IN  /\ got' = [got EXCEPT !.loaded = i, !.children = @ \union Loaders[i]]
         /\ pc' = IF i = Len(Loaders) THEN "done" ELSE "children"
  /\ UNCHANGED <<kind, began, tables, writes>>

UnavailableSections == Sections \ got.children

----------------------------------------------------------------------------
(* The evidence summary: four statements that are deliberately not joined *)

CompletenessValues == {"complete", "partial", "late"}
CountedRunRows(rows) == SelectSeq(rows, LAMBDA c : c \in CompletenessValues)
CompletenessCounts(rows) == [c \in CompletenessValues |-> CountOf(CountedRunRows(rows), c)]
ReadRuns == Statement("runs", "delivery", "runs", CompletenessCounts(runs))

Undelivered == {"pending", "in_flight", "failed", "poison"}
DeliveryStatuses == Undelivered \union {"delivered"}
DeliveryCounts(rows) == [s \in DeliveryStatuses |-> CountOf(rows, s)]
\* min(created_at) over the undelivered rows.
OldestUnsettled(rows) ==
  LET unsettled == {i \in 1..Len(rows) : rows[i] \in Undelivered}
  IN  IF unsettled = {} THEN Null ELSE Min(unsettled)
ReadDelivery == Statement("delivery", "policy", "delivery",
                          [counts |-> DeliveryCounts(outbox), oldest |-> OldestUnsettled(outbox)])

\* The organisation's own row speaks for it; the rows of agents are only counted.
CapturePolicy(rows) ==
  LET own == SelectSeq(rows, LAMBDA p : ~p.agent)
  IN  [mode |-> IF own = <<>> THEN "none" ELSE Head(own).mode,
       overrides |-> Len(rows) - Len(own)]
ReadPolicy == Statement("policy", "hold", "policy", CapturePolicy(policies))
ReadHold == Statement("hold", "done", "hold", hold)

----------------------------------------------------------------------------
(* The deletion evidence *)

TombstoneEvents == Cardinality({i \in 1..Len(events) : events[i].recent})
ReadTombstones == Statement("tombstones", "backlog", "tombstones", TombstoneEvents)

\* Faulty variant: the backlog of the window only.
BacklogOfWindow == Cardinality({i \in 1..Len(events) : events[i].recent /\ ~events[i].delivered})
\* Whatever the window, events of any age that were not delivered.
Backlog == Cardinality({i \in 1..Len(events) : ~events[i].delivered})

ReadBacklog == Statement("backlog", "fence", "backlog", Backlog)

TombstonedMemories == Cardinality({m \in Mems : mem[m].tomb})
ReadFence == Statement("fence", "erasures", "fence", TombstonedMemories)

ErasureCounts == [s \in {"pending", "running", "succeeded", "failed"} |->
                    Cardinality({j \in 1..Len(jobs) : jobs[j].status = s})]
ReadErasures == Statement("erasures", "jobs", "erasures", ErasureCounts)

\* Newest first, one more than is shown; without a job the receipts are not read.
ReadJobs ==
  LET rows == Newest([j \in 1..Len(jobs) |-> [id |-> j, status |-> jobs[j].status]], JobsLimit + 1)
  IN  Statement("jobs", IF rows = <<>> THEN "audit" ELSE "receipts", "jobs",
                [shown |-> Take(rows, JobsLimit), truncated |-> Len(rows) > JobsLimit])

ReceiptsOf(ids) == [j \in ids |-> jobs[j].receipts]
ReadReceipts == Statement("receipts", "audit", "receipts",
                          ReceiptsOf({got.jobs.shown[i].id : i \in 1..Len(got.jobs.shown)}))

\* lag() over seq: the entries that do not follow the one before them.
FirstBreak(rows) ==
  LET breaks == {rows[i].seq : i \in {i \in 2..Len(rows) :
                   \/ rows[i].seq # rows[i - 1].seq + 1
                   \/ rows[i].prev # rows[i - 1].hash}}
  IN  IF breaks = {} THEN Null ELSE Min(breaks)

\* Faulty variant: a chain whose beginning is gone passes.
AuditFromRowTail(rows) ==
  [entries |-> Len(rows), ok |-> FirstBreak(rows) = Null, broken |-> FirstBreak(rows)]
\* Continuous only if it starts at 1 and links to the genesis hash.
AuditFromRow(rows) ==
  IF rows = <<>> THEN [entries |-> 0, ok |-> TRUE, broken |-> Null]
  ELSE IF rows[1].seq # 1 \/ rows[1].prev # Genesis
       THEN [entries |-> Len(rows), ok |-> FALSE, broken |-> rows[1].seq]
       ELSE [entries |-> Len(rows), ok |-> FirstBreak(rows) = Null, broken |-> FirstBreak(rows)]

\* One statement, so that totals, break and head are of one moment.
ReadAudit == /\ Statement("audit", "done", "audit", [verdict |-> AuditFromRow(ledger),
                                                     ledger |-> ledger])

----------------------------------------------------------------------------
(* Transactions of the rest of the system *)

Answered == pc \in {"done", "not_found", "degraded"}
Write(k) == /\ kind = k /\ ~Answered /\ writes < MaxWrites
            /\ writes' = writes + 1 /\ UNCHANGED request

AppendTurn == /\ Write("session") /\ session.live /\ session' = [session EXCEPT !.turns = @ + 1]
              /\ UNCHANGED <<mem, edges, run, outbox, runs, policies, hold, events, jobs, ledger>>
DeleteSession == /\ Write("session") /\ session.live /\ session' = [session EXCEPT !.live = FALSE]
                 /\ UNCHANGED <<mem, edges, run, outbox, runs, policies, hold, events, jobs, ledger>>

\* A new memory supersedes an old one that nothing has superseded.
Supersede(new, old) ==
  /\ Write("memory") /\ new > old /\ mem[old].by = Null /\ ~mem[new].tomb
  /\ mem' = [mem EXCEPT ![old].by = new]
  /\ edges' = Append(edges, <<new, old>>)
  /\ UNCHANGED <<session, run, outbox, runs, policies, hold, events, jobs, ledger>>

Forget(m) ==
  /\ Write("memory") /\ ~mem[m].tomb /\ mem' = [mem EXCEPT ![m].tomb = TRUE]
  /\ UNCHANGED <<session, edges, run, outbox, runs, policies, hold, events, jobs, ledger>>

\* A relay moves a row; delivered and poison are final (EvidenceOutbox).
Relay(i, s) ==
  /\ Write(kind) /\ kind \in {"run", "summary"} /\ i \in 1..Len(outbox)
  /\ <<outbox[i], s>> \in {<<"pending", "in_flight">>, <<"failed", "in_flight">>,
                            <<"in_flight", "delivered">>, <<"in_flight", "failed">>,
                            <<"in_flight", "poison">>}
  /\ outbox' = [outbox EXCEPT ![i] = s]
  /\ UNCHANGED <<session, mem, edges, run, runs, policies, hold, events, jobs, ledger>>

\* The purge of the organisation removes run, children and outbox rows.
PurgeRun == /\ Write("run") /\ run.live /\ run' = [live |-> FALSE, children |-> {}]
            /\ outbox' = <<>>
            /\ UNCHANGED <<session, mem, edges, runs, policies, hold, events, jobs, ledger>>

PersistRun == /\ Write("summary") /\ \E c \in CompletenessValues : runs' = Append(runs, c)
              /\ outbox' = Append(outbox, "pending")
              /\ UNCHANGED <<session, mem, edges, run, policies, hold, events, jobs, ledger>>
ToggleHold == /\ Write("summary") /\ hold' = ~hold
              /\ UNCHANGED <<session, mem, edges, run, outbox, runs, policies, events, jobs, ledger>>

Tombstone(m) == /\ Write("deletions") /\ ~mem[m].tomb /\ mem' = [mem EXCEPT ![m].tomb = TRUE]
                /\ events' = Append(events, [recent |-> TRUE, delivered |-> FALSE])
                /\ UNCHANGED <<session, edges, run, outbox, runs, policies, hold, jobs, ledger>>
DeliverEvent(i) == /\ Write("deletions") /\ i \in 1..Len(events) /\ ~events[i].delivered
                   /\ events' = [events EXCEPT ![i].delivered = TRUE]
                   /\ UNCHANGED <<session, mem, edges, run, outbox, runs, policies, hold, jobs, ledger>>

StartJob == /\ Write("deletions") /\ jobs' = Append(jobs, [status |-> "running", receipts |-> {}])
            /\ UNCHANGED <<session, mem, edges, run, outbox, runs, policies, hold, events, ledger>>
\* A store is erased and verified; the job succeeds with the last receipt (OrgDeletion).
VerifyStore(j, s) ==
  /\ Write("deletions") /\ j \in 1..Len(jobs)
  /\ jobs[j].status = "running" /\ s \notin jobs[j].receipts
  /\ jobs' = [jobs EXCEPT ![j].receipts = @ \union {s}]
  /\ UNCHANGED <<session, mem, edges, run, outbox, runs, policies, hold, events, ledger>>
FinishJob(j) ==
  /\ Write("deletions") /\ j \in 1..Len(jobs)
  /\ jobs[j].status = "running" /\ jobs[j].receipts = Stores
  /\ jobs' = [jobs EXCEPT ![j].status = "succeeded"]
  /\ UNCHANGED <<session, mem, edges, run, outbox, runs, policies, hold, events, ledger>>

AppendAudit ==
  /\ Write("deletions")
  /\ LET n == Len(ledger) IN
       ledger' = Append(ledger, [seq  |-> IF n = 0 THEN 1 ELSE ledger[n].seq + 1,
                                 prev |-> IF n = 0 THEN Genesis ELSE ledger[n].hash,
                                 hash |-> "new"])
  /\ UNCHANGED <<session, mem, edges, run, outbox, runs, policies, hold, events, jobs>>

----------------------------------------------------------------------------
FirstOf(k) == CASE k = "session" -> "session" [] k = "memory" -> "memory"
                [] k = "run" -> "run" [] k = "summary" -> "runs" [] OTHER -> "tombstones"
Nothing == [header |-> Null, turns |-> Null, by |-> Null, tip |-> Null, replaces |-> Null,
            replaced |-> Null, targets |-> Null, run |-> Null, publication |-> Null,
            children |-> {}, loaded |-> 0, runs |-> Null, delivery |-> Null, policy |-> Null,
            hold |-> FALSE, tombstones |-> 0, backlog |-> 0, fence |-> 0, erasures |-> Null,
            jobs |-> Null, receipts |-> Null, audit |-> Null]

\* Whatever the other transactions have left before the request arrives.
Init ==
  /\ kind \in Kinds /\ pc = FirstOf(kind) /\ got = Nothing /\ writes = 0
  /\ session = [live |-> TRUE, turns |-> 1]
  /\ \E own \in (IF kind = "memory" THEN BOOLEAN ELSE {TRUE}) :
       mem = [m \in Mems |-> [here |-> own, by |-> Null, tomb |-> FALSE]]
  /\ edges = <<>>
  /\ run = [live |-> TRUE, children |-> Sections \ {"tools"}]
  /\ outbox \in (IF kind \in {"run", "summary"}
                 THEN {<<"in_flight", "pending">>, <<"delivered", "in_flight">>} ELSE {<<>>})
  /\ runs = <<"complete", "late">>
  /\ policies = <<[agent |-> TRUE, mode |-> "full"], [agent |-> FALSE, mode |-> "metadata"]>>
  /\ hold = FALSE
  /\ events \in (IF kind = "deletions"
                 THEN {<<>>, <<[recent |-> FALSE, delivered |-> FALSE]>>} ELSE {<<>>})
  /\ jobs = IF kind = "deletions" THEN <<[status |-> "running", receipts |-> Stores \ {"redis"}]>>
            ELSE <<>>
  /\ ledger \in (IF kind = "deletions" THEN Ledgers ELSE {<<>>})
  /\ began = [mem |-> mem, events |-> Len(events), turns |-> session.turns]

\* A request of a later moment sees the tables as they are when it begins.
Begin == /\ pc = FirstOf(kind) /\ began' = [mem |-> mem, events |-> Len(events), turns |-> session.turns]
         /\ began' # began
         /\ UNCHANGED <<kind, pc, got, tables, writes>>

Next ==
  \/ Begin \/ ReadSession \/ ReadTurns \/ ReadMemory \/ ReadTip \/ ReadOutEdges \/ ReadInEdges
  \/ ReadTargets \/ ReadRun \/ ReadPublication \/ LoadRunChildren
  \/ ReadRuns \/ ReadDelivery \/ ReadPolicy \/ ReadHold
  \/ ReadTombstones \/ ReadBacklog \/ ReadFence \/ ReadErasures \/ ReadJobs \/ ReadReceipts \/ ReadAudit
  \/ Degraded \/ AppendTurn \/ DeleteSession \/ PurgeRun \/ PersistRun \/ ToggleHold \/ StartJob \/ AppendAudit
  \/ \E m, n \in Mems : Supersede(m, n)
  \/ \E m \in Mems : Forget(m) \/ Tombstone(m)
  \/ \E i \in 1..Len(outbox), s \in DeliveryStatuses : Relay(i, s)
  \/ \E i \in 1..Len(events) : DeliverEvent(i)
  \/ \E j \in 1..Len(jobs) : FinishJob(j) \/ \E s \in Stores : VerifyStore(j, s)

Spec == Init /\ [][Next]_vars
----------------------------------------------------------------------------
(* Properties *)

\* An answer put together from several moments claims no more than was true.  A
\* session is shown with at least the turns its header counts, or says that the
\* list is cut.  A memory that was forgotten before the request began is not shown
\* as a live successor.  A run is called published only when every outbox row has
\* been delivered, and a section the answer does not carry is listed as missing.
\* An empty backlog means that every deletion event there was at the beginning
\* has been delivered.  A job shown as succeeded is shown with a receipt of every
\* store (operator_sessions.py:318, operator_memories.py:368,
\* operator_traces_publication.py:71, operator_evidence_deletions.py:131, :376).
NothingIsOverclaimed ==
  pc = "done" =>
    CASE kind = "session" ->
           /\ got.turns.truncated \/ got.turns.shown >= got.header
           /\ got.header >= began.turns
      [] kind = "memory" ->
           \A m \in DOMAIN got.targets : ~got.targets[m] => ~began.mem[m].tomb
      [] kind = "run" ->
           /\ got.publication.state = "published" =>
                \A i \in 1..Len(outbox) : outbox[i] = "delivered"
           /\ got.children \intersect UnavailableSections = {}
           /\ run.live => UnavailableSections = Sections \ run.children
      [] kind = "summary" ->
           /\ got.delivery.oldest = Null <=>
                \A s \in Undelivered : got.delivery.counts[s] = 0
           /\ got.policy = [mode |-> "metadata", overrides |-> 1]
      [] OTHER ->
           /\ got.backlog = 0 => \A i \in 1..began.events : events[i].delivered
           /\ \A i \in 1..Len(got.jobs.shown) :
                got.jobs.shown[i].status = "succeeded" =>
                  got.receipts[got.jobs.shown[i].id] = Stores

Continuous(rows) ==
  \A i \in 1..Len(rows) : /\ rows[i].seq = i
                          /\ rows[i].prev = IF i = 1 THEN Genesis ELSE rows[i - 1].hash

\* The verdict on the audit chain is the definition of a chain: continuous exactly
\* when entry i has number i and names the hash before it, the first one the
\* genesis hash; and what is named as broken is the first entry that fails this
\* (operator_evidence_deletions.py:329).
AuditVerdictIsExact ==
  pc = "done" /\ kind = "deletions" =>
    LET rows == got.audit.ledger  verdict == got.audit.verdict
        bad  == {i \in 1..Len(rows) :
                   \/ rows[i].seq # (IF i = 1 THEN 1 ELSE rows[i - 1].seq + 1)
                   \/ rows[i].prev # (IF i = 1 THEN Genesis ELSE rows[i - 1].hash)}
    IN  /\ verdict.ok <=> Continuous(rows)
        /\ verdict.ok \/ verdict.broken = rows[Min(bad)].seq
=============================================================================
