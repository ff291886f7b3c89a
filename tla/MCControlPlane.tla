--------------------------- MODULE MCControlPlane ---------------------------
(***************************************************************************)
(* The control plane: agents, the idempotency ledger, and the reads and    *)
(* the session of the operator console. The modules share no state, so a   *)
(* behaviour is about one of them (which); variables of the same name are  *)
(* shared.                                                                 *)
(***************************************************************************)
EXTENDS AgentLifecycle, IdempotencyLedger, OperatorSession, TLC

\* Agents: requests that meet on one agent, and creates that want one slug.
Row(slug, status) == [slug |-> slug, name |-> "n", status |-> status, deleted |-> FALSE]
SmallAgents == <<Row("s1", "active"), Row("s2", "paused")>>
Req(o, agent) == [op |-> o, agent |-> agent, ext |-> "", slug |-> "", name |-> "unset"]
Open(ext) == [Req("session", 1) EXCEPT !.ext = ext]
Create(slug) == [Req("create", 0) EXCEPT !.slug = slug, !.name = "n"]
Patch(name) == [Req("patch", 1) EXCEPT !.name = name]
SmallCases ==
  {<<Req("delete", 1), Open("x"), Open("x"), Open("")>>,
   <<Req("delete", 1), Req("pause", 1), Req("archive", 1), Patch("m")>>,
   <<Req("pause", 1), Req("activate", 1), Req("archive", 1), Req("get", 1)>>,
   <<Req("activate", 2), Req("archive", 2), Req("pause", 2), Req("delete", 2)>>,
   <<Create("s3"), Create("s3"), Create("s1"), Create("Bad Slug")>>,
   <<Patch("null"), Patch("oversized"), Patch("unset"), Req("delete", 1)>>,
   <<Req("delete", 1), Req("delete", 1), Req("get", 1), Open("x")>>}
AgentTexts == {"", "s1", "s2", "s3", "Bad Slug", "n", "m", "x", "unset", "null", "oversized"}
AnyCase == CHOOSE c \in SmallCases : TRUE

\* The ledger: a memory write and a chat request with one key, and their retries.
Writes == {"w1", "w2"}
Chats == {"q1", "q2"}
LedgerKey == [q \in Writes \cup Chats |-> "k"]
LedgerBody == [q \in Writes \cup Chats |-> IF q \in Writes THEN "write" ELSE "chat"]
FinalizeTries == [q \in Writes \cup Chats |-> IF q \in Chats THEN 1 ELSE 3]

\* Listings: five rows, two of one instant and two of one trace; pages of two.
ListRows == 1..5
ListTable == [r \in ListRows |->
  CASE r = 1 -> [org |-> "mine",  at |-> 1, trace |-> 2, id |-> 1]
    [] r = 2 -> [org |-> "mine",  at |-> 2, trace |-> 1, id |-> 3]
    [] r = 3 -> [org |-> "mine",  at |-> 2, trace |-> 1, id |-> 2]
    [] r = 4 -> [org |-> "mine",  at |-> 2, trace |-> 2, id |-> 1]
    [] OTHER -> [org |-> "other", at |-> 2, trace |-> 1, id |-> 5]]
ListRequests ==
  {[surface |-> s, status |-> f, after |-> 0, before |-> 0] :
     s \in {"agents", "sessions", "memories"}, f \in {"any", "ok"}}
  \union {[surface |-> "traces", status |-> f, after |-> a, before |-> b] :
     f \in {"any", "error"}, a \in {0, 1}, b \in {0, 2}}
  \union {[surface |-> "traces", status |-> "any", after |-> 2, before |-> 2],
          [surface |-> "runs", status |-> "any", after |-> 0, before |-> 0]}
ListStarts ==
  {[live |-> l, status |-> [r \in ListRows |-> IF r \in b THEN "bad" ELSE "ok"]] :
     l \in {{1, 2, 3, 5}, {2, 3, 4}, {1, 2, 3, 4, 5}}, b \in {{}, {2}, {3, 4}}}

\* Audit chains that are whole or have lost their first entry, one in the
\* middle, or the hash of a predecessor.
Link(s, p, x) == [seq |-> s, prev |-> p, hash |-> x]
Chains == {<<>>,
           <<Link(1, "genesis", "a"), Link(2, "a", "b")>>,
           <<Link(2, "a", "b"), Link(3, "b", "c")>>,
           <<Link(1, "a", "b"), Link(2, "b", "c")>>,
           <<Link(1, "genesis", "a"), Link(3, "b", "c")>>,
           <<Link(1, "genesis", "a"), Link(2, "x", "b"), Link(3, "y", "c")>>}

\* Operator sessions: four tabs of one browser.
Production == [env |-> "production", feature |-> TRUE, hmac |-> FALSE, keys |-> TRUE,
               csrf |-> TRUE, secure |-> TRUE, ca |-> TRUE]
Local == [env |-> "development", feature |-> TRUE, hmac |-> TRUE, keys |-> FALSE,
          csrf |-> TRUE, secure |-> FALSE, ca |-> FALSE]
LocalWithKeys == [Local EXCEPT !.keys = TRUE]
Mixed == [Production EXCEPT !.hmac = TRUE]       \* does not start
Off == [Production EXCEPT !.feature = FALSE]
NoTok == [form |-> "none"]
Tok(k, kid) ==
  [form |-> "jwt", kind |-> k, sid |-> 1, n |-> 1, alg |-> "RS256", kid |-> kid, iss |-> "ibex",
   perms |-> {"metadata_read", "legal_hold_manage"}]
Nop == [op |-> "none", pat |-> FALSE, step |-> NoTok]
Op(o) == [Nop EXCEPT !.op = o]
StepUp(n, action) == [form |-> "jwt", kind |-> "step_up", sid |-> 1, n |-> n,
                      alg |-> "RS256", kid |-> "v1", iss |-> "ibex", action |-> action]
HoldOp(n) == [op |-> "hold", pat |-> FALSE, step |-> StepUp(n, "legal_hold.manage")]
Unhold(n) == [HoldOp(n) EXCEPT !.op = "unhold"]
OtherAction(n) == [HoldOp(n) EXCEPT !.step.action = "operator.export"]
NoJar == [access |-> NoTok, refresh |-> NoTok, csrf |-> 0]
Jar(kid) == [access |-> Tok("access", kid), refresh |-> Tok("refresh", kid), csrf |-> 1]
Case(s, j, ops) ==
  [settings |-> s, jar |-> j, ops |-> ops,
   pairs |-> IF j = NoJar THEN <<>> ELSE <<[sid |-> 1, from |-> 0]>>]
OperatorCases ==
  { Case(Production, Jar("v1"), <<Op("refresh"), Op("refresh"), Op("logout"), Op("read")>>),
    Case(Production, Jar("v1"), <<HoldOp(1), HoldOp(1), Op("logout"), Nop>>),
    Case(Production, Jar("v1"), <<HoldOp(1), OtherAction(2), Unhold(3), Nop>>),
    Case(Production, NoJar, <<Op("login"), Op("login"), Op("refresh"), Nop>>),
    Case(Production, Jar("v1"), <<Op("login"), Op("refresh"), Op("logout"), Nop>>),
    Case(Production, Jar("v0"), <<Op("logout"), Op("login"), Op("me"), Nop>>),
    Case(Production, NoJar, <<[Op("me") EXCEPT !.pat = TRUE], Op("me"), Nop, Nop>>),
    Case(Local, NoJar, <<Op("login"), Op("refresh"), Op("me"), Op("logout")>>),
    Case(LocalWithKeys, Jar("v1"), <<Op("refresh"), HoldOp(1), Op("me"), Nop>>),
    Case(LocalWithKeys, Jar("v1"), <<Op("refresh"), Op("refresh"), Op("me"), HoldOp(1)>>),
    Case(Production, [Jar("v1") EXCEPT !.access = NoTok], <<Op("logout"), Op("me"), Nop, Nop>>),
    Case(Production, [Jar("v1") EXCEPT !.access.perms = {}], <<Op("read"), HoldOp(1), Nop, Nop>>),
    Case([LocalWithKeys EXCEPT !.hmac = FALSE], NoJar, <<Op("login"), Nop, Nop, Nop>>),
    Case(Mixed, Jar("v1"), <<Op("refresh"), Op("me"), Nop, Nop>>),
    Case(Off, NoJar, <<Op("login"), Op("me"), Nop, Nop>>) }

\* The event stream: events of two organisations for a client of one of them.
Message(data, org) == [data |-> data, org |-> org]
StreamMessages == <<Message("object", "a"), Message("text", "none"), Message("object", "a"),
                    Message("object", "b"), Message("object", "a"), Message("object", "a")>>
StreamOrg == [c \in {"c1", "c2"} |-> IF c = "c2" THEN "b" ELSE "a"]

\* Directives: two updated at one time, one of another organisation, histories
\* longer than the limit and a pointer rolled back beyond it.
Directive(org, agent, active, ptr, updated) ==
  [org |-> org, agent |-> agent, active |-> active, ptr |-> ptr, updated |-> updated]
Used(i, dd, n, recent) ==
  [id |-> i, org |-> "a", directive |-> dd, version |-> n, recent |-> recent]
DirectiveTables ==
  {[dir |-> <<Directive("a", 1, TRUE, 1, 5), Directive("a", 2, TRUE, 2, 5),
              Directive("b", 3, TRUE, 1, 6), Directive("a", 4, FALSE, 1, 4)>>,
    versions |-> <<4, 2, 1, 1>>,
    sessions |-> {Used(1, 1, 1, TRUE), Used(2, 1, 3, TRUE), Used(3, 1, 3, TRUE),
                  Used(4, 1, 4, FALSE), Used(5, 2, 2, TRUE)}]}
DirectiveQueries ==
  {[org |-> "a", state |-> s, agent |-> 0] : s \in {"all", "active", "inactive"}}
  \union {[org |-> "a", state |-> "all", agent |-> 2]}

VARIABLES
  which,   \* the component this behaviour is about
  life, status, now, query, cursor, listsPc, bounds, page, count, pages,
  steady, mixed, changes, kind, detailsPc, got, session, mem, edges, run,
  outbox, runs, policies, hold, events, jobs, ledger, began, writes, history,
  nextId, subs, queue, streamPc, who, todo, draining, tasks, pending, phase,
  fan, wire, emitted, conn, streamGot, all, discarded, trimmed, streamFaults,
  dir, versions, directivesSessions, clock, directivesWrites, touched, op,
  directivesQuery, directivesPc, directivesCursor, listed, target, d,
  directivesBegan

listsVars == <<life, status, now, query, cursor, listsPc, bounds, page, count,
               pages, steady, mixed, changes>>
detailsVars == <<kind, detailsPc, got, session, mem, edges, run, outbox, runs,
                 policies, hold, events, jobs, ledger, began, writes>>
streamVars == <<history, nextId, subs, queue, streamPc, who, todo, draining,
                tasks, pending, phase, fan, wire, emitted, conn, streamGot,
                all, discarded, trimmed, streamFaults>>
directivesVars == <<dir, versions, directivesSessions, clock,
                    directivesWrites, touched, op, directivesQuery,
                    directivesPc, directivesCursor, listed, target, d,
                    directivesBegan>>
mcvars == <<which, vars, ledgerVars, sessionVars, listsVars, detailsVars,
            streamVars, directivesVars>>

Lists == INSTANCE OperatorLists WITH
  Rows <- ListRows, Table <- ListTable, Statuses <- {"ok", "bad"}, MyOrg <-
  "mine", Requests <- ListRequests, Starts <- ListStarts, Limit <- 2, Window
  <- 2, MaxRange <- 3, LastTick <- 3, MaxChanges <- 2, pc <- listsPc

Details == INSTANCE OperatorDetails WITH
  Mems <- 1..3, Stores <- {"postgres", "redis"}, Sections <- {"spans",
  "assembly", "candidates", "directives", "tools"}, Ledgers <- Chains,
  MaxTurns <- 2, EdgeLimit <- 1, JobsLimit <- 1, MaxWrites <- 3, pc <-
  detailsPc

Stream == INSTANCE EventStream WITH
  Clients <- {"c1", "c2"}, OrgOf <- StreamOrg, Permitted <- {"c1"}, Streams <-
  1..3, Messages <- StreamMessages, QueueSize <- 2, HistoryLimit <- 3, pc <-
  streamPc, got <- streamGot, faults <- streamFaults

Directives == INSTANCE OperatorDirectives WITH
  Tables <- DirectiveTables, Queries <- DirectiveQueries, Limit <- 1,
  VersionsLimit <- 2, UsageLimit <- 2, MaxWrites <- 2, sessions <-
  directivesSessions, writes <- directivesWrites, query <- directivesQuery, pc
  <- directivesPc, cursor <- directivesCursor, began <- directivesBegan

-----------------------------------------------------------------------------
\* The variables of a component the behaviour is not about.
Unused == "unused"
OperatorListsUnused ==
  /\ life = Unused /\ status = Unused /\ now = Unused /\ query = Unused
  /\ cursor = Unused /\ listsPc = Unused /\ bounds = Unused /\ page = Unused
  /\ count = Unused /\ pages = Unused /\ steady = Unused /\ mixed = Unused
  /\ changes = Unused
OperatorDetailsUnused ==
  /\ kind = Unused /\ detailsPc = Unused /\ got = Unused /\ session = Unused
  /\ mem = Unused /\ edges = Unused /\ run = Unused /\ outbox = Unused
  /\ runs = Unused /\ policies = Unused /\ hold = Unused /\ events = Unused
  /\ jobs = Unused /\ ledger = Unused /\ began = Unused /\ writes = Unused
EventStreamUnused ==
  /\ history = Unused /\ nextId = Unused /\ subs = Unused /\ queue = Unused
  /\ streamPc = Unused /\ who = Unused /\ todo = Unused /\ draining = Unused
  /\ tasks = Unused /\ pending = Unused /\ phase = Unused /\ fan = Unused
  /\ wire = Unused /\ emitted = Unused /\ conn = Unused /\ streamGot = Unused
  /\ all = Unused /\ discarded = Unused /\ trimmed = Unused /\ streamFaults = Unused
OperatorDirectivesUnused ==
  /\ dir = Unused /\ versions = Unused /\ directivesSessions = Unused /\ clock = Unused
  /\ directivesWrites = Unused /\ touched = Unused /\ op = Unused /\ directivesQuery = Unused
  /\ directivesPc = Unused /\ directivesCursor = Unused /\ listed = Unused /\ target = Unused
  /\ d = Unused /\ directivesBegan = Unused

MCInit ==
  /\ which \in {"agents", "ledger", "session", "lists", "details", "stream", "directives"}
  /\ Init /\ (which # "agents" => requests = AnyCase)
  /\ LedgerInit
  /\ SessionInit /\ (which # "session" => settings = Off)
  /\ IF which = "lists" THEN Lists!Init ELSE OperatorListsUnused
  /\ IF which = "details" THEN Details!Init ELSE OperatorDetailsUnused
  /\ IF which = "stream" THEN Stream!Init ELSE EventStreamUnused
  /\ IF which = "directives" THEN Directives!Init ELSE OperatorDirectivesUnused

MCNext ==
  \/ which = "agents" /\ Next
       /\ UNCHANGED <<which, ledgerVars, sessionVars, listsVars, detailsVars,
                     streamVars, directivesVars>>
  \/ which = "ledger" /\ LedgerNext
       /\ UNCHANGED <<which, vars, sessionVars, listsVars, detailsVars,
                     streamVars, directivesVars>>
  \/ which = "session" /\ SessionNext
       /\ UNCHANGED <<which, vars, ledgerVars, listsVars, detailsVars,
                     streamVars, directivesVars>>
  \/ which = "lists" /\ Lists!Next
       /\ UNCHANGED <<which, vars, ledgerVars, sessionVars, detailsVars,
                     streamVars, directivesVars>>
  \/ which = "details" /\ Details!Next
       /\ UNCHANGED <<which, vars, ledgerVars, sessionVars, listsVars,
                     streamVars, directivesVars>>
  \/ which = "stream" /\ Stream!Next
       /\ UNCHANGED <<which, vars, ledgerVars, sessionVars, listsVars,
                     detailsVars, directivesVars>>
  \/ which = "directives" /\ Directives!Next
       /\ UNCHANGED <<which, vars, ledgerVars, sessionVars, listsVars,
                     detailsVars, streamVars>>

MCSpec == MCInit /\ [][MCNext]_mcvars

-----------------------------------------------------------------------------
ASSUME LedgerAssumption /\ Lists!ListsAssumption /\ Details!DetailsAssumption

\* A listing that is read page by page while rows change shows no row twice, no
\* row of another organisation, and every row that matched all along; a console
\* that follows its cursors is refused only when a cursor lapsed
\* (OperatorLists!ListingIsExact, CursorContinues; operator_traces.py:334).
ListingsAreExact == which = "lists" => Lists!ListingIsExact /\ Lists!CursorContinues

\* A detail put together from several statements claims no more than was true
\* at some moment of the request, and the verdict on the audit chain is exact
\* (OperatorDetails!NothingIsOverclaimed, AuditVerdictIsExact;
\* operator_traces_publication.py:71, operator_evidence_deletions.py:329).
DetailsAreHonest == which = "details" => Details!NothingIsOverclaimed /\ Details!AuditVerdictIsExact

\* A client misses an event only when its queue overflowed or the ring had
\* forgotten it, and nothing runs when the runtime is closed (EventStream!
\* NoUnexcusedGap, ClosedIsQuiet; operator_events.py subscribe, register_sse).
StreamsHaveNoGaps == which = "stream" => Stream!NoUnexcusedGap /\ Stream!ClosedIsQuiet

\* A listing of directives has every untouched one once, and a detail whose
\* statements see different moments names the live version and says when it is
\* cut (OperatorDirectives!UntouchedIsListedOnce, DetailIsHonest).
DirectivesAreHonest ==
  which = "directives" => Directives!UntouchedIsListedOnce /\ Directives!DetailIsHonest
=============================================================================
