--------------------------- MODULE OperatorLists ---------------------------
(***************************************************************************)
(* The paged listings of the control-plane API: agents, operator sessions, *)
(* operator memories and operator traces, and the unpaged listing of the   *)
(* runs of one trace.  A console follows the cursors   *)
(* of one listing, one request per page, while rows are inserted, removed  *)
(* and change status.  Every page is a statement of its own, so a listing  *)
(* never sees one snapshot; what makes it exact is the keyset condition.   *)
(*                                                                         *)
(* The first three surfaces hand out a cursor of the last key only.  The   *)
(* cursor of a trace listing is signed, lapses, and carries organisation,  *)
(* window and query, which are compared with the request that presents it. *)
(***************************************************************************)
EXTENDS Integers, FiniteSets, SequencesExt

CONSTANTS
  Rows,        \* rows that exist or may be inserted
  Table,       \* row -> [org, at, trace, id], what never changes of it
  Statuses,    \* status values, "ok" among them
  MyOrg,       \* organisation of the operator session
  Requests,    \* the queries a console may begin with
  Starts,      \* the tables it may find: [live, status]
  Limit,       \* page size asked for
  Window,      \* default length of a trace window
  MaxRange,    \* longest trace window
  LastTick,    \* bound of the clock
  MaxChanges   \* bound of the changes made while the console lists

ListsAssumption ==
  /\ "ok" \in Statuses
  /\ Limit \in Nat \ {0} /\ Window \in Nat /\ MaxRange \in Nat
  /\ LastTick \in Nat /\ MaxChanges \in Nat
  /\ \A t \in Starts : \A r \in t.live : Table[r].at <= 2

NoCursor == [kind |-> "none"]
Malformed == [kind |-> "malformed"]
NoTime == 0        \* a bound the request leaves out

VARIABLES
  life,     \* row -> "absent", "live" or "gone"
  status,   \* row -> its status column
  now,      \* the clock, in units of the trace window
  query,    \* the console's query: surface, status filter, explicit bounds
  cursor,   \* the cursor the console holds
  pc,       \* where the request is
  bounds,   \* the resolved window of the trace request at hand
  page,     \* the rows its statement returned, newest first
  count,    \* matched_count of the last trace page; -1 is null
  pages,    \* the pages shown so far
  steady,   \* rows that matched since the first page was read
  mixed,    \* the console changed its filter in the middle of a listing
  changes   \* changes made to the table so far

table == <<life, status, now>>
vars == <<life, status, now, query, cursor, pc, bounds, page, count, pages,
          steady, mixed, changes>>

----------------------------------------------------------------------------
(* Keys and cursors *)

AgentKey(r) == <<Table[r].at, Table[r].id>>
TraceKey(r) == <<Table[r].at, Table[r].trace, Table[r].id>>
Key(r) == IF query.surface = "traces" THEN TraceKey(r) ELSE AgentKey(r)

\* The order of tuples of equal length.
Smaller(k, l) == \E i \in 1..Len(k) : k[i] < l[i] /\ \A j \in 1..(i - 1) : k[j] = l[j]

\* ORDER BY created_at DESC, id DESC
NewestFirst(S) == SetToSortSeq(S, LAMBDA a, b : Smaller(Key(b), Key(a)))

\* Faulty variant: the row the cursor names is read again.
CursorClauseInclusive(r, k) == Smaller(Key(r), k) \/ Key(r) = k
\* created_at below the cursor's, or equal with a smaller id.
CursorClause(r, k) == Smaller(Key(r), k)

AgentListPayload(r) == [kind |-> "key", key |-> AgentKey(r)]
KeysetCursorPayload(r) == [kind |-> "key", key |-> AgentKey(r)]

\* Agents: both parts must be there; the driver casts them.
ParseListCursor(c) == c.kind # "malformed"
\* Sessions and memories: the parts are parsed and a naive time is refused.
ParseKeysetCursor(c) == c.kind # "malformed"

----------------------------------------------------------------------------
(* Which rows a statement selects *)

AgentsWhere(r) ==
  /\ Table[r].org = MyOrg /\ life[r] = "live"
  /\ query.status = "any" \/ status[r] = query.status
SessionsWhere(r) ==
  /\ Table[r].org = MyOrg /\ life[r] = "live"
  /\ query.status = "any" \/ status[r] = query.status
\* No deleted_at: a memory leaves the table only when it is purged.
MemoriesWhere(r) ==
  /\ Table[r].org = MyOrg /\ life[r] = "live"
  /\ query.status = "any" \/ status[r] = query.status

\* "error" stands for every status but "ok".
StatusPredicate(r) == (query.status = "ok") <=> (status[r] = "ok")
ApplyListFilters(r) == query.status = "any" \/ StatusPredicate(r)
TracesWhere(r, b) ==
  /\ Table[r].org = MyOrg /\ life[r] = "live"
  /\ b.start <= Table[r].at /\ Table[r].at <= b.end
  /\ ApplyListFilters(r)

\* The runs of trace 1; `runs` is asked for by trace id and takes no filter.
TraceRunsWhere(r) == Table[r].org = MyOrg /\ life[r] = "live" /\ Table[r].trace = 1

Where(r, b) == CASE query.surface = "agents"   -> AgentsWhere(r)
                 [] query.surface = "sessions" -> SessionsWhere(r)
                 [] query.surface = "memories" -> MemoriesWhere(r)
                 [] query.surface = "runs"     -> TraceRunsWhere(r)
                 [] OTHER                      -> TracesWhere(r, b)
Matching(b) == {r \in Rows : Where(r, b)}

\* LIMIT :limit with limit + 1, so that one row more tells of a next page.
Statement(b) ==
  LET behind == {r \in Matching(b) : cursor.kind = "none" \/ CursorClause(r, cursor.key)}
      sorted == NewestFirst(behind)
  IN  SubSeq(sorted, 1, IF Len(sorted) > Limit + 1 THEN Limit + 1 ELSE Len(sorted))

----------------------------------------------------------------------------
(* What a row is shown as *)

AgentFromRow(r) == [id |-> r, status |-> status[r]]
SessionFromRow(r) == [id |-> r, status |-> status[r]]
MemoryFromRow(r) == [id |-> r, status |-> status[r]]
Item(r) == [id |-> r, status |-> IF status[r] # "ok" THEN "error" ELSE "ok"]
Shown(r) == CASE query.surface = "agents"   -> AgentFromRow(r)
              [] query.surface = "sessions" -> SessionFromRow(r)
              [] query.surface = "memories" -> MemoryFromRow(r)
              [] OTHER                      -> Item(r)

FirstRows(rows) == SubSeq(rows, 1, IF Len(rows) > Limit THEN Limit ELSE Len(rows))
PageFromRows(rows) == [i \in 1..Len(FirstRows(rows)) |-> Shown(FirstRows(rows)[i])]
HasMore(rows) == Len(rows) > Limit

----------------------------------------------------------------------------
(* Listings of one statement *)

\* The answer of a page: the rows, and a cursor of the last one if there is more.
Answered(rows, next) ==
  /\ pages' = Append(pages, PageFromRows(rows))
  /\ cursor' = IF HasMore(rows) THEN next ELSE NoCursor
  /\ pc' = IF HasMore(rows) THEN "ask" ELSE "done"

Refused == /\ pc' = "refused"
           /\ UNCHANGED <<cursor, bounds, page, count, pages, steady>>

\* What a statement of the first page matches begins the history of the listing.
Begun(b) == steady' = IF pages = <<>> THEN Matching(b) ELSE steady

ListAgents ==
  /\ pc = "ask" /\ query.surface = "agents"
  /\ \/ ~ParseListCursor(cursor) /\ Refused
     \/ /\ ParseListCursor(cursor)
        /\ LET rows == Statement(bounds)
           IN  Answered(rows, IF HasMore(rows) THEN AgentListPayload(rows[Limit]) ELSE NoCursor)
        /\ Begun(bounds)
        /\ UNCHANGED <<bounds, page, count>>
  /\ UNCHANGED <<table, query, mixed, changes>>

ListOperatorSessions ==
  /\ pc = "ask" /\ query.surface = "sessions"
  /\ \/ ~ParseKeysetCursor(cursor) /\ Refused
     \/ /\ ParseKeysetCursor(cursor)
        /\ LET rows == Statement(bounds)
           IN  Answered(rows, IF HasMore(rows) THEN KeysetCursorPayload(rows[Limit]) ELSE NoCursor)
        /\ Begun(bounds)
        /\ UNCHANGED <<bounds, page, count>>
  /\ UNCHANGED <<table, query, mixed, changes>>

ListOperatorMemories ==
  /\ pc = "ask" /\ query.surface = "memories"
  /\ \/ ~ParseKeysetCursor(cursor) /\ Refused
     \/ /\ ParseKeysetCursor(cursor)
        /\ LET rows == Statement(bounds)
           IN  Answered(rows, IF HasMore(rows) THEN KeysetCursorPayload(rows[Limit]) ELSE NoCursor)
        /\ Begun(bounds)
        /\ UNCHANGED <<bounds, page, count>>
  /\ UNCHANGED <<table, query, mixed, changes>>

----------------------------------------------------------------------------
(* Trace listings *)

QueryFingerprint(b) == [status |-> query.status, start |-> b.start, end |-> b.end]

EncodeCursor(r, b) ==
  [kind |-> "signed", org |-> MyOrg, query |-> QueryFingerprint(b),
   start |-> b.start, end |-> b.end, key |-> TraceKey(r), expired |-> FALSE]

\* Signature, organisation and expiry.
DecodeSigned(c) == c.kind = "signed" /\ c.org = MyOrg /\ ~c.expired
\* ... and the query it was issued for.
DecodeCursor(c, b) == DecodeSigned(c) /\ c.query = QueryFingerprint(b)

ValidateRange(b) == b.start < b.end /\ b.end - b.start <= MaxRange

\* Faulty variant: a request without bounds always gets the latest window.
ResolveQueryBoundsNow ==
  LET end   == IF query.before # NoTime THEN query.before ELSE now
      start == IF query.after # NoTime THEN query.after ELSE end - Window
  IN  [start |-> start, end |-> end]
\* Explicit bounds first, then the cursor's, then the last 24 hours.
ResolveQueryBounds ==
  LET held  == cursor.kind # "none"
      end   == CASE query.before # NoTime -> query.before
                 [] query.before = NoTime /\ held -> cursor.end
                 [] OTHER -> now
      start == CASE query.after # NoTime -> query.after
                 [] query.after = NoTime /\ held -> cursor.start
                 [] OTHER -> end - Window
  IN  [start |-> start, end |-> end]

PrepareListQuery ==
  /\ pc = "ask" /\ query.surface = "traces"
  /\ LET readable == cursor.kind = "none" \/ DecodeSigned(cursor)
         usable   == /\ readable
                     /\ ValidateRange(ResolveQueryBounds)
                     /\ cursor.kind # "none" => DecodeCursor(cursor, ResolveQueryBounds)
     IN  \/ ~usable /\ Refused
         \/ /\ usable /\ bounds' = ResolveQueryBounds /\ pc' = "fetch"
            /\ UNCHANGED <<cursor, page, count, pages, steady>>
  /\ UNCHANGED <<table, query, mixed, changes>>

\* A statement that fails or runs into its timeout is a 503; the console asks again.
Degraded == /\ pc' = "ask" /\ changes < MaxChanges /\ changes' = changes + 1
            /\ page' = <<>>
            /\ UNCHANGED <<count, pages, cursor, steady>>

FetchRows ==
  /\ pc = "fetch"
  /\ \/ /\ page' = Statement(bounds) /\ Begun(bounds) /\ pc' = "count"
        /\ UNCHANGED <<count, pages, cursor, changes>>
     \/ Degraded
  /\ UNCHANGED <<table, query, bounds, mixed>>

\* In a savepoint: a failure costs the count and not the page.
FetchMatchedCount ==
  /\ pc = "count" /\ pc' = "items"
  /\ \/ count' = Cardinality(Matching(bounds)) /\ UNCHANGED changes
     \/ count' = -1 /\ changes < MaxChanges /\ changes' = changes + 1
  /\ UNCHANGED <<table, query, cursor, bounds, page, pages, steady, mixed>>

\* Publication states are read for the rows of the page, then the page is answered.
ItemsForRows ==
  /\ pc = "items"
  /\ \/ /\ Answered(page, IF HasMore(page) THEN EncodeCursor(page[Limit], bounds) ELSE NoCursor)
        /\ page' = <<>>
        /\ UNCHANGED <<count, steady, changes>>
     \/ Degraded
  /\ UNCHANGED <<table, query, bounds, mixed>>

\* All runs of a trace in one answer; no cursor leads beyond a truncated one.
ListTraceRuns ==
  /\ pc = "ask" /\ query.surface = "runs"
  /\ LET rows == Statement(bounds)
     IN  \/ rows = <<>> /\ Refused /\ UNCHANGED changes
         \/ /\ rows # <<>> /\ page' = rows /\ Begun(bounds) /\ pc' = "run_items"
            /\ UNCHANGED <<cursor, bounds, count, pages, changes>>
         \/ Degraded /\ UNCHANGED bounds
  /\ UNCHANGED <<table, query, mixed>>

ItemsForTraceRuns ==
  /\ pc = "run_items"
  /\ \/ /\ pages' = <<PageFromRows(page)>> /\ pc' = IF HasMore(page) THEN "cut" ELSE "done"
        /\ page' = <<>>
        /\ count' = IF HasMore(page) THEN -1 ELSE Len(page)
        /\ UNCHANGED <<cursor, steady, changes>>
     \/ Degraded
  /\ UNCHANGED <<table, query, bounds, mixed>>

----------------------------------------------------------------------------
(* The console and the rest of the system *)

Listing == pages # <<>> /\ pc = "ask"
Working == pc \notin {"done", "cut", "refused"}
Change == Working /\ changes < MaxChanges /\ changes' = changes + 1
Console == <<query, cursor, pc, bounds, page, count, pages, mixed>>

\* Another filter, with the cursor of the listing it was changed in.
ChangeFilter ==
  /\ Listing /\ Change
  /\ \E s \in Statuses \union {"any"} :
       s # query.status /\ query' = [query EXCEPT !.status = s]
  /\ mixed' = TRUE
  /\ UNCHANGED <<table, cursor, pc, bounds, page, count, pages, steady>>

\* A cursor of another organisation's session, or one cut short, is presented.
SwitchCursor ==
  /\ Listing /\ Change
  /\ cursor' \in {Malformed} \union
                 (IF cursor.kind = "signed" THEN {[cursor EXCEPT !.org = "other"]} ELSE {})
  /\ UNCHANGED <<table, query, pc, bounds, page, count, pages, steady, mixed>>

Insert(r) ==
  /\ Change /\ life[r] = "absent" /\ Table[r].at <= now
  /\ life' = [life EXCEPT ![r] = "live"]
  /\ UNCHANGED <<status, now, steady, Console>>

Discard(r) ==
  /\ Change /\ life[r] = "live"
  /\ life' = [life EXCEPT ![r] = "gone"]
  /\ steady' = steady \ {r}
  /\ UNCHANGED <<status, now, Console>>

\* The status of an evidence run is written once.
SetStatus(r, s) ==
  /\ Change /\ life[r] = "live" /\ query.surface \notin {"traces", "runs"} /\ s # status[r]
  /\ status' = [status EXCEPT ![r] = s]
  /\ steady' = IF query.status \in {"any", s} THEN steady ELSE steady \ {r}
  /\ UNCHANGED <<life, now, Console>>

Tick == /\ Working /\ now < LastTick /\ now' = now + 1
        /\ UNCHANGED <<life, status, steady, changes, Console>>

CursorLapses == /\ Working /\ cursor.kind = "signed" /\ ~cursor.expired
                /\ cursor' = [cursor EXCEPT !.expired = TRUE]
                /\ UNCHANGED <<table, query, pc, bounds, page, count, pages, steady, mixed, changes>>

Init ==
  /\ \E t \in Starts : /\ life = [r \in Rows |-> IF r \in t.live THEN "live" ELSE "absent"]
                       /\ status = t.status
  /\ query \in Requests
  /\ now = 2
  /\ cursor = NoCursor /\ pc = "ask" /\ bounds = [start |-> 0, end |-> 0]
  /\ page = <<>> /\ count = -1 /\ pages = <<>>
  /\ steady = {} /\ mixed = FALSE /\ changes = 0

Next ==
  \/ ListAgents \/ ListOperatorSessions \/ ListOperatorMemories
  \/ PrepareListQuery \/ FetchRows \/ FetchMatchedCount \/ ItemsForRows
  \/ ListTraceRuns \/ ItemsForTraceRuns
  \/ ChangeFilter \/ SwitchCursor \/ Tick \/ CursorLapses
  \/ \E r \in Rows : \/ Insert(r) \/ Discard(r)
                     \/ \E s \in Statuses : SetStatus(r, s)

Spec == Init /\ [][Next]_vars

----------------------------------------------------------------------------
(* Properties *)

Entries == {<<p, i>> \in (1..Len(pages)) \X (1..Limit) : i <= Len(pages[p])}
Entry(e) == pages[e[1]][e[2]]
ListedAt(r) == {e \in Entries : Entry(e).id = r}

\* A listing is exact although every page is read at another moment: no row is
\* shown twice, no row of another organisation is shown, a row shown under a
\* status filter carries that status, and when the last page has been read every
\* row that matched all along has been shown.  A filter changed in the middle
\* spoils this for the surfaces whose cursor does not name its query; a trace
\* listing refuses such a cursor.  When nothing was written meanwhile, the count
\* given with a trace page is the number of rows shown (operator_traces.py:443).
ListingIsExact ==
  LET sound == ~mixed \/ query.surface = "traces"
  IN  /\ \A r \in Rows : Cardinality(ListedAt(r)) <= 1
      /\ \A e \in Entries : /\ Table[Entry(e).id].org = MyOrg
                            /\ ~mixed /\ query.status # "any" =>
                                 Entry(e).status = query.status
      /\ pc = "done" /\ sound => \A r \in steady : ListedAt(r) # {}
      /\ pc = "done" /\ query.surface \in {"traces", "runs"} /\ changes = 0 =>
           count = Cardinality(Entries)

\* A console that follows the cursors it is given, with the query it began with,
\* is refused only because its cursor lapsed (operator_traces.py:334).
CursorContinues ==
  pc = "refused" => \/ mixed \/ cursor.kind = "malformed"
                    \/ cursor.kind = "signed" /\ (cursor.expired \/ cursor.org # MyOrg)
                    \/ pages = <<>>
=============================================================================
