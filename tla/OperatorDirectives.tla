------------------------- MODULE OperatorDirectives -------------------------
(***************************************************************************)
(* The operator's view of directives: a listing by keyset pages over       *)
(* `updated_at`, and the detail of one directive, which is put together    *)
(* from six statements while directives, versions and sessions change.     *)
(*                                                                         *)
(* A version is numbered from 1 in the order of insertion, versions are    *)
(* never updated, and the pointer of a directive may be moved back.  A     *)
(* read is one request in one organisation; each statement sees what is    *)
(* committed when it runs.  Instruction text, digests, sizes and agents'   *)
(* names are not part of the model.                                        *)
(***************************************************************************)
EXTENDS Integers, Sequences, FiniteSets, FiniteSetsExt, SequencesExt

CONSTANTS
    Tables,         \* initial contents: [dir, versions, sessions]
    Queries,        \* list queries: [org, state, agent]
    Limit,          \* page size of the listing
    VersionsLimit,  \* VERSIONS_LIMIT, 200 in the code
    UsageLimit,     \* USAGE_LIMIT, 200 in the code
    MaxWrites       \* writes by others while the read runs

VARIABLES
    dir,        \* directives: id -> [org, agent, active, ptr, updated], ptr = 0 is NULL
    versions,   \* directive_versions: id -> the number of versions, 0 after a purge
    sessions,   \* sessions: set of [id, org, directive, version, recent]
    clock,      \* the time of the last update
    writes,     \* writes made so far
    touched,    \* directives written since the read began
    op,         \* the request: list or detail
    query,      \* the list query
    pc,         \* the read: page, header, versions, count, extra, usage, total, done
    cursor,     \* next_cursor of the last page, [updated, id], NoCursor at the start
    listed,     \* the directives on the pages so far, in order
    target,     \* the directive whose detail is read
    d,          \* the detail being put together
    began       \* the tables when the header was read

tables == <<dir, versions, sessions>>
vars == <<tables, clock, writes, touched, op, query, pc, cursor, listed, target, d, began>>

Ids == DOMAIN dir
NoCursor == [updated |-> 0, id |-> 0]
NoDetail == [found |-> FALSE, active |-> FALSE, ptr |-> 0, rows |-> {}, total |-> 0,
             usage |-> <<>>, usageTruncated |-> FALSE, usageTotal |-> 0]

Init ==
    /\ \E t \in Tables :
         /\ dir = t.dir /\ versions = t.versions /\ sessions = t.sessions
         /\ target \in DOMAIN t.dir
         /\ began = [dir |-> t.dir, versions |-> t.versions, sessions |-> t.sessions]
    /\ clock = 10 /\ writes = 0 /\ touched = {}
    /\ query \in Queries
    /\ op \in {"list", "detail"}
    /\ pc = IF op = "list" THEN "page" ELSE "header"
    /\ cursor = NoCursor /\ listed = <<>> /\ d = NoDetail

-----------------------------------------------------------------------------
\* The listing.

\* Faulty variant: rows updated at the same time as the last one are taken as seen.
CursorClauseCoarse(c, r, i) == r.updated < c.updated

CursorClause(c, r, i) == r.updated < c.updated \/ (r.updated = c.updated /\ i < c.id)

ListFilterClauses(i) ==
    /\ dir[i].org = query.org
    /\ query.state = "active" => dir[i].active
    /\ query.state = "inactive" => ~dir[i].active
    /\ query.agent # 0 => dir[i].agent = query.agent

AfterCursor(i) == cursor # NoCursor => CursorClause(cursor, dir[i], i)

\* updated_at DESC, id DESC.
Newer(i, j) == dir[i].updated > dir[j].updated \/ (dir[i].updated = dir[j].updated /\ i > j)

ListStatement ==
    LET rows == SortSeq(SetToSeq({i \in Ids : ListFilterClauses(i) /\ AfterCursor(i)}), Newer)
    IN  SubSeq(rows, 1, IF Len(rows) > Limit + 1 THEN Limit + 1 ELSE Len(rows))

\* An inactive directive serves nothing, whatever its pointer says.
LiveVersionNumber(r) == IF r.active THEN r.ptr ELSE 0
SummaryFromRow(i) ==
    [id |-> i, live |-> LiveVersionNumber(dir[i]), count |-> versions[i], updated |-> dir[i].updated]

ListOperatorDirectives ==
    /\ pc = "page"
    /\ LET rows == ListStatement
           data == [k \in 1 .. (IF Len(rows) > Limit THEN Limit ELSE Len(rows)) |-> SummaryFromRow(rows[k])]
       IN  /\ listed' = listed \o data
           /\ IF Len(rows) > Limit
              THEN /\ cursor' = [updated |-> Last(data).updated, id |-> Last(data).id]
                   /\ pc' = "page"
              ELSE pc' = "done" /\ UNCHANGED cursor
    /\ UNCHANGED <<tables, clock, writes, touched, op, query, target, d, began>>

-----------------------------------------------------------------------------
\* The detail.

FetchHeader ==
    /\ pc = "header"
    /\ began' = [dir |-> dir, versions |-> versions, sessions |-> sessions]
    /\ IF dir[target].org = query.org
       THEN /\ d' = [d EXCEPT !.found = TRUE, !.active = dir[target].active, !.ptr = dir[target].ptr]
            /\ pc' = "versions"
       ELSE pc' = "done" /\ UNCHANGED d
    /\ UNCHANGED <<tables, clock, writes, touched, op, query, cursor, listed, target>>

\* live_version_id of get_operator_directive, 0 for None.
LiveVersion == IF d.active THEN d.ptr ELSE 0

\* The newest VERSIONS_LIMIT + 1 rows, cut to VERSIONS_LIMIT.
VersionStatement == {n \in 1 .. versions[target] : n > versions[target] - (VersionsLimit + 1)}
NewestOf(ns) == {n \in ns : Cardinality({k \in ns : k > n}) < VersionsLimit}

FetchVersions ==
    /\ pc = "versions"
    /\ d' = [d EXCEPT !.rows = NewestOf(VersionStatement)]
    /\ pc' = "count"
    /\ UNCHANGED <<tables, clock, writes, touched, op, query, cursor, listed, target, began>>

\* Faulty variant: the version the pointer names is not looked for beyond the newest.
NeedsPointedNever(rows) == FALSE

NeedsPointed(rows) == LiveVersion # 0 /\ LiveVersion \notin rows

CountVersions ==
    /\ pc = "count"
    /\ d' = [d EXCEPT !.total = versions[target]]
    /\ pc' = IF NeedsPointed(d.rows) THEN "extra" ELSE "usage"
    /\ UNCHANGED <<tables, clock, writes, touched, op, query, cursor, listed, target, began>>

FetchPointed ==
    /\ pc = "extra"
    /\ d' = [d EXCEPT !.rows = @ \cup ({LiveVersion} \cap (1 .. versions[target]))]
    /\ pc' = "usage"
    /\ UNCHANGED <<tables, clock, writes, touched, op, query, cursor, listed, target, began>>

\* The sessions of the window that were pinned to a version of the directive.
UsageWindow == {s \in sessions : s.org = query.org /\ s.recent /\ s.directive = target
                                 /\ s.version \in 1 .. versions[target]}
CountOf(n) == Cardinality({s \in UsageWindow : s.version = n})
MoreUsed(a, b) == a.sessions > b.sessions

FetchUsage ==
    /\ pc = "usage"
    /\ LET groups == {[version |-> n, sessions |-> CountOf(n)] : n \in {s.version : s \in UsageWindow}}
           usage == SortSeq(SetToSeq(groups), MoreUsed)
       IN  d' = [d EXCEPT !.usage = SubSeq(usage, 1, IF Len(usage) > UsageLimit THEN UsageLimit ELSE Len(usage)),
                          !.usageTruncated = Len(usage) > UsageLimit]
    /\ pc' = "total"
    /\ UNCHANGED <<tables, clock, writes, touched, op, query, cursor, listed, target, began>>

CountUsageTotal ==
    /\ pc = "total"
    /\ d' = [d EXCEPT !.usageTotal = Cardinality(UsageWindow)]
    /\ pc' = "done"
    /\ UNCHANGED <<tables, clock, writes, touched, op, query, cursor, listed, target, began>>

\* What get_operator_directive returns of d.
VersionProjection == {[num |-> n, live |-> LiveVersion # 0 /\ n = LiveVersion] : n \in d.rows}
ActiveVersionNum == IF LiveVersion \in d.rows THEN LiveVersion ELSE 0
ActiveVersionMissing == LiveVersion # 0 /\ ActiveVersionNum = 0

\* Faulty variant: the flag is taken from the size of the cut page.
VersionsTruncatedByPage == Cardinality(d.rows) > VersionsLimit

VersionsTruncated == d.total > Cardinality(d.rows)

-----------------------------------------------------------------------------
\* External: what others commit between the statements.

Write(i) ==
    /\ pc # "done" /\ writes < MaxWrites /\ versions[i] # 0
    /\ writes' = writes + 1
    /\ clock' = clock + 1
    /\ touched' = touched \cup {i}
    /\ UNCHANGED <<op, query, pc, cursor, listed, target, d, began>>

\* A new version, published or not; the pointer is checked by a trigger to be the directive's own.
NewVersion(i) ==
    /\ Write(i)
    /\ versions' = [versions EXCEPT ![i] = @ + 1]
    /\ \/ dir' = [dir EXCEPT ![i].ptr = versions[i] + 1, ![i].updated = clock']
       \/ UNCHANGED dir
    /\ UNCHANGED sessions

Rollback(i) ==
    /\ Write(i)
    /\ \E n \in 1 .. versions[i] : dir' = [dir EXCEPT ![i].ptr = n, ![i].updated = clock']
    /\ UNCHANGED <<versions, sessions>>

Toggle(i) ==
    /\ Write(i)
    /\ dir' = [dir EXCEPT ![i].active = ~@, ![i].updated = clock']
    /\ UNCHANGED <<versions, sessions>>

\* A session starts on the version the pointer names.
StartSession(i) ==
    /\ Write(i) /\ dir[i].active /\ dir[i].ptr # 0
    /\ sessions' = sessions \cup {[id |-> Cardinality(sessions) + 1, org |-> dir[i].org, directive |-> i,
                                   version |-> dir[i].ptr, recent |-> TRUE]}
    /\ UNCHANGED <<dir, versions>>

\* The purge of an organisation takes directives, versions and sessions with it.
Purge(i) ==
    /\ Write(i)
    /\ dir' = [dir EXCEPT ![i].org = "gone", ![i].ptr = 0]
    /\ versions' = [versions EXCEPT ![i] = 0]
    /\ sessions' = {s \in sessions : s.directive # i}

Next ==
    \/ ListOperatorDirectives
    \/ FetchHeader
    \/ FetchVersions
    \/ CountVersions
    \/ FetchPointed
    \/ FetchUsage
    \/ CountUsageTotal
    \/ \E i \in Ids : NewVersion(i) \/ Rollback(i) \/ Toggle(i) \/ StartSession(i) \/ Purge(i)

Spec == Init /\ [][Next]_vars

-----------------------------------------------------------------------------
\* Properties.

Matches(i, t) ==
    /\ t[i].org = query.org
    /\ query.state = "active" => t[i].active
    /\ query.state = "inactive" => ~t[i].active
    /\ query.agent # 0 => t[i].agent = query.agent

ListedIds == {listed[k].id : k \in 1 .. Len(listed)}

\* A complete listing names no directive twice, and every directive that matched the query and
\* was not written while it ran, with its own version count and pointer
\* (list_operator_directives).  One written in between moves to the front of the order and may
\* be missed.
UntouchedIsListedOnce ==
    pc = "done" /\ op = "list" =>
        /\ Cardinality(ListedIds) = Len(listed)
        /\ \A i \in Ids \ touched : Matches(i, dir) => SummaryFromRow(i) \in Range(listed)

\* What the detail says is true although its statements see different moments: unless the
\* directive was purged meanwhile, the version the header's pointer names is listed and is the
\* only one marked live, however old it is; when versions_truncated is false every version that
\* existed at the header is listed; the usage table counts no session that does not exist, and
\* when it is not truncated its sum is no more than usage_total_sessions.
DetailIsHonest ==
    pc = "done" /\ d.found =>
        /\ LET live == {v \in VersionProjection : v.live}
           IN  /\ versions[target] # 0 => ~ActiveVersionMissing
               /\ Cardinality(live) = (IF ActiveVersionNum = 0 THEN 0 ELSE 1)
               /\ \A v \in live : v.num = began.dir[target].ptr /\ began.dir[target].active
        /\ ~VersionsTruncated /\ versions[target] # 0 =>
             1 .. began.versions[target] \subseteq d.rows
        /\ versions[target] # 0 =>
             FoldSeq(LAMBDA u, n : u.sessions + n, 0, d.usage) <= d.usageTotal
=============================================================================
