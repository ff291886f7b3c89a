--------------------------- MODULE MemoryLifecycle ---------------------------
(***************************************************************************)
(* The write side of the memory service: creating a memory through the     *)
(* write pipeline, superseding an older one, forgetting one, the vector    *)
(* written after the commit, and the organisation purge of the worker.     *)
(*                                                                         *)
(* One agent of one organisation and one source session.  A create command *)
(* names the row it inserts.  A transaction that another one can overtake  *)
(* is two steps, its locks and its statements; every other transaction is  *)
(* one.  Revisions are advanced by the triggers of migration 000045.       *)
(***************************************************************************)
EXTENDS Integers, FiniteSets

CONSTANTS
  Creates,      \* create commands, and the memories they insert
  FromSession,  \* those sent by an extraction task of the session
  HashOf,       \* the content hash of a command
  Older,        \* the memories a command would supersede, were they live
  MaxFaults     \* bound on crashes, lost answers, failed calls and legal holds

ASSUME MemoryAssumption ==
  /\ FromSession \subseteq Creates
  /\ Older \in [Creates -> SUBSET Creates]
  /\ \A c \in Creates : c \notin Older[c]
  /\ MaxFaults \in Nat

VARIABLES
  org,        \* "active" or "cancelled"
  purge,      \* where the deletion task is
  doomed,     \* the rows the purge has deleted and not yet committed
  shared,     \* the commands whose transaction holds the advisory lock
  session,    \* the source session: [live, rev]
  mem,        \* the memories table
  edges,      \* memory_relationships: <<newer, older>>
  events,     \* memory_lifecycle_outbox: <<memory, revision, type>>
  pc,         \* where a command is, or how it was answered
  fence,      \* the session revision an extraction task read
  seen,       \* the rows to supersede, with the revisions read
  dup,        \* the row found under the same hash
  overtaken,  \* ghost: tasks that read the session before a later forget
  faults

reqVars == <<fence, seen, dup>>

tableVars == <<session, mem, edges, events>>

purgeVars == <<org, purge, doomed>>

vars == <<purgeVars, shared, tableVars, pc, reqVars, overtaken, faults>>

NoRow == [status |-> "none", rev |-> 0, embedded |-> FALSE]

Statuses == {"none", "active", "quarantined", "superseded", "deleted", "purged"}

Answers ==
  {"created", "duplicate", "stale", "unavailable", "error", "skipped", "gone"}

Steps ==
  {"idle", "lookup", "bump", "embed", "persist", "locked", "isolate", "isolated",
   "race", "rebump", "after"}

EventTypes == {"created", "quarantined", "superseded", "forgotten", "purged"}

\* The state has the types the schema and the code give it.
TypeOK ==
  /\ org \in {"active", "cancelled"}
  /\ purge \in {"idle", "waiting", "locked", "deleted", "done"}
  /\ doomed \subseteq Creates
  /\ shared \subseteq Creates
  /\ session \in [live : BOOLEAN, rev : Nat]
  /\ mem \in [Creates -> [status : Statuses, rev : Nat, embedded : BOOLEAN]]
  /\ edges \subseteq Creates \X Creates
  /\ events \subseteq Creates \X Nat \X EventTypes
  /\ pc \in [Creates -> Steps \cup Answers]
  /\ fence \in [Creates -> Nat]
  /\ seen \in [Creates -> SUBSET (Creates \X Nat)]
  /\ dup \in [Creates -> Creates \cup {"none"}]
  /\ overtaken \subseteq Creates
  /\ faults \in 0 .. MaxFaults

\* The session has been completed; the organisation has no memories yet.
Init ==
  /\ org = "active" /\ purge = "idle" /\ doomed = {} /\ shared = {}
  /\ session = [live |-> TRUE, rev |-> 1]
  /\ mem = [c \in Creates |-> NoRow]
  /\ edges = {} /\ events = {}
  /\ pc = [c \in Creates |-> "idle"]
  /\ fence = [c \in Creates |-> 0]
  /\ seen = [c \in Creates |-> {}]
  /\ dup = [c \in Creates |-> "none"]
  /\ overtaken = {} /\ faults = 0

Fault == faults < MaxFaults /\ faults' = faults + 1

Goto(c, step) == pc' = [pc EXCEPT ![c] = step]

\* Rows that predicates on status, deleted_at and tombstoned let through.
Active == {m \in Creates : mem[m].status = "active"}

SameHash(c) == {m \in Active : HashOf[m] = HashOf[c]}
-----------------------------------------------------------------------------
(* The write pipeline: every stage reads in a transaction of its own.      *)

\* An extraction task reads the session before it calls the provider; a
\* request of the API carries no session.  The PII stage may find that the
\* content has to be quarantined, which skips the later stages.
Begin(c) ==
  /\ pc[c] = "idle"
  /\ IF c \in FromSession /\ ~session.live
       THEN Goto(c, "skipped") /\ UNCHANGED fence
       ELSE /\ Goto(c, "lookup") \/ Goto(c, "isolate")
            /\ fence' = [fence EXCEPT ![c] = IF c \in FromSession THEN session.rev ELSE 0]
  /\ UNCHANGED <<purgeVars, shared, tableVars, seen, dup, overtaken, faults>>

ExactDedup(c) ==
  /\ pc[c] = "lookup"
  /\ IF SameHash(c) = {}
       THEN Goto(c, "embed") /\ UNCHANGED dup
       ELSE /\ Goto(c, "bump")
            /\ \E m \in SameHash(c) : dup' = [dup EXCEPT ![c] = m]
  /\ UNCHANGED <<purgeVars, shared, tableVars, fence, seen, overtaken, faults>>

\* The count of the row that was found is raised in a second transaction,
\* which fails when the row is no longer active.
BumpRetrieval(c) ==
  /\ pc[c] = "bump"
  /\ Goto(c, IF dup[c] \in Active THEN "duplicate" ELSE "error")
  /\ UNCHANGED <<purgeVars, shared, tableVars, reqVars, overtaken, faults>>

\* The index is approximate, so any of the older memories may be missed;
\* one is found only if its vector is stored.
Candidates(c) == {m \in Older[c] \cap Active : mem[m].embedded}

Embed(c) ==
  /\ pc[c] = "embed"
  /\ \/ /\ Goto(c, "persist")
        /\ \E S \in SUBSET Candidates(c) :
             seen' = [seen EXCEPT ![c] = {<<m, mem[m].rev>> : m \in S}]
        /\ UNCHANGED faults
     \/ Fault /\ Goto(c, "error") /\ UNCHANGED seen
  /\ UNCHANGED <<purgeVars, shared, tableVars, fence, dup, overtaken>>
-----------------------------------------------------------------------------
(* The transaction that inserts the memory.                                *)

MayWrite == org = "active"

\* A waiting request for the exclusive lock is queued before later ones.
LockFree == purge \in {"idle", "done"}

LockOrganization(c) ==
  /\ pc[c] \in {"persist", "isolate"} /\ LockFree
  /\ IF MayWrite
       THEN Goto(c, IF pc[c] = "persist" THEN "locked" ELSE "isolated") /\ shared' = shared \cup {c}
       ELSE Goto(c, "unavailable") /\ UNCHANGED shared
  /\ UNCHANGED <<purgeVars, tableVars, reqVars, overtaken, faults>>

FenceHolds(c) == c \in FromSession => session.live /\ session.rev = fence[c]

\* Faulty variant: the row is superseded whatever happened since it was read.
TargetsAsSeenAny(c) == TRUE

TargetsAsSeen(c) ==
  \A t \in seen[c] : t[1] \in Active /\ mem[t[1]].rev = t[2]

Targets(c) == {t[1] : t \in seen[c]}

\* Faulty variant: the event carries the revision that was read.
SupersededEventOld(c, m) == <<m, mem[m].rev, "superseded">>

SupersededEvent(c, m) == <<m, mem[m].rev + 1, "superseded">>

\* The vector stays: searches pass over the row by its status.
Superseded(r) == [status |-> "superseded", rev |-> r.rev + 1, embedded |-> r.embedded]

Insert(c) ==
  /\ mem' = [m \in Creates |->
       IF m = c THEN [status |-> "active", rev |-> 1, embedded |-> FALSE]
       ELSE IF m \in Targets(c) THEN Superseded(mem[m]) ELSE mem[m]]
  /\ edges' = edges \cup {<<c, m>> : m \in Targets(c)}
  /\ events' = events \cup {SupersededEvent(c, m) : m \in Targets(c)}
       \cup {<<c, 1, "created">>}
  /\ UNCHANGED session

\* Faulty variant: a session lock, which the end of a transaction keeps.
UnlockNever(c) == shared' = shared

Unlock(c) == shared' = shared \ {c}

\* The answer of a committed transaction may be lost.
Committed(c, step) ==
  \/ Goto(c, step) /\ UNCHANGED faults
  \/ Goto(c, "error") /\ Fault

\* The checks come in the order of the statements: the session, the unique
\* hash, and the rows to supersede.
PersistActive(c) ==
  /\ pc[c] = "locked" /\ Unlock(c)
  /\ IF FenceHolds(c) /\ SameHash(c) = {} /\ TargetsAsSeen(c)
       THEN Insert(c) /\ Committed(c, "after")
       ELSE /\ Goto(c, IF FenceHolds(c) /\ SameHash(c) # {} THEN "race" ELSE "stale")
            /\ UNCHANGED <<tableVars, faults>>
  /\ UNCHANGED <<purgeVars, reqVars, overtaken>>

\* Quarantined content is not unique, supersedes nothing and is not indexed.
PersistQuarantine(c) ==
  /\ pc[c] = "isolated" /\ Unlock(c)
  /\ IF FenceHolds(c)
       THEN /\ mem' = [mem EXCEPT ![c] =
                 [status |-> "quarantined", rev |-> 1, embedded |-> FALSE]]
            /\ events' = events \cup {<<c, 1, "quarantined">>}
            /\ UNCHANGED <<session, edges>>
            /\ Committed(c, "created")
       ELSE Goto(c, "stale") /\ UNCHANGED <<tableVars, faults>>
  /\ UNCHANGED <<purgeVars, reqVars, overtaken>>

\* The winner of the race for the hash may be gone by the time it is read.
HashRace(c) ==
  /\ pc[c] = "race"
  /\ IF SameHash(c) = {}
       THEN Goto(c, "error") /\ UNCHANGED dup
       ELSE /\ Goto(c, "rebump")
            /\ \E m \in SameHash(c) : dup' = [dup EXCEPT ![c] = m]
  /\ UNCHANGED <<purgeVars, shared, tableVars, fence, seen, overtaken, faults>>

RaceBump(c) ==
  /\ pc[c] = "rebump" /\ LockFree
  /\ Goto(c, CASE ~MayWrite -> "unavailable"
               [] MayWrite /\ ~FenceHolds(c) -> "stale"
               [] MayWrite /\ FenceHolds(c) ->
                    IF dup[c] \in Active THEN "duplicate" ELSE "error")
  /\ UNCHANGED <<purgeVars, shared, tableVars, reqVars, overtaken, faults>>

\* Faulty variant: the vector is stored for a row in any state.
MayEmbedAny(m) == mem[m].status # "none"

\* The row is not deleted and still has the revision it was inserted with.
MayEmbed(m) == mem[m].status \notin {"none", "deleted", "purged"} /\ mem[m].rev = 1

\* After the commit, outside the transaction; a failure is logged.
UpsertVector(c) ==
  /\ pc[c] = "after" /\ Goto(c, "created")
  /\ \/ /\ mem' = IF MayEmbed(c) THEN [mem EXCEPT ![c].embedded = TRUE] ELSE mem
        /\ UNCHANGED faults
     \/ Fault /\ UNCHANGED mem
  /\ UNCHANGED <<purgeVars, shared, session, edges, events, reqVars, overtaken>>

\* The process ends; the server rolls an open transaction back.
Crash(c) ==
  /\ pc[c] \in Steps \ {"idle"} /\ Fault
  /\ Goto(c, "gone") /\ Unlock(c)
  /\ UNCHANGED <<purgeVars, tableVars, reqVars, overtaken>>
-----------------------------------------------------------------------------
(* Forgetting a memory, and the end of its session.                        *)

\* Faulty variant: the source session keeps its revision.
AdvanceSessionNever(m) == session

AdvanceSession(m) ==
  IF m \in FromSession THEN [session EXCEPT !.rev = @ + 1] ELSE session

InFlight == {c \in Creates : pc[c] \in Steps \ {"idle"} /\ mem[c].status = "none"}

\* A request whose expected revision is not the row's is refused and
\* changes nothing.
Forget(m) ==
  /\ LockFree /\ MayWrite
  /\ mem[m].status \in {"active", "quarantined", "superseded"}
  /\ mem' = [mem EXCEPT ![m] =
       [status |-> "deleted", rev |-> mem[m].rev + 1, embedded |-> FALSE]]
  /\ session' = AdvanceSession(m)
  /\ events' = events \cup {<<m, mem[m].rev + 1, "forgotten">>}
  /\ overtaken' = overtaken \cup
       (IF m \in FromSession THEN InFlight \cap FromSession ELSE {})
  /\ UNCHANGED <<purgeVars, shared, edges, pc, reqVars, faults>>

SoftDeleteSession ==
  /\ session.live
  /\ session' = [live |-> FALSE, rev |-> session.rev + 1]
  /\ UNCHANGED <<purgeVars, shared, mem, edges, events, pc, reqVars, overtaken, faults>>
-----------------------------------------------------------------------------
(* The PostgreSQL stage of the deletion task.                              *)

\* Faulty variant: the purge does not wait for open writes.
MayPurgeAtOnce == TRUE

MayPurge == shared = {}

ClaimJob ==
  /\ purge = "idle" /\ purge' = "waiting"
  /\ UNCHANGED <<org, doomed, shared, tableVars, pc, reqVars, overtaken, faults>>

PurgeLock ==
  /\ purge = "waiting" /\ MayPurge
  /\ purge' = "locked"
  /\ UNCHANGED <<org, doomed, shared, tableVars, pc, reqVars, overtaken, faults>>

Rows == {m \in Creates : mem[m].status \notin {"none", "purged"}}

PurgeRows ==
  /\ purge = "locked"
  /\ purge' = "deleted" /\ doomed' = Rows
  /\ UNCHANGED <<org, shared, tableVars, pc, reqVars, overtaken, faults>>

\* The update of the organisation waits for writers that hold its row; then
\* the purge is committed.
PurgeCommit ==
  /\ purge = "deleted" /\ shared = {}
  /\ purge' = "done" /\ org' = "cancelled" /\ doomed' = {}
  /\ mem' = [m \in Creates |-> IF m \in doomed
       THEN [status |-> "purged", rev |-> mem[m].rev + 1, embedded |-> FALSE]
       ELSE mem[m]]
  /\ edges' = {}
  /\ events' = events \cup {<<m, mem[m].rev + 1, "purged">> : m \in doomed}
  /\ session' = [session EXCEPT !.live = FALSE]
  /\ UNCHANGED <<shared, pc, reqVars, overtaken, faults>>

\* The stage fails and is rolled back, or finds a legal hold and purges
\* nothing; the task may be run again.
PurgeAbort ==
  /\ purge \in {"waiting", "locked", "deleted"} /\ Fault
  /\ purge' = "idle" /\ doomed' = {}
  /\ UNCHANGED <<org, shared, tableVars, pc, reqVars, overtaken>>
-----------------------------------------------------------------------------
CreateStep(c) ==
  \/ ExactDedup(c) \/ BumpRetrieval(c) \/ Embed(c) \/ LockOrganization(c)
  \/ PersistActive(c) \/ PersistQuarantine(c) \/ HashRace(c) \/ RaceBump(c)
  \/ UpsertVector(c)

Purge == PurgeLock \/ PurgeRows \/ PurgeCommit

Next ==
  \/ \E c \in Creates : Begin(c) \/ CreateStep(c) \/ Crash(c) \/ Forget(c)
  \/ SoftDeleteSession \/ ClaimJob \/ Purge \/ PurgeAbort

Spec == Init /\ [][Next]_vars

\* A handler and a task that were started are run to their end.
FairSpec ==
  /\ Spec
  /\ \A c \in Creates : WF_vars(CreateStep(c))
  /\ WF_vars(Purge)
-----------------------------------------------------------------------------
\* A forgotten memory has no vector and is not visible again: a vector that
\* arrives after the tombstone is not stored.
ForgottenHasNoVector ==
  \A m \in Creates : mem[m].status \in {"deleted", "purged"} => ~mem[m].embedded

\* An extraction task that read the session before a memory of the session
\* was forgotten writes nothing afterwards.
NoWriteAcrossForget == \A c \in overtaken : mem[c].status = "none"

\* Every revision a memory ever had has exactly one event in the outbox.
EveryRevisionHasItsEvent ==
  \A m \in Creates :
    LET own == {e \in events : e[1] = m} IN
    /\ {e[2] : e \in own} = 1 .. mem[m].rev
    /\ Cardinality(own) = mem[m].rev

\* A memory is superseded by one other memory, which was inserted with it.
OneSuccessor ==
  \A m \in Creates :
    LET newer == {c \in Creates : <<c, m>> \in edges} IN
    /\ Cardinality(newer) <= 1
    /\ \A c \in newer : mem[c].status # "none"
    /\ mem[m].status = "superseded" => newer # {}

\* Every revision has one event in the outbox, a memory is superseded by one
\* other that was inserted with it, and a forgotten memory has no vector, also
\* when the vector arrives after the tombstone (lifecycle.py, conflict/persist.py).
RevisionsAreTold == EveryRevisionHasItsEvent /\ OneSuccessor /\ ForgottenHasNoVector

\* Once an organisation is cancelled it has no memories, and gets none.
NothingSurvivesThePurge == org = "cancelled" => Rows = {}

\* Every create command is answered, and a purge that waits for the lock
\* comes to an end: neither starves or blocks the other.
EveryoneIsServed ==
  /\ \A c \in Creates : pc[c] # "idle" ~> pc[c] \in Answers
  /\ purge = "waiting" ~> purge \in {"idle", "done"}
=============================================================================
