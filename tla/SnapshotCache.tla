---- MODULE SnapshotCache ----
(***************************************************************************)
(* The proxy's snapshot caches (packages/modelpolicy/cache.go, poller.go,  *)
(* subscriber.go; packages/billing/cache.go) and the control-plane writes  *)
(* that invalidate them (services/api/app/services/model_policies.py and   *)
(* billing.py with their publishers).                                      *)
(*                                                                         *)
(* Both caches keep an LRU of snapshots and a generation per organisation. *)
(* `kind` says which one is meant.  The budget cache does every operation  *)
(* under its lock and never forgets a generation; the policy cache leaves  *)
(* its lock around LRU calls, drops a generation on eviction and has a     *)
(* poller.  A snapshot is read by two statements and has two parts: `a` is *)
(* the policy epoch or the number of the latest budget period, `b` the     *)
(* number of the latest change of the policies or of the rate cards.       *)
(***************************************************************************)
EXTENDS Integers, Sequences, FiniteSets

CONSTANTS
  CacheKinds,       \* the caches considered: "policy", "budget"
  Orgs,        \* organisations
  Patterns,    \* model patterns; also the names of rate cards
  Seeded,      \* the patterns (names) that exist at the start
  Readers,     \* requests in the proxy
  Writers,     \* control-plane calls
  Scenarios,   \* the kind of cache, the operation of every writer, and the
               \* organisations every reader asks for, in order
  Capacity,    \* size of the LRU
  MaxLoads,    \* maxPolicyLoadAttempts, maxBudgetLoadAttempts
  MaxLosses,   \* failed loads and lost publications
  None

SnapshotAssumption ==
  /\ \A s \in Scenarios :
       /\ s.wanted \in [Readers -> Seq(Orgs)]
       /\ \A w \in Writers : s.op[w].op \in {"create_card", "publish_card"} =>
            s.op[w].org \in Orgs /\ s.op[w].name \in Patterns
  /\ {"subscriber", "poller"} \cap Readers = {}
  /\ None \notin Nat \cup Writers

VARIABLES
  kind,
  \* PostgreSQL
  db,          \* db[o]: the two parts of the current snapshot
  policies,    \* policies[o]: the patterns of org_model_policies
  cards,       \* cards[o][n]: None or the number of published versions
  locked,      \* locked[o][n]: the writer holding the row of the card
  \* the control plane
  op, wpc, nextVersion,
  \* Redis pub/sub: organisations with an undelivered message
  channel,
  \* the cache
  gens, lru, order, applied,
  \* its users: readers, the subscriber and the poller
  rpc, left, evicted,
  loc,         \* locals of the call: organisation, generation, snapshot, attempts
  losses

dbVars == <<db, policies, cards, locked>>
apiVars == <<op, wpc, nextVersion>>
cacheVars == <<gens, lru, order, applied>>
userVars == <<rpc, left, evicted, loc>>
envVars == <<kind, dbVars, apiVars, channel>>
snapshotVars == <<kind, dbVars, apiVars, channel, cacheVars, userVars, losses>>

Users == Readers \cup {"subscriber", "poller"}
NoSnap == [a |-> 0, b |-> 0]
NoCall == [org |-> None, gen |-> 0, snap |-> NoSnap, tries |-> 0]

SnapshotInit ==
  /\ kind \in CacheKinds
  /\ db = [o \in Orgs |-> [a |-> 1, b |-> 1]]
  /\ policies = [o \in Orgs |-> Seeded]
  /\ cards = [o \in Orgs |-> [n \in Patterns |->
                IF n \in Seeded THEN 0 ELSE None]]
  /\ locked = [o \in Orgs |-> [n \in Patterns |-> None]]
  /\ \E s \in Scenarios : s.kind = kind /\ op = s.op /\ left = s.wanted
  /\ wpc = [w \in Writers |-> "start"]
  /\ nextVersion = [w \in Writers |-> 0]
  /\ channel = {}
  /\ gens = [o \in Orgs |-> 0]
  /\ lru = [o \in Orgs |-> None]
  /\ order = <<>>
  /\ applied = [o \in Orgs |-> NoSnap]
  /\ rpc = [u \in Users |-> "idle"]
  /\ loc = [u \in Users |-> NoCall]
  /\ evicted = [u \in Users |-> <<>>]
  /\ losses = 0


----------------------------------------------------------------------------
(* The control plane: one transaction and a publication per call. *)

\* A writer's call ends here without having changed anything.
RefusedWrite(w) ==
  /\ wpc' = [wpc EXCEPT ![w] = "refused"]
  /\ UNCHANGED <<dbVars, nextVersion>>

\* Faulty variant: a change of the policies keeps the epoch.
BumpPolicyEpochNever(o) == db' = [db EXCEPT ![o].b = @ + 1]

\* The change and the epoch are committed together.
BumpPolicyEpoch(o) == db' = [db EXCEPT ![o].a = @ + 1, ![o].b = @ + 1]

Changed(w, o, patterns) ==
  /\ policies' = [policies EXCEPT ![o] = patterns]
  /\ BumpPolicyEpoch(o)
  /\ wpc' = [wpc EXCEPT ![w] = "publish"]
  /\ UNCHANGED <<cards, locked, nextVersion>>

\* The unique index on (org, pattern) refuses a second row.
CreatePolicy(w, o, p) ==
  IF p \in policies[o] THEN RefusedWrite(w)
  ELSE Changed(w, o, policies[o] \cup {p})

\* `q` is the new pattern, None when other fields change, and `p` itself for
\* a patch without fields, which only reads.
PatchPolicy(w, o, p, q) ==
  IF \/ p = q
     \/ p \notin policies[o]
     \/ q \in policies[o]
  THEN RefusedWrite(w)
  ELSE Changed(w, o, IF q = None THEN policies[o]
                     ELSE (policies[o] \ {p}) \cup {q})

DeletePolicy(w, o, p) ==
  IF p \notin policies[o] THEN RefusedWrite(w)
  ELSE Changed(w, o, policies[o] \ {p})

CreateRateCard(w, o, n) ==
  IF cards[o][n] # None THEN RefusedWrite(w)
  ELSE /\ cards' = [cards EXCEPT ![o][n] = 0]
       /\ wpc' = [wpc EXCEPT ![w] = "publish"]
       /\ UNCHANGED <<db, policies, locked, nextVersion>>

CreateBudgetPeriod(w, o) ==
  /\ db' = [db EXCEPT ![o].a = @ + 1]
  /\ wpc' = [wpc EXCEPT ![w] = "publish"]
  /\ UNCHANGED <<policies, cards, locked, nextVersion>>

\* Faulty variant: the card is looked up without FOR UPDATE.
LockFreeAlways(o, n) == TRUE

LockFree(o, n) == locked[o][n] = None

\* SELECT ... FOR UPDATE waits for another publication of the same card.
LockRateCard(w, o, n) ==
  IF cards[o][n] = None THEN RefusedWrite(w)
  ELSE /\ LockFree(o, n)
       /\ locked' = [locked EXCEPT ![o][n] = w]
       /\ wpc' = [wpc EXCEPT ![w] = "number"]
       /\ UNCHANGED <<db, policies, cards, nextVersion>>

NextRateCardVersion(w, o, n) ==
  /\ wpc[w] = "number"
  /\ nextVersion' = [nextVersion EXCEPT ![w] = cards[o][n] + 1]
  /\ wpc' = [wpc EXCEPT ![w] = "insert"]
  /\ UNCHANGED dbVars

\* The insert, the card's status and the commit, which frees the row.
InsertRateCardVersion(w, o, n) ==
  /\ wpc[w] = "insert"
  /\ cards' = [cards EXCEPT ![o][n] = nextVersion[w]]
  /\ db' = [db EXCEPT ![o].b = @ + 1]
  /\ locked' = [locked EXCEPT ![o][n] = None]
  /\ wpc' = [wpc EXCEPT ![w] = "publish"]
  /\ UNCHANGED <<policies, nextVersion>>

Write(w) ==
  LET c == op[w] IN
  /\ \/ /\ wpc[w] = "start"
        /\ \/ c.op = "create_policy" /\ CreatePolicy(w, c.org, c.name)
           \/ c.op = "patch_policy" /\ PatchPolicy(w, c.org, c.name, c.new)
           \/ c.op = "delete_policy" /\ DeletePolicy(w, c.org, c.name)
           \/ c.op = "create_card" /\ CreateRateCard(w, c.org, c.name)
           \/ c.op = "create_period" /\ CreateBudgetPeriod(w, c.org)
           \/ c.op = "publish_card" /\ LockRateCard(w, c.org, c.name)
     \/ NextRateCardVersion(w, c.org, c.name)
     \/ InsertRateCardVersion(w, c.org, c.name)
  /\ UNCHANGED <<kind, op, channel, cacheVars, userVars, losses>>

\* PUBLISH after the commit.  A message nobody receives is lost; a failure is
\* logged for policies and, being no OSError, an error answer for budgets.
Publish(w) ==
  /\ wpc[w] = "publish"
  /\ \/ /\ channel' = channel \cup {op[w].org}
        /\ wpc' = [wpc EXCEPT ![w] = "done"]
        /\ UNCHANGED losses
     \/ /\ losses < MaxLosses
        /\ losses' = losses + 1
        /\ wpc' = [wpc EXCEPT ![w] =
                     IF kind = "policy" THEN "done" ELSE "error"]
        /\ UNCHANGED channel
  /\ UNCHANGED <<kind, dbVars, op, nextVersion, cacheVars, userVars>>

----------------------------------------------------------------------------
(* The LRU.  A removal calls onLRUEvict after the LRU's own lock is released,
   so the callback is a later step of the same goroutine (`evicted`). *)

WithoutKey(o) == SelectSeq(order, LAMBDA k : k # o)

\* Get and Add make the key the most recent one.
Touched(o) == Append(WithoutKey(o), o)

\* Faulty variant: either cache forgets the generation of what it evicts.
ForgetsGenerationAlways == TRUE

\* The callback of the budget cache does nothing.
ForgetsGeneration == kind = "policy"

\* lru.Remove(o), with the callback left to do.
LruRemove(u, o) ==
  /\ lru' = [lru EXCEPT ![o] = None]
  /\ order' = WithoutKey(o)
  /\ evicted' = [evicted EXCEPT ![u] =
       IF ForgetsGeneration /\ lru[o] # None
       THEN <<[org |-> o, gen |-> lru[o].gen]>> ELSE <<>>]

\* lru.Add(o, e): the oldest key goes when the cache is over its size.
LruAdd(u, o, e) ==
  LET full == Len(Touched(o)) > Capacity
      k == Head(Touched(o)) IN
  /\ lru' = [lru EXCEPT ![o] = e, ![IF full THEN k ELSE o] =
                                     IF full THEN None ELSE e]
  /\ order' = IF full THEN Tail(Touched(o)) ELSE Touched(o)
  /\ evicted' = [evicted EXCEPT ![u] =
       IF ForgetsGeneration /\ full
       THEN <<[org |-> k, gen |-> lru[k].gen]>> ELSE <<>>]

\* The policy cache deletes the generation of the entry it lost unless an
\* invalidation has advanced it meanwhile.
OnLRUEvict(u) ==
  /\ evicted[u] # <<>>
  /\ LET e == evicted[u][1] IN
     gens' = [gens EXCEPT ![e.org] = IF @ = e.gen THEN 0 ELSE @]
  /\ evicted' = [evicted EXCEPT ![u] = <<>>]
  /\ UNCHANGED <<kind, dbVars, apiVars, channel, lru, order, applied, rpc,
                 loc, left, losses>>

\* The entry a lookup would return.
Valid(o) == lru[o] # None /\ lru[o].gen = gens[o] /\ lru[o].fresh

\* The entry's TTL runs out.
Lapse(o) ==
  /\ lru[o] # None
  /\ lru[o].fresh
  /\ lru' = [lru EXCEPT ![o].fresh = FALSE]
  /\ UNCHANGED <<kind, dbVars, apiVars, channel, gens, order, applied,
                 userVars, losses>>

----------------------------------------------------------------------------
(* Requests *)

Running(u, at) == rpc[u] = at /\ evicted[u] = <<>>

\* The call of `u` goes on at `at` with the locals `call`.
Continue(u, at, call) ==
  /\ rpc' = [rpc EXCEPT ![u] = at]
  /\ loc' = [loc EXCEPT ![u] = call]

\* A request has its snapshot, or was told that there is none.
Finish(r) ==
  /\ Continue(r, "idle", NoCall)
  /\ left' = [left EXCEPT ![r] = Tail(@)]

Goto(r, at) == Continue(r, at, loc[r]) /\ UNCHANGED left

\* SnapshotForOrg: a valid entry is the answer.  An invalid one is removed,
\* by the policy cache only after it has released its lock.
LookupFresh(r) ==
  /\ Running(r, "idle")
  /\ left[r] # <<>>
  /\ LET o == Head(left[r])
         call == [NoCall EXCEPT !.org = o] IN
     \/ /\ Valid(o)
        /\ order' = Touched(o)
        /\ Finish(r)
        /\ UNCHANGED <<lru, evicted>>
     \/ /\ lru[o] = None
        /\ Continue(r, "generation", call)
        /\ UNCHANGED <<lru, order, left, evicted>>
     \/ /\ lru[o] # None
        /\ ~Valid(o)
        /\ kind = "budget"
        /\ LruRemove(r, o)
        /\ Continue(r, "generation", call)
        /\ UNCHANGED left
     \/ /\ lru[o] # None
        /\ ~Valid(o)
        /\ kind = "policy"
        /\ order' = Touched(o)
        /\ Continue(r, "drop", call)
        /\ UNCHANGED <<lru, left, evicted>>
  /\ UNCHANGED <<envVars, losses, gens, applied>>

DropStale(r) ==
  /\ Running(r, "drop")
  /\ LruRemove(r, loc[r].org)
  /\ Goto(r, "generation")
  /\ UNCHANGED <<envVars, losses, gens, applied>>

LoadOnce(r) ==
  /\ Running(r, "generation")
  /\ Continue(r, "first", [loc[r] EXCEPT !.gen = gens[loc[r].org]])
  /\ UNCHANGED <<envVars, losses, cacheVars, left, evicted>>

\* Faulty variant: the policies are read before their epoch.
FirstStatementSwapped(o) == [a |-> 0, b |-> db[o].b]

\* The first statement of the loader: the epoch, or the active period.
FirstStatement(o) == [a |-> db[o].a, b |-> 0]

\* The second statement reads what the first one left.
SecondStatement(o, s) ==
  IF s.b = 0 THEN [s EXCEPT !.b = db[o].b] ELSE [s EXCEPT !.a = db[o].a]

LoadFirst(r) ==
  /\ Running(r, "first")
  /\ Continue(r, "second", [loc[r] EXCEPT !.snap = FirstStatement(loc[r].org)])
  /\ UNCHANGED <<envVars, losses, cacheVars, left, evicted>>

LoadSecond(r) ==
  /\ Running(r, "second")
  /\ \/ /\ Continue(r, "install",
             [loc[r] EXCEPT !.snap = SecondStatement(loc[r].org, @)])
        /\ UNCHANGED <<left, losses>>
     \/ /\ losses < MaxLosses
        /\ losses' = losses + 1
        /\ Finish(r)
  /\ UNCHANGED <<envVars, cacheVars, evicted>>

\* The snapshot was invalidated during the load: another attempt, or an error.
Again(r) ==
  IF loc[r].tries + 1 < MaxLoads
  THEN /\ Continue(r, "generation",
            [loc[r] EXCEPT !.tries = @ + 1, !.snap = NoSnap, !.gen = 0])
       /\ UNCHANGED left
  ELSE Finish(r)

Entry(r) ==
  [a |-> loc[r].snap.a, b |-> loc[r].snap.b, gen |-> loc[r].gen,
   fresh |-> TRUE, by |-> r, try |-> <<Len(left[r]), loc[r].tries>>]

UnchangedGeneration(r) == gens[loc[r].org] = loc[r].gen

\* The budget cache compares and adds under one lock.
InstallBudget(r) ==
  /\ Running(r, "install")
  /\ kind = "budget"
  /\ \/ /\ UnchangedGeneration(r)
        /\ LruAdd(r, loc[r].org, Entry(r))
        /\ Finish(r)
     \/ /\ ~UnchangedGeneration(r)
        /\ Again(r)
        /\ UNCHANGED <<lru, order, evicted>>
  /\ UNCHANGED <<envVars, losses, gens, applied>>

\* The policy cache compares under its lock, ...
InstallPolicy(r) ==
  /\ Running(r, "install")
  /\ kind = "policy"
  /\ IF UnchangedGeneration(r) THEN Goto(r, "add") ELSE Again(r)
  /\ UNCHANGED <<envVars, losses, cacheVars, evicted>>

\* ... adds without it, ...
AddEntry(r) ==
  /\ Running(r, "add")
  /\ LruAdd(r, loc[r].org, Entry(r))
  /\ Goto(r, "recheck")
  /\ UNCHANGED <<envVars, losses, gens, applied>>

\* ... compares again ...
Recheck(r) ==
  /\ Running(r, "recheck")
  /\ IF UnchangedGeneration(r) THEN Finish(r) ELSE Goto(r, "peek")
  /\ UNCHANGED <<envVars, losses, cacheVars, evicted>>

\* Pointer identity: the entry this attempt added.
HoldsOwn(r) ==
  LET e == lru[loc[r].org] IN
  e # None /\ e.by = r /\ e.try = Entry(r).try

\* ... and takes its own entry out again; Peek and Remove are two calls.
RemoveIfSame(r) ==
  /\ \/ /\ Running(r, "peek")
        /\ IF HoldsOwn(r) THEN Goto(r, "remove") ELSE Again(r)
        /\ UNCHANGED <<lru, order, evicted>>
     \/ /\ Running(r, "remove")
        /\ LruRemove(r, loc[r].org)
        /\ Again(r)
  /\ UNCHANGED <<envVars, losses, gens, applied>>

----------------------------------------------------------------------------
(* Invalidation *)

\* handleMessage; the loop takes one message at a time.
Receive(o) ==
  /\ Running("subscriber", "idle")
  /\ o \in channel
  /\ channel' = channel \ {o}
  /\ Continue("subscriber", "invalidate", [NoCall EXCEPT !.org = o])
  /\ UNCHANGED <<kind, dbVars, apiVars, losses, cacheVars, left, evicted>>

\* The subscription is broken when the message is sent.
LoseMessage(o) ==
  /\ o \in channel
  /\ losses < MaxLosses
  /\ losses' = losses + 1
  /\ channel' = channel \ {o}
  /\ UNCHANGED <<kind, dbVars, apiVars, cacheVars, userVars>>

\* reconcileOrgEpoch: the epoch of a valid entry, ...
Poll(o) ==
  /\ Running("poller", "idle")
  /\ kind = "policy"
  /\ Valid(o)
  /\ Continue("poller", "compare",
       [NoCall EXCEPT !.org = o, !.snap = [a |-> lru[o].a, b |-> 0]])
  /\ order' = Touched(o)
  /\ UNCHANGED <<envVars, losses, gens, lru, applied, left, evicted>>

\* Faulty variant: the epochs are never compared.
DriftedNever(o, cached) == FALSE

Drifted(o, cached) == db[o].a # cached

\* ... and the current one.  A failed load invalidates, too.
ReconcileOrgEpoch ==
  LET o == loc["poller"].org
      invalidate == Continue("poller", "invalidate", [NoCall EXCEPT !.org = o]) IN
  /\ Running("poller", "compare")
  /\ \/ /\ IF Drifted(o, loc["poller"].snap.a) THEN invalidate
           ELSE Continue("poller", "idle", NoCall)
        /\ UNCHANGED losses
     \/ /\ losses < MaxLosses
        /\ losses' = losses + 1
        /\ invalidate
  /\ UNCHANGED <<envVars, cacheVars, left, evicted>>

\* The generation is advanced; the budget cache removes the entry under the
\* same lock, the policy cache after it.
Invalidate(u) ==
  LET o == loc[u].org IN
  /\ Running(u, "invalidate")
  /\ gens' = [gens EXCEPT ![o] = @ + 1]
  /\ applied' = [applied EXCEPT ![o] = db[o]]
  /\ IF kind = "budget"
     THEN LruRemove(u, o) /\ Continue(u, "idle", NoCall)
     ELSE Continue(u, "evict", loc[u]) /\ UNCHANGED <<lru, order, evicted>>
  /\ UNCHANGED <<envVars, losses, left>>

EvictInvalidated(u) ==
  /\ Running(u, "evict")
  /\ LruRemove(u, loc[u].org)
  /\ Continue(u, "idle", NoCall)
  /\ UNCHANGED <<envVars, losses, gens, applied, left>>

----------------------------------------------------------------------------

ReaderStep(r) ==
  \/ LookupFresh(r) \/ DropStale(r) \/ LoadOnce(r)
  \/ LoadFirst(r) \/ LoadSecond(r)
  \/ InstallBudget(r) \/ InstallPolicy(r) \/ AddEntry(r)
  \/ Recheck(r) \/ RemoveIfSame(r)

InvalidatorStep(u) == Invalidate(u) \/ EvictInvalidated(u)

SnapshotNext ==
  \/ \E w \in Writers : Write(w) \/ Publish(w)
  \/ \E r \in Readers : ReaderStep(r)
  \/ \E o \in Orgs : Lapse(o) \/ Receive(o) \/ LoseMessage(o) \/ Poll(o)
  \/ ReconcileOrgEpoch
  \/ \E u \in {"subscriber", "poller"} : InvalidatorStep(u)
  \/ \E u \in Users : OnLRUEvict(u)

SnapshotSpec == SnapshotInit /\ [][SnapshotNext]_snapshotVars

\* Requests that were started run on, the poller visits every cached
\* organisation at every tick, and the TTL of a budget entry runs out.
\* Nothing is assumed of writers, of the channel or of the TTL of policies.
SnapshotFairSpec ==
  /\ SnapshotSpec
  /\ \A r \in Readers : WF_snapshotVars(ReaderStep(r))
  /\ \A u \in Users : WF_snapshotVars(OnLRUEvict(u))
  /\ \A u \in {"subscriber", "poller"} : WF_snapshotVars(InvalidatorStep(u))
  /\ WF_snapshotVars(ReconcileOrgEpoch)
  /\ \A o \in Orgs : SF_snapshotVars(Poll(o)) /\ WF_snapshotVars(kind = "budget" /\ Lapse(o))

----------------------------------------------------------------------------

SnapshotTypeOK ==
  /\ kind \in CacheKinds
  /\ channel \subseteq Orgs
  /\ \A o \in Orgs : gens[o] \in Nat /\ db[o].a \in Nat /\ db[o].b \in Nat
  /\ \A u \in Users : loc[u].gen \in Nat
  /\ Len(order) <= Capacity
  /\ losses \in 0..MaxLosses

\* What a lookup would return is not older than the latest invalidation: a
\* load begun before the generation advanced is not installed after it
\* (billing/cache.go: "so in-flight loads cannot repopulate a stale
\* snapshot").
FreshAfterInvalidate ==
  \A o \in Orgs :
    Valid(o) => lru[o].a >= applied[o].a /\ lru[o].b >= applied[o].b

\* The same for the budget cache alone, whose generations are kept.
BudgetFreshAfterInvalidate == kind = "budget" => FreshAfterInvalidate

\* Two publications of a card never take the same number: what was read as
\* the next version is still the next one when it is inserted.
VersionIsNext ==
  \A w \in Writers : wpc[w] = "insert" =>
    nextVersion[w] = cards[op[w].org][op[w].name] + 1

\* What the invalidation of a snapshot and the number of a publication rest on
\* (billing/cache.go, billing.py).
SnapshotsAreFresh == BudgetFreshAfterInvalidate /\ VersionIsNext

\* However publications are lost, a cached snapshot that stays is the current
\* one: the poller's comparison of epochs, or the TTL, gets rid of the others.
Converges ==
  <>[](\A o \in Orgs : Valid(o) => lru[o].b = db[o].b)

====
