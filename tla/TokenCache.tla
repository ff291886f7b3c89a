---- MODULE TokenCache ----
(***************************************************************************)
(* The proxy's cache of validated tokens (packages/authcache) fed by the   *)
(* revocation channel (packages/revocation), and the organisation          *)
(* suspension of the control plane (services/api/app/services/             *)
(* organizations.py, revocation_publish.py).                               *)
(*                                                                         *)
(* A cached result depends on two keys, its token and its organisation.    *)
(* Each key has an index entry (the digests cached under it) and, once it  *)
(* was revoked, a tombstone that lives as long as a cached entry may.      *)
(* Bloom filter, LRU and the two indexes have locks of their own, so the   *)
(* uses of them are steps, except that an eviction leaves the indexes and  *)
(* the LRU in one step and both tombstones are read in one.  A tombstone   *)
(* lapses only when the entries that were cached, and the calls that were  *)
(* running, when it was set are gone: both are shorter than LRUMaxTTL.     *)
(***************************************************************************)
EXTENDS Integers, Sequences, FiniteSets

CONSTANTS
  Tokens,       \* tokens; a token stands for its digest and its id
  Org,          \* their organisation
  Readers,      \* requests
  Presents,     \* Presents[r]: the tokens a client presents, in order
  Capacity,     \* LRUCapacity
  MaxAttempts,  \* _PUBLISH_MAX_ATTEMPTS
  MaxFaults,    \* failed publications, lost messages, unreachable upstream
  MaxTurns,     \* revocations and reactivations
  None

Keys == Tokens \cup {Org}
Entries == [fresh : BOOLEAN, outlives : SUBSET Keys]
Answers == [answer : {"cache", "upstream", "refused"}, token : Tokens, after : SUBSET Keys]

TokenAssumption == /\ Presents \in [Readers -> Seq(Tokens)]
                   /\ None \notin Entries \cup Answers

VARIABLES
  revoked,      \* PostgreSQL: revoked tokens, and Org while it is suspended
  sending,      \* attempts of the publication under way, 0 for none
  channel,      \* keys with a message under way
  tomb,         \* keys with a live tombstone
  index,        \* index[k]: the tokens cached under the key
  lru,          \* lru[t]: None, or whether it is fresh and what it must outlive
  order,        \* tokens of the LRU, the oldest first
  bloom,        \* tokens the filter knows as invalid
  dropping,     \* the subscriber: tokens it still has to drop
  applied,      \* keys whose revocation was applied since their last activation
  pc, left, began, mustend, told,
  faults, turns

store == <<revoked, sending, channel>>
cache == <<tomb, index, lru, order, bloom>>
calls == <<pc, left, began, mustend, told>>
vars == <<store, cache, dropping, applied, calls, faults, turns>>

KeysOf(t) == {t, Org}

Init ==
  /\ revoked = {}
  /\ sending = 0
  /\ channel = {}
  /\ tomb = {}
  /\ index = [k \in Keys |-> {}]
  /\ lru = [t \in Tokens |-> None]
  /\ order = <<>>
  /\ bloom = {}
  /\ dropping = {}
  /\ applied = {}
  /\ pc = [r \in Readers |-> "idle"]
  /\ left = Presents
  /\ began = [r \in Readers |-> {}]
  /\ mustend = [r \in Readers |-> {}]
  /\ told = [r \in Readers |-> None]
  /\ faults = 0
  /\ turns = 0

Fault ==
  /\ faults < MaxFaults
  /\ faults' = faults + 1

----------------------------------------------------------------------------
(* Revocation upstream *)

Turn ==
  /\ turns < MaxTurns
  /\ turns' = turns + 1

\* The auth service revokes a token and publishes it.
RevokeToken(t) ==
  /\ Turn
  /\ t \notin revoked
  /\ revoked' = revoked \cup {t}
  /\ channel' = channel \cup {t}
  /\ UNCHANGED <<sending, cache, dropping, applied, calls, faults>>

\* suspend_organization commits, then publishes.
SuspendOrganization ==
  /\ Turn
  /\ sending = 0
  /\ revoked' = revoked \cup {Org}
  /\ sending' = 1
  /\ UNCHANGED <<channel, cache, dropping, applied, calls, faults>>

\* publish_org_suspend: up to MaxAttempts, then the call fails.
PublishOrgSuspend ==
  /\ sending > 0
  /\ \/ /\ channel' = channel \cup {Org}
        /\ sending' = 0
        /\ UNCHANGED faults
     \/ /\ Fault
        /\ sending' = IF sending < MaxAttempts THEN sending + 1 ELSE 0
        /\ UNCHANGED channel
  /\ UNCHANGED <<revoked, cache, dropping, applied, calls, turns>>

\* The organisation becomes active again.
Reactivate ==
  /\ Turn
  /\ Org \in revoked
  /\ sending = 0
  /\ revoked' = revoked \ {Org}
  /\ applied' = applied \ {Org}
  /\ began' = [r \in Readers |-> began[r] \ {Org}]
  /\ UNCHANGED <<sending, channel, cache, dropping, pc, left, mustend, told,
                 faults>>

LoseMessage(k) ==
  /\ k \in channel
  /\ Fault
  /\ channel' = channel \ {k}
  /\ UNCHANGED <<revoked, sending, cache, dropping, applied, calls, turns>>

----------------------------------------------------------------------------
(* The LRU and its eviction callback *)

Without(t) == SelectSeq(order, LAMBDA x : x # t)
Touched(t) == Append(Without(t), t)
RemoveDigest(ix, t) == [k \in Keys |-> IF k \in KeysOf(t) THEN ix[k] \ {t} ELSE ix[k]]

\* evictRevoked and dropCachedHash: the digest leaves both indexes and the LRU.
Evicted(t) ==
  /\ index' = RemoveDigest(index, t)
  /\ lru' = [lru EXCEPT ![t] = None]
  /\ order' = Without(t)

\* lru.Add; the entry that has to go leaves both indexes.
LruAdd(t) ==
  LET full == Len(Touched(t)) > Capacity
      x == Head(Touched(t)) IN
  /\ lru' = [y \in Tokens |->
       IF y = t THEN [fresh |-> TRUE, outlives |-> {}]
       ELSE IF full /\ y = x THEN None ELSE lru[y]]
  /\ order' = IF full THEN Tail(Touched(t)) ELSE Touched(t)
  /\ index' = IF full THEN RemoveDigest(index, x) ELSE index

Expire(t) ==
  /\ lru[t] # None
  /\ lru[t].fresh
  /\ lru' = [lru EXCEPT ![t] = [fresh |-> FALSE, outlives |-> {}]]
  /\ UNCHANGED <<store, tomb, index, order, bloom, dropping, applied, calls,
                 faults, turns>>

----------------------------------------------------------------------------
(* The subscriber *)

\* revoke: the tombstone first, then the index entry, under one lock.
Revoke(k) ==
  /\ dropping = {}
  /\ k \in channel
  /\ channel' = channel \ {k}
  /\ tomb' = tomb \cup {k}
  /\ dropping' = index[k]
  /\ index' = [index EXCEPT ![k] = {}]
  /\ applied' = IF k \in revoked THEN applied \cup {k} ELSE applied
  /\ lru' = [t \in Tokens |->
       IF lru[t] # None /\ lru[t].fresh /\ k \in KeysOf(t)
       THEN [lru[t] EXCEPT !.outlives = @ \cup {k}] ELSE lru[t]]
  /\ mustend' = [r \in Readers |->
       IF pc[r] = "idle" THEN {} ELSE mustend[r] \cup {k}]
  /\ UNCHANGED <<revoked, sending, order, bloom, pc, left, began, told,
                 faults, turns>>

DropCachedHash(t) ==
  /\ t \in dropping
  /\ dropping' = dropping \ {t}
  /\ IF lru[t] # None THEN Evicted(t) ELSE UNCHANGED <<index, lru, order>>
  /\ UNCHANGED <<store, tomb, bloom, applied, calls, faults, turns>>

\* A tombstone outlives what was cached and what was running when it was set,
\* and does not end in the few instructions of a lookup.
LapseTomb(k) ==
  /\ k \in tomb
  /\ \A t \in Tokens : lru[t] # None => k \notin lru[t].outlives
  /\ \A r \in Readers : k \notin mustend[r] /\ pc[r] \notin {"check", "again"}
  /\ tomb' = tomb \ {k}
  /\ UNCHANGED <<store, index, lru, order, bloom, dropping, applied, calls,
                 faults, turns>>

----------------------------------------------------------------------------
(* Requests *)

Token(r) == Head(left[r])

Goto(r, at) ==
  /\ pc' = [pc EXCEPT ![r] = at]
  /\ UNCHANGED <<left, began, mustend, told>>

\* The call ends with an answer: "cache", "upstream" or "refused".
Answer(r, a) ==
  /\ pc' = [pc EXCEPT ![r] = "idle"]
  /\ left' = [left EXCEPT ![r] = Tail(@)]
  /\ told' = [told EXCEPT ![r] = [answer |-> a, token |-> Token(r),
                                  after |-> began[r]]]
  /\ began' = [began EXCEPT ![r] = {}]
  /\ mustend' = [mustend EXCEPT ![r] = {}]

\* The filter is asked first: what it knows, or mistakes, goes upstream.
Validate(r) ==
  /\ pc[r] = "idle"
  /\ left[r] # <<>>
  /\ \E at \in IF Token(r) \in bloom THEN {"upstream"} ELSE {"upstream", "get"} :
       pc' = [pc EXCEPT ![r] = at]
  /\ began' = [began EXCEPT ![r] = applied]
  /\ UNCHANGED <<store, cache, dropping, applied, left, mustend, told, faults,
                 turns>>

\* lookupLRU: Get, ...
LruGet(r) ==
  /\ pc[r] = "get"
  /\ IF lru[Token(r)] # None
     THEN /\ order' = Touched(Token(r))
          /\ Goto(r, IF lru[Token(r)].fresh THEN "check" ELSE "evict")
     ELSE Goto(r, "upstream") /\ UNCHANGED order
  /\ UNCHANGED <<store, tomb, index, lru, bloom, dropping, applied, faults,
                 turns>>

\* Faulty variant: only the token's own tombstone is looked at.
CacheBlockedToken(t) == t \in tomb

CacheBlocked(t) == KeysOf(t) \cap tomb # {}

\* ... the check before the clone and the one after it, ...
CheckEntry(r) ==
  /\ \/ /\ pc[r] = "check"
        /\ Goto(r, IF CacheBlocked(Token(r)) THEN "evict" ELSE "again")
     \/ /\ pc[r] = "again"
        /\ IF CacheBlocked(Token(r)) THEN Goto(r, "evict") ELSE Answer(r, "cache")
  /\ UNCHANGED <<store, cache, dropping, applied, faults, turns>>

\* ... and the removal of what is expired or revoked.
EvictRevoked(r) ==
  /\ pc[r] \in {"evict", "undo"}
  /\ Evicted(Token(r))
  /\ IF pc[r] = "evict" THEN Goto(r, "upstream") ELSE Answer(r, "upstream")
  /\ UNCHANGED <<store, tomb, bloom, dropping, applied, faults, turns>>

\* The auth service answers from its database.  Only an invalid token, never a
\* suspended organisation, enters the filter.
FetchUpstream(r) ==
  /\ pc[r] = "upstream"
  /\ \/ /\ Token(r) \in revoked
        /\ bloom' = bloom \cup {Token(r)}
        /\ Answer(r, "refused")
        /\ UNCHANGED faults
     \/ /\ Token(r) \notin revoked
        /\ Org \in revoked
        /\ Answer(r, "refused")
        /\ UNCHANGED <<bloom, faults>>
     \/ /\ KeysOf(Token(r)) \cap revoked = {}
        /\ Goto(r, "index")
        /\ UNCHANGED <<bloom, faults>>
     \/ /\ Fault
        /\ Answer(r, "refused")
        /\ UNCHANGED bloom
  /\ UNCHANGED <<store, tomb, index, lru, order, dropping, applied, turns>>

\* putLRU: a live tombstone refuses the index entry of the token, ...
IndexToken(r) ==
  LET t == Token(r) IN
  /\ pc[r] = "index"
  /\ IF t \in tomb THEN Answer(r, "upstream") /\ UNCHANGED index
     ELSE /\ index' = [index EXCEPT ![t] = {t}]
          /\ Goto(r, "index_org")
  /\ UNCHANGED <<store, tomb, lru, order, bloom, dropping, applied, faults,
                 turns>>

\* ... or that of the organisation, which takes the token's out again, ...
IndexOrg(r) ==
  LET t == Token(r) IN
  /\ pc[r] = "index_org"
  /\ IF Org \in tomb
     THEN /\ index' = [index EXCEPT ![t] = {}]
          /\ Answer(r, "upstream")
     ELSE /\ index' = [index EXCEPT ![Org] = @ \cup {t}]
          /\ Goto(r, "add")
  /\ UNCHANGED <<store, tomb, lru, order, bloom, dropping, applied, faults,
                 turns>>

AddEntry(r) ==
  /\ pc[r] = "add"
  /\ LruAdd(Token(r))
  /\ Goto(r, "recheck")
  /\ UNCHANGED <<store, tomb, bloom, dropping, applied, faults, turns>>

\* Faulty variant: what was revoked between the indexes and the LRU stays.
BlockedAfterAddNever(t) == FALSE

BlockedAfterAdd(t) == CacheBlocked(t)

\* ... and one set meanwhile takes the new entry out.
RecheckEntry(r) ==
  /\ pc[r] = "recheck"
  /\ IF BlockedAfterAdd(Token(r)) THEN Goto(r, "undo") ELSE Answer(r, "upstream")
  /\ UNCHANGED <<store, cache, dropping, applied, faults, turns>>

\* A full generation of the filter is demoted, and later dropped.
RotateBloom(t) ==
  /\ t \in bloom
  /\ bloom' = bloom \ {t}
  /\ UNCHANGED <<store, tomb, index, lru, order, dropping, applied, calls,
                 faults, turns>>

Next ==
  \/ \E t \in Tokens : RevokeToken(t) \/ Expire(t) \/ DropCachedHash(t) \/ RotateBloom(t)
  \/ SuspendOrganization \/ PublishOrgSuspend \/ Reactivate
  \/ \E k \in Keys : LoseMessage(k) \/ Revoke(k) \/ LapseTomb(k)
  \/ \E r \in Readers :
       \/ Validate(r) \/ LruGet(r) \/ CheckEntry(r) \/ EvictRevoked(r)
       \/ FetchUpstream(r) \/ IndexToken(r) \/ IndexOrg(r)
       \/ AddEntry(r) \/ RecheckEntry(r)

Spec == Init /\ [][Next]_vars

----------------------------------------------------------------------------

TypeOK ==
  /\ revoked \subseteq Keys /\ channel \subseteq Keys /\ tomb \subseteq Keys
  /\ \A k \in Keys : index[k] \subseteq Tokens
  /\ Len(order) <= Capacity
  /\ bloom \subseteq Tokens /\ dropping \subseteq Tokens
  /\ sending \in 0..MaxAttempts

\* Once the subscriber has applied a revocation, no request that begins later
\* is answered from the cache, however evictions, upstream answers from before
\* the revocation and the end of the tombstone interleave.
RevokedIsNotServed ==
  \A r \in Readers :
    told[r] # None /\ told[r].answer = "cache" =>
      KeysOf(told[r].token) \cap told[r].after = {}

====
