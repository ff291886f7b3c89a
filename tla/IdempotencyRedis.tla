-------------------------- MODULE IdempotencyRedis --------------------------
(***************************************************************************)
(* The Redis idempotency store (packages/idempotency/redis.go), used for   *)
(* chat completions when the PostgreSQL ledger is off.  One Redis command  *)
(* is one step: SETNX, GET and WATCH / GET / EXEC of several requests      *)
(* interleave with one another and with keys that expire.                  *)
(***************************************************************************)
EXTENDS Naturals

CONSTANTS RedisKeys, Posts, Nobody,
          RedisKey, Fingerprint,  \* the key and the fingerprint of a request
          MaxTries,       \* tries of casPending
          MaxErrors       \* bound: Redis errors, crashes, overrun and day-old keys

RedisAssumption ==
  /\ RedisKey \in [Posts -> RedisKeys] /\ Nobody \notin Posts
  /\ MaxTries \in Nat \ {0} /\ MaxErrors \in Nat

VARIABLES rec,    \* the keys in Redis; "by" is the request that wrote one
          place,  \* where a request is
          claimed,\* its handler holds a claim (after a Redis error it has none)
          keep,   \* its response is to be committed, not released
          clean,  \* its WATCHed key was not written since
          casTries, \* its tries to replace the record
          given,  \* the response its client was given
          overrun,\* the key expired under a request at work (for the properties)
          errors
redisVars == <<rec, place, claimed, keep, clean, casTries, given, overrun, errors>>

Absent == [state |-> "absent", by |-> Nobody]
Records == {Absent} \cup [state : {"pending", "completed"}, by : Posts]

\* A request at work.
AtWork == {"working", "watch", "get", "exec"}

RedisInit ==
  /\ rec = [k \in RedisKeys |-> Absent]
  /\ place = [q \in Posts |-> "claim"]
  /\ claimed = [q \in Posts |-> FALSE]
  /\ keep = [q \in Posts |-> FALSE]
  /\ clean = [q \in Posts |-> FALSE]
  /\ casTries = [q \in Posts |-> 0]
  /\ given = [q \in Posts |-> Nobody]
  /\ overrun = [k \in RedisKeys |-> FALSE]
  /\ errors = 0

Enter(q, to) == place' = [place EXCEPT ![q] = to]

\* Every write to a key fails the transactions that watch it.
Write(k, r) ==
  /\ rec' = [rec EXCEPT ![k] = r]
  /\ clean' = [q \in Posts |-> clean[q] /\ RedisKey[q] # k]

RedisFails == errors < MaxErrors /\ errors' = errors + 1

-----------------------------------------------------------------------------
(* Claim                                                                   *)

\* Faulty variant: a pending key is overwritten.
FreeUnlessCompleted(k) == rec[k].state # "completed"

Free(k) == rec[k] = Absent

\* tryClaimPending: SETNX with the pending TTL.
SetNX(q) ==
  /\ place[q] = "claim"
  /\ IF Free(RedisKey[q])
     THEN /\ Write(RedisKey[q], [state |-> "pending", by |-> q])
          /\ claimed' = [claimed EXCEPT ![q] = TRUE]
          /\ Enter(q, "working")
     ELSE Enter(q, "inspect") /\ UNCHANGED <<rec, clean, claimed>>
  /\ UNCHANGED <<keep, casTries, given, errors>>

\* Faulty variant: the fingerprint of the record is not compared.
FoundAnyHash(q, r) ==
  CASE r = Absent -> "claim"
    [] r.state = "completed" -> "answered"
    [] OTHER -> "claim"

\* inspectExisting: an absent key is claimed again, and so is one in progress,
\* after the client's next try.
Found(q, r) ==
  CASE r = Absent -> "claim"
    [] r # Absent /\ Fingerprint[r.by] # Fingerprint[q] -> "conflict"
    [] r.state = "completed" /\ Fingerprint[r.by] = Fingerprint[q] -> "answered"
    [] OTHER -> "claim"

Inspect(q) ==
  LET r == rec[RedisKey[q]] IN
  /\ place[q] = "inspect"
  /\ Enter(q, Found(q, r))
  /\ given' = [given EXCEPT ![q] = IF Found(q, r) = "answered" THEN r.by ELSE @]
  /\ UNCHANGED <<rec, claimed, keep, clean, casTries, errors>>

\* The claim fails on a Redis error or its timeout, perhaps with the key
\* already set; the request goes on without a claim.
ClaimFails(q) ==
  /\ place[q] \in {"claim", "inspect"} /\ RedisFails
  /\ \/ UNCHANGED <<rec, clean>>
     \/ /\ place[q] = "claim" /\ Free(RedisKey[q])
        /\ Write(RedisKey[q], [state |-> "pending", by |-> q])
  /\ Enter(q, "working")
  /\ UNCHANGED <<claimed, keep, casTries, given>>

-----------------------------------------------------------------------------
(* Finish                                                                  *)

\* The response is written first; ShouldCommit decides what becomes of the
\* claim.  A response that is not kept (429, 5xx) leaves its client to retry.
Respond(q, final) ==
  /\ place[q] = "working" /\ (final \/ RedisFails)
  /\ given' = [given EXCEPT ![q] = IF final THEN q ELSE @]
  /\ keep' = [keep EXCEPT ![q] = final]
  /\ Enter(q, CASE claimed[q] -> "watch" [] ~claimed[q] /\ final -> "answered" [] OTHER -> "claim")
  /\ final => UNCHANGED errors
  /\ UNCHANGED <<rec, claimed, clean, casTries>>

\* The client went away while the provider was asked, or the process died.
Withdraw(q) ==
  /\ place[q] \in AtWork /\ RedisFails
  /\ Enter(q, IF given[q] = Nobody THEN "claim" ELSE "answered")
  /\ claimed' = [claimed EXCEPT ![q] = FALSE]
  /\ casTries' = [casTries EXCEPT ![q] = 0]
  /\ UNCHANGED <<rec, keep, clean, given>>

\* The handler is done with its claim, whatever Redis said.
Finished(q) ==
  /\ Enter(q, IF keep[q] THEN "answered" ELSE "claim")
  /\ claimed' = [claimed EXCEPT ![q] = FALSE]
  /\ casTries' = [casTries EXCEPT ![q] = 0]

\* casPending starts a try.
Watch(q) ==
  /\ place[q] = "watch" /\ Enter(q, "get")
  /\ clean' = [clean EXCEPT ![q] = TRUE]
  /\ UNCHANGED <<rec, claimed, keep, casTries, given, errors>>

\* Faulty variant: the state of the record is not looked at.
MayWriteAnyState(q, r) == r # Absent /\ Fingerprint[r.by] = Fingerprint[q]

\* casPendingTx: only a pending record with this fingerprint may be replaced.
MayWrite(q, r) == r.state = "pending" /\ Fingerprint[r.by] = Fingerprint[q]

Get(q) ==
  /\ place[q] = "get"
  /\ IF MayWrite(q, rec[RedisKey[q]])
     THEN Enter(q, "exec") /\ UNCHANGED <<claimed, casTries>>
     ELSE Finished(q)
  /\ UNCHANGED <<rec, keep, clean, given, errors>>

\* Redis runs a transaction only if the watched key was left alone.
Executes(q) == clean[q]

\* The loop of casPending.
TriesLeft(q) == casTries[q] + 1 < MaxTries

\* Commit and Release: SET completed, or DEL.
Exec(q) ==
  /\ place[q] = "exec"
  /\ IF Executes(q)
     THEN /\ Write(RedisKey[q], IF keep[q] THEN [state |-> "completed", by |-> q] ELSE Absent)
          /\ Finished(q)
     ELSE /\ UNCHANGED <<rec, clean>>
          /\ IF TriesLeft(q)
             THEN /\ casTries' = [casTries EXCEPT ![q] = @ + 1]
                  /\ Enter(q, "watch") /\ UNCHANGED claimed
             ELSE Finished(q)
  /\ UNCHANGED <<keep, given, errors>>

\* A command of the transaction fails, perhaps after EXEC was carried out; the
\* error is logged.
CASFails(q) ==
  /\ place[q] \in {"watch", "get", "exec"} /\ RedisFails
  /\ \/ UNCHANGED <<rec, clean>>
     \/ /\ place[q] = "exec" /\ Executes(q)
        /\ Write(RedisKey[q], IF keep[q] THEN [state |-> "completed", by |-> q] ELSE Absent)
  /\ Finished(q)
  /\ UNCHANGED <<keep, given>>

-----------------------------------------------------------------------------
(* Expiry                                                                  *)

Owned(k) ==
  \E q \in Posts : RedisKey[q] = k /\ claimed[q] /\ place[q] \in AtWork /\ rec[k].by = q

\* Faulty variant: a pending key has no TTL.
PendingEndsNever(k) == FALSE

\* The TTL of a pending key runs out, also under a request that outlives it.
PendingEnds(k) == rec[k].state = "pending"

ExpirePending(k) ==
  /\ PendingEnds(k)
  /\ IF Owned(k) THEN RedisFails ELSE UNCHANGED errors
  /\ Write(k, Absent)
  /\ overrun' = [overrun EXCEPT ![k] = @ \/ Owned(k)]
  /\ UNCHANGED <<place, claimed, keep, casTries, given>>

\* The TTL of a completed record, a day later.
ExpireCompleted(k) ==
  /\ rec[k].state = "completed" /\ RedisFails
  /\ Write(k, Absent)
  /\ UNCHANGED <<place, claimed, keep, casTries, given, overrun>>

RequestStep(q) ==
  \/ SetNX(q) \/ Inspect(q) \/ ClaimFails(q)
  \/ (\E final \in BOOLEAN : Respond(q, final))
  \/ Withdraw(q) \/ Watch(q) \/ Get(q) \/ Exec(q) \/ CASFails(q)

RedisNext ==
  \/ \E q \in Posts : RequestStep(q) /\ UNCHANGED overrun
  \/ \E k \in RedisKeys : ExpirePending(k) \/ ExpireCompleted(k)

RedisSpec == RedisInit /\ [][RedisNext]_redisVars

\* Handlers run on, clients retry, pending keys run out.
RedisFairSpec ==
  /\ RedisSpec
  /\ \A q \in Posts :
       WF_redisVars(/\ SetNX(q) \/ Inspect(q) \/ Respond(q, TRUE) \/ Watch(q) \/ Get(q) \/ Exec(q)
                    /\ UNCHANGED overrun)
  /\ \A k \in RedisKeys : WF_redisVars(ExpirePending(k))

-----------------------------------------------------------------------------
(* Properties                                                              *)

\* Every variable has its type; casPending never starts a try beyond its limit.
RedisTypeOK ==
  /\ rec \in [RedisKeys -> Records]
  /\ place \in [Posts -> {"claim", "inspect", "answered", "conflict"} \cup AtWork]
  /\ claimed \in [Posts -> BOOLEAN] /\ keep \in [Posts -> BOOLEAN]
  /\ clean \in [Posts -> BOOLEAN]
  /\ casTries \in [Posts -> 0..(MaxTries - 1)]
  /\ given \in [Posts -> Posts \cup {Nobody}]
  /\ overrun \in [RedisKeys -> BOOLEAN]
  /\ errors \in 0..MaxErrors

\* As long as no request with the key outlived its pending TTL, a claim is its
\* request's own: the key is pending in its name until its handler replaces it,
\* so no second request with the key is at work under a claim.
ClaimIsExclusive ==
  \A q \in Posts :
    ~overrun[RedisKey[q]] /\ claimed[q] /\ place[q] \in {"working", "watch", "get"} =>
      rec[RedisKey[q]] = [state |-> "pending", by |-> q]

\* A completed record stays as it is until its TTL: no commit or release that
\* comes late, and no claim, touches it.
CompletedStays ==
  [][\A k \in RedisKeys :
       rec[k].state = "completed" /\ rec'[k] # rec[k] =>
         rec'[k] = Absent /\ UNCHANGED <<place, casTries>>]_redisVars

\* A replayed response was produced for the same key and fingerprint, and it is
\* one its own client was given.
ReplayIsGenuine ==
  \A q \in Posts :
    given[q] # Nobody => /\ RedisKey[given[q]] = RedisKey[q]
                         /\ Fingerprint[given[q]] = Fingerprint[q]
                         /\ given[given[q]] = given[q]

\* The three: what a client of the Redis store may rely on (redis.go Claim,
\* Commit, Release).
RedisClaimsHold == [](ClaimIsExclusive /\ ReplayIsGenuine) /\ CompletedStays

\* "Orphaned pending keys self-heal": every request is answered or refused, also
\* when the holder of its key died or its claim was left behind by a Redis error.
EveryPostIsAnswered == \A q \in Posts : <>(place[q] \in {"answered", "conflict"})

=============================================================================
