--------------------------- MODULE MemoryFeedback ---------------------------
(***************************************************************************)
(* Usefulness votes and the per-agent sorted set of hot memories.  A vote  *)
(* is one transaction (lock the row, record the vote, count, update the    *)
(* score) followed by a refresh of the sorted set.  Creates, forgets and   *)
(* supersessions change the rows; only creates and forgets touch the set.  *)
(* Scores are percentages, as the column NUMERIC(3,2) holds them.          *)
(***************************************************************************)
EXTENDS Integers, Sequences, FiniteSets, SequencesExt, FiniteSetsExt

CONSTANTS
  Memories,   \* a set of naturals
  Voters,     \* feedback requests, each with its own agent
  VoteOf,     \* voter -> [mem, kind, scoped]
  Readers,    \* GET /v1/memories/hot requests
  HotLimit,   \* page size of a reader
  Capacity,   \* HOT_CACHE_CAPACITY
  Withheld,   \* memories whose content the read guard blocks
  Disputes,   \* pending escalations: sets of two memories
  MaxLost     \* bound on failed Redis commands

VARIABLES
  mrow,      \* memory -> [st, useful]
  votes,     \* ledger: (memory, voter) -> kind, committed
  held,      \* row lock: memory -> the voter holding it, or 0
  vpc,       \* step of a voter
  counted,   \* what a voter will write: its score
  hot,       \* the sorted set: memory -> score
  evict,     \* memories whose eviction is under way
  rpc,       \* step of a reader
  fetched,   \* what a reader took from the set
  shown,     \* the page of a reader
  goneAt,    \* history: memories gone when a reader began
  lost       \* failed Redis commands so far

fVars == <<mrow, votes, held, vpc, counted, hot, evict, rpc, fetched, shown, goneAt, lost>>

FeedbackInit ==
  /\ mrow = [m \in Memories |-> [st |-> "active", useful |-> 50]]
  /\ votes = <<>>
  /\ held = [m \in Memories |-> 0]
  /\ vpc = [v \in Voters |-> "start"]
  /\ counted = [v \in Voters |-> 0]
  /\ hot = <<>>
  /\ evict = {}
  /\ rpc = [r \in Readers |-> "start"]
  /\ fetched = [r \in Readers |-> <<>>]
  /\ shown = [r \in Readers |-> <<>>]
  /\ goneAt = [r \in Readers |-> {}]
  /\ lost = 0

-----------------------------------------------------------------------------
(* (p + 1) / (p + n + 2) in percent, rounded half up. *)
LaplaceUsefulness(p, n) == (200 * (p + 1) + (p + n + 2)) \div (2 * (p + n + 2))

Tally(ledger, m, kind) == Cardinality({k \in DOMAIN ledger : k[1] = m /\ ledger[k] = kind})

UsefulnessOf(ledger, m) ==
  LaplaceUsefulness(Tally(ledger, m, "positive"), Tally(ledger, m, "negative"))

(* require_agent_id: a vote needs a token that names an agent. *)
AgentScoped(v) == VoteOf[v].scoped

(* Faulty variant: the row is read without a lock. *)
RowFreeAlways(m) == TRUE

(* SELECT ... FOR UPDATE waits while another transaction holds the row. *)
RowFree(m) == held[m] = 0

(* _load_memory: the lock is taken on a row that is not forgotten. *)
LoadMemory(v) ==
  LET m == VoteOf[v].mem
  IN  /\ vpc[v] = "start"
      /\ IF ~AgentScoped(v) \/ mrow[m].st = "gone"
         THEN vpc' = [vpc EXCEPT ![v] = "refused"] /\ held' = held
         ELSE /\ RowFree(m)
              /\ held' = [held EXCEPT ![m] = v]
              /\ vpc' = [vpc EXCEPT ![v] = "locked"]
      /\ UNCHANGED <<mrow, votes, counted, hot, evict, rpc, fetched, shown, goneAt, lost>>

Ballot(v) == <<VoteOf[v].mem, v>>

(* _upsert_ledger and _count_votes: the count sees committed votes and the  *)
(* transaction's own.                                                       *)
CountVotes(v) ==
  /\ vpc[v] = "locked"
  /\ counted' = [counted EXCEPT ![v] =
       UsefulnessOf([k \in DOMAIN votes \cup {Ballot(v)} |->
                       IF k = Ballot(v) THEN VoteOf[v].kind ELSE votes[k]], VoteOf[v].mem)]
  /\ vpc' = [vpc EXCEPT ![v] = "counted"]
  /\ UNCHANGED <<mrow, votes, held, hot, evict, rpc, fetched, shown, goneAt, lost>>

(* _update_usefulness and the commit, which releases the lock. *)
UpdateUsefulness(v) ==
  LET m == VoteOf[v].mem
  IN  /\ vpc[v] = "counted"
      /\ votes' = [k \in DOMAIN votes \cup {Ballot(v)} |->
                     IF k = Ballot(v) THEN VoteOf[v].kind ELSE votes[k]]
      /\ mrow' = [mrow EXCEPT ![m].useful = counted[v]]
      /\ held' = [held EXCEPT ![m] = 0]
      /\ vpc' = [vpc EXCEPT ![v] = "refresh"]
      /\ UNCHANGED <<counted, hot, evict, rpc, fetched, shown, goneAt, lost>>

(* A failed statement rolls back the vote and releases the lock: 503. *)
VoteFails(v) ==
  LET m == VoteOf[v].mem
  IN  /\ vpc[v] \in {"locked", "counted"}
      /\ held' = [held EXCEPT ![m] = 0]
      /\ vpc' = [vpc EXCEPT ![v] = "failed"]
      /\ UNCHANGED <<mrow, votes, counted, hot, evict, rpc, fetched, shown, goneAt, lost>>

-----------------------------------------------------------------------------
(* The sorted set. *)

(* ZREVRANGE order: by score, then by member, both descending. *)
HotOrder(set) ==
  SetToSortSeq(DOMAIN set, LAMBDA a, b : set[a] > set[b] \/ (set[a] = set[b] /\ a > b))

Upto(s, n) == SubSeq(s, 1, IF Len(s) < n THEN Len(s) ELSE n)

(* The Lua script: ZADD, then a trim to the highest Capacity members. *)
ZaddTrim(set, m, score) ==
  LET grown == [k \in DOMAIN set \cup {m} |-> IF k = m THEN score ELSE set[k]]
  IN  [k \in ToSet(Upto(HotOrder(grown), Capacity)) |-> grown[k]]

(* refresh_hot with the row the transaction returned; errors are swallowed. *)
RefreshHot(v) ==
  /\ vpc[v] = "refresh"
  /\ \/ hot' = ZaddTrim(hot, VoteOf[v].mem, counted[v]) /\ lost' = lost
     \/ lost < MaxLost /\ lost' = lost + 1 /\ hot' = hot
  /\ vpc' = [vpc EXCEPT ![v] = "done"]
  /\ UNCHANGED <<mrow, votes, held, counted, evict, rpc, fetched, shown, goneAt>>

(* The create handler's refresh, after its commit. *)
WriteCreated(m) ==
  /\ m \notin DOMAIN hot /\ mrow[m].st = "active"
  /\ hot' = ZaddTrim(hot, m, mrow[m].useful)
  /\ UNCHANGED <<mrow, votes, held, vpc, counted, evict, rpc, fetched, shown, goneAt, lost>>

(* A forget commits its tombstone, waiting for the row's lock. *)
ForgetCommit(m) ==
  /\ mrow[m].st = "active" /\ RowFree(m)
  /\ mrow' = [mrow EXCEPT ![m].st = "gone"]
  /\ evict' = evict \cup {m}
  /\ UNCHANGED <<votes, held, vpc, counted, hot, rpc, fetched, shown, goneAt, lost>>

(* Then ZREM, best effort: a later refresh of the same memory may put the   *)
(* entry back.                                                              *)
ForgetEvict(m) ==
  /\ m \in evict
  /\ evict' = evict \ {m}
  /\ \/ hot' = [k \in DOMAIN hot \ {m} |-> hot[k]] /\ lost' = lost
     \/ lost < MaxLost /\ lost' = lost + 1 /\ hot' = hot
  /\ UNCHANGED <<mrow, votes, held, vpc, counted, rpc, fetched, shown, goneAt>>

(* A supersession takes a memory out of use and leaves the set alone. *)
Supersede(m) ==
  /\ mrow[m].st = "active" /\ RowFree(m)
  /\ mrow' = [mrow EXCEPT ![m].st = "superseded"]
  /\ UNCHANGED <<votes, held, vpc, counted, hot, evict, rpc, fetched, shown, goneAt, lost>>

(* EXPIRE of the whole key. *)
HotExpires ==
  /\ hot # <<>>
  /\ hot' = <<>>
  /\ UNCHANGED <<mrow, votes, held, vpc, counted, evict, rpc, fetched, shown, goneAt, lost>>

-----------------------------------------------------------------------------
(* A reader takes a reserve of twice its page from the set. *)
Reserve == IF 2 * HotLimit < Capacity THEN 2 * HotLimit ELSE Capacity

ReadHot(r) ==
  /\ rpc[r] = "start"
  /\ goneAt' = [goneAt EXCEPT ![r] = {m \in Memories : mrow[m].st # "active"}]
  /\ \/ /\ fetched' = [fetched EXCEPT ![r] = Upto(HotOrder(hot), Reserve)]
        /\ lost' = lost
     \/ /\ lost < MaxLost /\ lost' = lost + 1
        /\ fetched' = fetched
  /\ rpc' = [rpc EXCEPT ![r] = "hydrate"]
  /\ UNCHANGED <<mrow, votes, held, vpc, counted, hot, evict, shown>>

(* Faulty variant: the entries are trusted without reading the rows. *)
HydratableAny(m) == TRUE

(* _HYDRATE_HOT_SQL: the set only proposes; the row decides. *)
Hydratable(m) == mrow[m].st = "active"

KeepFirstSide(s) ==
  FoldLeft(LAMBDA kept, m : IF \E k \in ToSet(kept) : {k, m} \in Disputes THEN kept ELSE Append(kept, m),
           <<>>, s)

(* _hydrate_hot, the guard, the collapse and the cut. *)
HydrateHot(r) ==
  /\ rpc[r] = "hydrate"
  /\ LET live == SelectSeq(fetched[r], LAMBDA m : Hydratable(m) /\ m \notin Withheld)
     IN  shown' = [shown EXCEPT ![r] = Upto(KeepFirstSide(live), HotLimit)]
  /\ rpc' = [rpc EXCEPT ![r] = "done"]
  /\ UNCHANGED <<mrow, votes, held, vpc, counted, hot, evict, fetched, goneAt, lost>>

FeedbackNext ==
  \/ \E v \in Voters : \/ LoadMemory(v) \/ CountVotes(v) \/ UpdateUsefulness(v)
                       \/ VoteFails(v) \/ RefreshHot(v)
  \/ \E m \in Memories : \/ WriteCreated(m) \/ ForgetCommit(m) \/ ForgetEvict(m) \/ Supersede(m)
  \/ HotExpires
  \/ \E r \in Readers : ReadHot(r) \/ HydrateHot(r)

FeedbackSpec == FeedbackInit /\ [][FeedbackNext]_fVars

-----------------------------------------------------------------------------
(* After every vote the stored score is the smoothed share of all votes in  *)
(* the ledger, however the transactions of several agents overlap: no vote  *)
(* is counted on top of a tally that misses another one.                    *)
ScoreIsTheLedger ==
  \A m \in Memories :
    held[m] = 0 /\ (\E k \in DOMAIN votes : k[1] = m) => mrow[m].useful = UsefulnessOf(votes, m)

(* A hot page shows no memory that was forgotten or superseded before the   *)
(* request, although the set may still, or again, contain it; nor one the   *)
(* guard blocks, nor both sides of an escalation.                           *)
HotPageIsLive ==
  \A r \in Readers :
    LET on == ToSet(shown[r])
    IN  /\ on \cap (goneAt[r] \cup Withheld) = {}
        /\ \A a, b \in on : {a, b} \notin Disputes
=============================================================================
