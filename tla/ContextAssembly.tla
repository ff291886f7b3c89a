--------------------------- MODULE ContextAssembly ---------------------------
(***************************************************************************)
(* The context service: an AssembleContext call verifies its caller and    *)
(* principal, fans out to the directive cache, the hot memories and the    *)
(* search under a deadline for each branch and one for all, merges what    *)
(* came back, and packs it. Calls run beside each other,                   *)
(* beside conflicts that are opened in the memory service, and beside the  *)
(* shutdown of the server.                                                 *)
(*                                                                         *)
(* The packer chooses memories under a token budget by a bucketed knapsack *)
(* with repair, or greedily when the table would be too large, then trims  *)
(* and refills for the markup around each memory and the separators        *)
(* between them.  A candidate is a record [id, score, raw, wrap]: its rank *)
(* key, the estimate of its content and the extra tokens of its wrapper.   *)
(* Scores are integers; a selection is a sequence, as in the code.         *)
(***************************************************************************)
EXTENDS Integers, Sequences, FiniteSets, SequencesExt, FiniteSetsExt

CONSTANTS BucketSize,     \* BUCKET_SIZE
          CellCeiling,    \* packer_dp_cell_ceiling
          MaxSkips,       \* packer_max_consecutive_skips
          Separator       \* tokens of the newline between two memories

\* score_memory_hit and memory_id as sort key: higher scores first, ties by id.
Before(a, b) == a.score > b.score \/ (a.score = b.score /\ a.id < b.id)
Ordered(cands) == SetToSortSeq(cands, Before)

\* _memory_wrap_delta: the estimate of the element around the content, less the content's.
WrapTokens(m) == m.wrap

\* _wrap_aware_costs.
Cost(m) == m.raw + WrapTokens(m)
Total(f(_), sel) == FoldLeft(LAMBDA sum, m : sum + f(m), 0, sel)
TokensOf(sel) == Total(Cost, sel)
Score(m) == m.score
Value(sel) == Total(Score, sel)
Without(sel, m) == SelectSeq(sel, LAMBDA x : x # m)

\* _drop_lowest_score and the choice of _drop_over_budget: lowest score, ties by lowest id.
Lowest(sel) == CHOOSE m \in ToSet(sel) :
                 \A x \in ToSet(sel) : m.score < x.score \/ (m.score = x.score /\ m.id <= x.id)

(*------------------------------ the knapsack -----------------------------*)

BucketWeight(t) == IF t <= 0 THEN 0 ELSE Max({1, t \div BucketSize})

\* One row of the table: the best value for each capacity, and whether this item is taken.
DpRow(prev, m, buckets) ==
  LET w == BucketWeight(Cost(m))
  IN  [c \in 0..buckets |->
         IF w <= c /\ prev[c - w].value + m.score > prev[c].value
           THEN [value |-> prev[c - w].value + m.score, keep |-> TRUE]
           ELSE [value |-> prev[c].value, keep |-> FALSE]]

\* _dp_select and _dp_backtrack.
DpSelect(order, buckets) ==
  LET empty == [c \in 0..buckets |-> [value |-> 0, keep |-> FALSE]]
      rows == FoldLeft(LAMBDA rs, m : Append(rs, DpRow(Last(rs), m, buckets)), <<empty>>, order)
      back == FoldLeft(LAMBDA acc, i :
                         IF rows[i + 1][acc.left].keep
                           THEN [left |-> acc.left - BucketWeight(Cost(order[i])),
                                 sel |-> <<order[i]>> \o acc.sel]
                           ELSE acc,
                       [left |-> buckets, sel |-> <<>>],
                       [k \in 1..Len(order) |-> Len(order) + 1 - k])
  IN  back.sel

\* The floor in BucketWeight lets the table overfill the budget.
DropOverBudget(sel, budget) ==
  FoldLeft(LAMBDA s, k : IF TokensOf(s) > budget THEN Without(s, Lowest(s)) ELSE s,
           sel, [k \in 1..Len(sel) |-> k])

GreedyRefill(sel, order, budget, exclude) ==
  FoldLeft(LAMBDA s, m :
             IF m \in ToSet(s) \cup exclude \/ Cost(m) > budget - TokensOf(s) THEN s
             ELSE Append(s, m),
           sel, order)

ShouldLocalImprove(sel, order, budget) ==
  /\ sel # <<>>
  /\ LET room == budget - TokensOf(sel) + Max({Cost(m) : m \in ToSet(sel)})
     IN  \E m \in ToSet(order) \ ToSet(sel) : 0 < Cost(m) /\ Cost(m) <= room

\* _is_better_selection: more value, then the smaller sorted list of ids.
IdsBefore(s, t) ==
  LET ids(sel) == SetToSortSeq({m.id : m \in ToSet(sel)}, <)
      a == ids(s)
      b == ids(t)
  IN  \E k \in 0..Min({Len(a), Len(b)}) :
        /\ \A i \in 1..k : a[i] = b[i]
        /\ \/ k = Len(a) /\ k < Len(b)
           \/ k < Len(a) /\ k < Len(b) /\ a[k + 1] < b[k + 1]

IsBetter(s, t) == Value(s) > Value(t) \/ (Value(s) = Value(t) /\ IdsBefore(s, t))

\* Every item of the first selection is dropped once and the rest refilled without it.
LocalImprove(sel, order, budget) ==
  FoldLeft(LAMBDA best, m :
             LET trial == GreedyRefill(Without(best, m), order, budget, {m})
             IN  IF IsBetter(trial, best) THEN trial ELSE best,
           sel, sel)

RepairExactBudget(sel, order, budget) ==
  LET kept == DropOverBudget(sel, budget)
      full == GreedyRefill(kept, order, budget, {})
  IN  IF Len(kept) < Len(sel) \/ ShouldLocalImprove(full, order, budget)
        THEN LocalImprove(full, order, budget) ELSE full

(*------------------------------- the packer ------------------------------*)

\* _greedy_select stops after more than MaxSkips misses in a row.
GreedySelect(order, budget) ==
  FoldLeft(LAMBDA acc, m :
             IF acc.skips > MaxSkips THEN acc
             ELSE IF Cost(m) <= budget - TokensOf(acc.sel)
                    THEN [sel |-> Append(acc.sel, m), seen |-> acc.seen \cup {m}, skips |-> 0]
                    ELSE [acc EXCEPT !.seen = @ \cup {m}, !.skips = @ + 1],
           [sel |-> <<>>, seen |-> {}, skips |-> 0], order)

\* _empty_pack: an empty list or a budget of zero ends early.
EmptyPack(cands) == [memories |-> <<>>, excluded |-> cands, path |-> "dp"]

\* _finalize sorts by score; excluded are the candidates examined and not selected.
Finalized(sel, seen, path) ==
  [memories |-> Ordered(ToSet(sel)), excluded |-> seen \ ToSet(sel), path |-> path]

Pack(cands, budget) ==
  LET order == Ordered(cands)
      buckets == Max({1, budget \div BucketSize})
      greedy == GreedySelect(order, budget)
      dp == RepairExactBudget(DpSelect(order, buckets), order, budget)
  IN  IF cands = {} \/ budget <= 0 THEN EmptyPack(cands)
      ELSE IF Len(order) * (buckets + 1) > CellCeiling
        THEN Finalized(greedy.sel, greedy.seen, "greedy")
        ELSE Finalized(dp, cands, "dp")

(*------------------------- trimming for the markup -----------------------*)

\* _selection_fits_budget: content, wrappers and the separators between memories.
Wrapped(sel) == TokensOf(sel) + (IF Len(sel) <= 1 THEN 0 ELSE (Len(sel) - 1) * Separator)
Fits(sel, budget) == Wrapped(sel) <= budget

DropUntilWrapFits(sel, budget) ==
  FoldLeft(LAMBDA s, k : IF Fits(s, budget) THEN s ELSE Without(s, Lowest(s)),
           sel, [k \in 1..Len(sel) |-> k])

\* Faulty variant: nothing is put back after the trim.
NoRefill(sel, cands, budget) == sel

GreedyWrapRefill(sel, cands, budget) ==
  FoldLeft(LAMBDA s, m :
             IF m \in ToSet(s) \/ ~Fits(Append(s, m), budget) THEN s ELSE Append(s, m),
           sel, Ordered(cands))

\* Faulty variant: the packer's selection is used as it is.
NoTrim(packed, cands, budget) == packed

\* _trim_packed_for_wrap with _dropped_after_refill and _rebuild_after_wrap_trim.
TrimPackedForWrap(packed, cands, budget) ==
  LET kept == DropUntilWrapFits(packed.memories, budget)
      refilled == GreedyWrapRefill(kept, cands, budget)
      dropped == (ToSet(packed.memories) \cup packed.excluded) \ ToSet(refilled)
  IN  IF budget <= 0 THEN packed
      ELSE IF dropped = {} /\ Len(refilled) = Len(packed.memories) THEN packed
      ELSE [packed EXCEPT !.memories = refilled, !.excluded = dropped]

\* _pack_scored.
PackScored(cands, budget) == TrimPackedForWrap(Pack(cands, budget), cands, budget)

\* _memories_used: how each candidate is reported.
Exclusion(m, packed) ==
  IF m \in ToSet(packed.memories) THEN "included"
  ELSE IF m \in packed.excluded THEN "budget" ELSE "filter"

(*------------------------------ the service ------------------------------*)


CONSTANTS Calls,         \* concurrent RPCs
          Requests,      \* what a call may carry, see Request below
          Corpora,       \* what the memory service holds: [hot, cold, rival]
          Window, MaxOutput, ReserveFloor, ReserveCap, Overhead,  \* scaled sizes of budget.py
          Config         \* start-up settings: [token (configured caller token), addr]

Sources == {"directive", "hot", "cold"}
NoPage == {}
\* The two memories of the one conflict the memory service may escalate.
Group == "g"

\* A request: [method, tokens (values of the caller token header), principal, selectors,
\* bounded (sizes within _request_from_proto), ids (correlation ids parse), model, skipHot,
\* skipCold, limit (max_memories), available, history (characters)].

VARIABLES server,    \* "down", "up", "stopping", "stopped", "closed"
          corpus,    \* the pages the memory service answers with
          open,      \* the conflict has been escalated
          call       \* per call: request, step, branches, answer

contextVars == <<server, corpus, open, call>>

NewCall == [step |-> "new", req |-> <<>>, known |-> FALSE, gone |-> FALSE, code |-> "none",
            branch |-> [s \in Sources |-> "none"], page |-> [s \in Sources |-> NoPage],
            directive |-> 0]

ContextTypeOK ==
  /\ server \in {"down", "up", "stopping", "stopped", "closed"}
  /\ corpus \in Corpora /\ open \in BOOLEAN
  /\ \A c \in Calls :
       /\ call[c].step \in {"new", "retrieve", "deadline", "cancelled", "pack", "done"}
       /\ call[c].branch \in [Sources -> {"none", "running", "cancelling", "success",
                                          "timeout", "error"}]

ContextInit == /\ server = "down" /\ open = FALSE
               /\ corpus \in Corpora
               /\ call = [c \in Calls |-> NewCall]

(*------------------------- caller, principal, budget ---------------------*)

\* require_service_token, in the registered wrapper and again in the servicer: exactly one
\* entry, and it matches.
CallerAuthenticated(r) == r.tokens = <<"match">>

\* _principal_message and _require_authority: present, and issued by the auth service.
PrincipalPresent(r) == r.principal \notin {"missing", "forged"}

\* _require_issued_at and _require_not_expired: neither too old, nor expired, nor from a
\* clock that is too far ahead.
PrincipalCurrent(r) == r.principal \notin {"stale", "expired", "ahead"}

\* verify_principal; the ids must be canonical too.
PrincipalVerified(r) ==
  PrincipalPresent(r) /\ PrincipalCurrent(r) /\ r.principal # "noncanonical"

\* bind_selectors: the tenant fields of the request are those of its principal.
SelectorsBound(r) == r.selectors = "principal"

\* _generic_handler: the RPCs of the service; two of them are not implemented.
Registered(r) == r.method \in {"AssembleContext", "SearchMemories", "RecordMemoryFeedback"}
Implemented(r) == r.method = "AssembleContext"

\* _request_from_proto with its bounds, and the ids for correlation and tracing.
Bounded(r) == r.bounded
CorrelationIdsValid(r) == r.ids
WellFormed(r) == Bounded(r) /\ CorrelationIdsValid(r)

\* CapabilityCatalog.for_model.
KnownModel(r) == r.model = "known"

\* The status code an RPC ends with before anything is retrieved; "OK" goes on. An unknown
\* model raises in the retriever's budget, before any I/O.
Admission(r) ==
  CASE ~Registered(r)           -> "UNIMPLEMENTED"
    [] ~CallerAuthenticated(r)  -> "UNAUTHENTICATED"
    [] ~Implemented(r)          -> "UNIMPLEMENTED"
    [] ~PrincipalVerified(r)    -> "UNAUTHENTICATED"
    [] ~SelectorsBound(r)       -> "PERMISSION_DENIED"
    [] ~WellFormed(r)           -> "INVALID_ARGUMENT"
    [] ~KnownModel(r)           -> "UNKNOWN"
    [] OTHER                    -> "OK"

\* _estimate_chars_div_4.
EstimateTokens(chars) == (chars + 3) \div 4

\* _response_reserve: 15 percent of the window within floor, model limit and cap.
ResponseReserve == Max({ReserveFloor, Min({(Window * 15) \div 100, MaxOutput, ReserveCap})})

\* _apply_available_tokens: the caller may lower the budget.
AvailableTokens(r, usable) ==
  IF r.available <= 0 \/ r.available >= usable THEN usable ELSE r.available

\* BudgetCalculator.calculate.
UsableBudget(r, directive) ==
  LET used == ResponseReserve + Overhead + EstimateTokens(directive) + EstimateTokens(r.history)
  IN  AvailableTokens(r, Max({0, Window - used}))

(*------------------------------- the call --------------------------------*)

\* _startup_service_token and _require_loopback_bind: no start without a strong caller
\* token, or on an address that is not a loopback literal.
TokenConfigured == Config.token = "strong"
LoopbackBind == Config.addr = "loopback"

StartServer ==
  /\ server = "down" /\ TokenConfigured /\ LoopbackBind
  /\ server' = "up"
  /\ UNCHANGED <<corpus, open, call>>

\* assemble_context up to the three branches, and the two RPCs that are not implemented.
HandleRpc(c) ==
  /\ server = "up" /\ call[c].step = "new"
  /\ \E r \in Requests :
       LET code == Admission(r)
       IN  call' = [call EXCEPT ![c] =
             IF code = "OK"
               THEN [@ EXCEPT !.req = r, !.step = "retrieve", !.known = open,
                              !.branch = [s \in Sources |-> "running"]]
               ELSE [@ EXCEPT !.req = r, !.step = "done", !.code = code]]
  /\ UNCHANGED <<server, corpus, open>>

\* RedisDirectiveLookup: the length of a cached directive, or zero for none.
DirectiveLookup == {0, 8}

\* The directive branch: what the lookup returns, or a failure.
DirectiveBranch(c) ==
  /\ call[c].branch["directive"] = "running"
  /\ \/ \E len \in DirectiveLookup :
          call' = [call EXCEPT ![c].branch["directive"] = "success", ![c].directive = len]
     \/ \E o \in {"timeout", "error"} : call' = [call EXCEPT ![c].branch["directive"] = o]
  /\ UNCHANGED <<server, corpus, open>>

\* What the memory service answers now: while the conflict is open each hit of the pair is
\* tagged, and the service itself shows one side of it per page.
Answer(s) ==
  LET hits == corpus[s]
      tag(h) == [h EXCEPT !.groups = IF open /\ h.id \in corpus.rival THEN {Group} ELSE {}]
      hidden(h) == /\ open /\ h.id \in corpus.rival
                   /\ \E k \in hits : k.id \in corpus.rival /\ Before(k, h)
  IN  {tag(h) : h \in {x \in hits : ~hidden(x)}}

\* Faulty variant: the tenant of the hits is not looked at.
FilterForeign(c, s) ==
  /\ s # "directive" /\ call[c].branch[s] = "running"
  /\ call' = [call EXCEPT ![c].branch[s] = "success", ![c].page[s] = Answer(s)]
  /\ UNCHANGED <<server, corpus, open>>

\* _memory_branch: one foreign hit fails the branch, and so do a timeout of the branch, a
\* transport error and a malformed answer.
MemoryBranch(c, s) ==
  /\ s # "directive" /\ call[c].branch[s] = "running"
  /\ \/ /\ \A h \in corpus[s] : h.own
        /\ call' = [call EXCEPT ![c].branch[s] = "success", ![c].page[s] = Answer(s)]
     \/ \E o \in {"timeout", "error"} : call' = [call EXCEPT ![c].branch[s] = o]
  /\ UNCHANGED <<server, corpus, open>>

CancelRunning(b) == [s \in Sources |-> IF b[s] = "running" THEN "cancelling" ELSE b[s]]
Settled(c) == \A s \in Sources : call[c].branch[s] \notin {"running", "cancelling"}

\* _wait_with_cancel: the deadline of the whole retrieval cancels what still runs ...
WallDeadline(c) ==
  /\ call[c].step = "retrieve" /\ ~Settled(c)
  /\ call' = [call EXCEPT ![c] = [@ EXCEPT !.step = "deadline", !.branch = CancelRunning(@)]]
  /\ UNCHANGED <<server, corpus, open>>

\* Faulty variant: a cancelled call leaves its branches alone.
LeaveBranches(c) ==
  /\ call[c].step \in {"retrieve", "deadline", "pack"} /\ ~call[c].gone
  /\ call' = [call EXCEPT ![c] =
       IF @.step = "pack" THEN [@ EXCEPT !.gone = TRUE]
       ELSE [@ EXCEPT !.gone = TRUE, !.step = "done", !.code = "DEADLINE_EXCEEDED"]]
  /\ UNCHANGED <<server, corpus, open>>

\* ... and so does the cancellation of the RPC, by its client or by a server that stops.
Cancel(c) ==
  /\ call[c].step \in {"retrieve", "deadline", "pack"} /\ ~call[c].gone
  /\ call' = [call EXCEPT ![c] =
       IF @.step = "pack" THEN [@ EXCEPT !.gone = TRUE]
       ELSE [@ EXCEPT !.gone = TRUE, !.step = "cancelled", !.branch = CancelRunning(@)]]
  /\ UNCHANGED <<server, corpus, open>>

\* A cancelled branch has run its clean-up.
BranchCancelled(c, s) ==
  /\ call[c].branch[s] = "cancelling"
  /\ call' = [call EXCEPT ![c].branch[s] = "timeout"]
  /\ UNCHANGED <<server, corpus, open>>

\* Faulty variant: a call goes on only with the results of all branches.
GatherAll(c) ==
  /\ call[c].step \in {"retrieve", "deadline", "cancelled"}
  /\ \A s \in Sources : call[c].branch[s] \in {"success", "error"}
  /\ call' = [call EXCEPT ![c].step = "pack"]
  /\ UNCHANGED <<server, corpus, open>>

\* gather returns; _merge_results or the abort of a cancelled call follow.
Gather(c) ==
  /\ call[c].step \in {"retrieve", "deadline", "cancelled"} /\ Settled(c)
  /\ call' = [call EXCEPT ![c] =
       IF @.step = "cancelled" THEN [@ EXCEPT !.step = "done", !.code = "DEADLINE_EXCEEDED"]
       ELSE [@ EXCEPT !.step = "pack"]]
  /\ UNCHANGED <<server, corpus, open>>

(*--------------------------- scoring and packing -------------------------*)

\* _apply_skip_options.
Hits(c) == (IF call[c].req.skipHot THEN {} ELSE call[c].page["hot"]) \cup
           (IF call[c].req.skipCold THEN {} ELSE call[c].page["cold"])

\* _source_usable and _classify_degradation.
Level(c) ==
  LET hot == ~call[c].req.skipHot /\ call[c].branch["hot"] = "success"
      cold == ~call[c].req.skipCold /\ call[c].branch["cold"] = "success"
  IN  IF hot /\ cold THEN "L0" ELSE IF ~hot /\ ~cold THEN "L2" ELSE "L1"

\* _dedupe_hits: the copy with the higher score, then the lower rank, with the conflict
\* groups of all copies.
Dedupe(hits) ==
  {[h EXCEPT !.groups = UNION {k.groups : k \in {x \in hits : x.id = h.id}}] :
     h \in {x \in hits : \A k \in hits : k.id = x.id =>
                           x.score > k.score \/ (x.score = k.score /\ x.rank <= k.rank)}}

\* Faulty variant: conflicts are left to the memory service, which resolves each page.
KeepAll(hits) == hits

\* collapse_conflicts: in the order of scores, a hit that shares a group with one kept
\* before is dropped.
CollapseConflicts(hits) ==
  LET step(kept, h) == IF \E k \in kept : k.groups \cap h.groups # {} THEN kept
                       ELSE kept \cup {h}
  IN  FoldLeft(step, {}, Ordered(hits))

\* _score_candidates: no memories at level L2; the first max_memories of the others.
Scored(c) ==
  LET all == Ordered(CollapseConflicts(Dedupe(Hits(c))))
      limit == call[c].req.limit
  IN  IF Level(c) = "L2" THEN {}
      ELSE ToSet(SubSeq(all, 1, IF limit > 0 THEN Min({limit, Len(all)}) ELSE Len(all)))

Candidate(h) == [id |-> h.id, score |-> h.score, raw |-> h.raw, wrap |-> h.wrap]

\* _pack_and_format and _build_assembly_result: the answer is a function of what the call
\* has gathered.
Result(c) ==
  LET cands == {Candidate(h) : h \in Scored(c)}
      budget == UsableBudget(call[c].req, call[c].directive)
  IN  [level |-> Level(c), scored |-> cands, budget |-> budget,
       packed |-> PackScored(cands, budget)]

\* score_memory_hit requires similarity and importance in [0, 1].
UnitScores(c) == \A h \in Hits(c) : h.unit

\* assemble and the end of assemble_context: a similarity outside [0, 1] raises; an answer
\* is dropped when the call was cancelled meanwhile.
PackAndFormat(c) ==
  /\ call[c].step = "pack"
  /\ call' = [call EXCEPT ![c].step = "done",
                          ![c].code = IF ~UnitScores(c) THEN "UNKNOWN"
                                      ELSE IF call[c].gone THEN "DEADLINE_EXCEEDED" ELSE "OK"]
  /\ UNCHANGED <<server, corpus, open>>

(*-------------------------- environment and shutdown ---------------------*)

\* The memory service escalates a conflict.
OpenConflict ==
  /\ ~open /\ open' = TRUE
  /\ UNCHANGED <<server, corpus, call>>

\* A signal, or the end of the server: no new calls; calls have a grace period, after which
\* they are cancelled (Cancel above).
RequestShutdown ==
  /\ server = "up" /\ server' = "stopping"
  /\ UNCHANGED <<corpus, open, call>>

Active(c) == call[c].step \notin {"new", "done"}

StopServer ==
  /\ server = "stopping" /\ \A c \in Calls : ~Active(c)
  /\ server' = "stopped"
  /\ UNCHANGED <<corpus, open, call>>

\* _shutdown_runtime: the second stop is a no-op, then the clients are closed.
CloseRuntime ==
  /\ server = "stopped" /\ server' = "closed"
  /\ UNCHANGED <<corpus, open, call>>

CallStep(c) == \/ DirectiveBranch(c) \/ WallDeadline(c) \/ Gather(c) \/ PackAndFormat(c)
               \/ \E s \in Sources : MemoryBranch(c, s) \/ BranchCancelled(c, s)

ContextNext ==
  \/ StartServer \/ RequestShutdown \/ StopServer \/ CloseRuntime \/ OpenConflict
  \/ \E c \in Calls : HandleRpc(c) \/ Cancel(c) \/ CallStep(c)

\* The event loop runs every ready task, timers fire and clean-ups end.
ContextFairness ==
  /\ \A c \in Calls : WF_contextVars(CallStep(c))
  /\ WF_contextVars(StopServer) /\ WF_contextVars(CloseRuntime)

ContextSpec == ContextInit /\ [][ContextNext]_contextVars /\ ContextFairness

(*------------------------------- properties ------------------------------*)

Answered(c) == call[c].code = "OK"

\* What is put into the prompt, with wrappers and separators, fits the usable budget, on the
\* knapsack and on the greedy path (packer._finalize and assemble._trim_packed_for_wrap).
PackedFits ==
  \A c \in Calls : Answered(c) =>
    LET r == Result(c)
    IN  r.packed.memories # <<>> => Fits(r.packed.memories, r.budget)

\* No candidate that would still fit is left out, and a candidate is reported as cut by the
\* filter only when the greedy path never looked at it.
NothingFittingLeftOut ==
  \A c \in Calls : Answered(c) =>
    LET r == Result(c)
    IN  \A m \in r.scored \ ToSet(r.packed.memories) :
          /\ r.budget > 0 => ~Fits(Append(r.packed.memories, m), r.budget)
          /\ Exclusion(m, r.packed) = "filter" => r.packed.path = "greedy"

\* Both sides of a conflict that was pending when the call began never reach the prompt,
\* although the two pages are read at different times and each hides only its own pairs.
NoKnownConflict ==
  \A c \in Calls : Answered(c) /\ call[c].known =>
    ~(corpus.rival \subseteq {m.id : m \in ToSet(Result(c).packed.memories)})

\* The reported level tells where the memories come from: L0 exactly when both sources
\* answered and were wanted, nothing at L2, and no memory of a source that failed, was
\* cancelled or skipped, or that holds a hit of another tenant.
LevelIsHonest ==
  \A c \in Calls : Answered(c) =>
    LET r == Result(c)
        got(s) == call[c].branch[s] = "success" /\ \A h \in corpus[s] : h.own
        from(s, m) == got(s) /\ \E h \in corpus[s] : h.id = m.id
    IN  /\ r.level = "L0" => got("hot") /\ got("cold")
        /\ r.level = "L2" => r.scored = {}
        /\ \A m \in r.scored : \/ ~call[c].req.skipHot /\ from("hot", m)
                               \/ ~call[c].req.skipCold /\ from("cold", m)

\* No branch outlives its call: when the RPC has ended, by an answer, the deadline or a
\* cancellation, none of its tasks runs, so none can use a client that is closed.
NoBranchOutlivesCall ==
  \A c \in Calls : call[c].step = "done" \/ server = "closed" =>
    \A s \in Sources : call[c].branch[s] \notin {"running", "cancelling"}

\* Every call that was admitted ends, whatever its branches do.
EveryCallEnds == \A c \in Calls : call[c].step = "retrieve" ~> call[c].step = "done"
=============================================================================
