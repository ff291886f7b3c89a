---------------------------- MODULE MemorySearch ----------------------------
(***************************************************************************)
(* One search request of the memory service while memories are created,    *)
(* superseded, escalated and forgotten.  Every SQL statement of the search *)
(* is a step of its own, since each runs in its own transaction and sees   *)
(* its own snapshot.                                                       *)
(*                                                                         *)
(* A scenario fixes what the corpus looks like to the query: the order of  *)
(* embedding similarity, the text matches, the scores, the rows whose      *)
(* content the read guard blocks, and what the memories that are created   *)
(* meanwhile do to existing ones.  Identifiers are naturals: their order   *)
(* is the tie-break of the code.                                           *)
(***************************************************************************)
EXTENDS Integers, Sequences, FiniteSets, SequencesExt, FiniteSetsExt

CONSTANTS
  Ids,        \* memories, a set of naturals
  Scenarios,  \* see above
  Modes,      \* "fused", "rerank" or "fallback": the settings of the service
  Limit,      \* the page size asked for
  RerankMax,  \* rerank_max_candidates
  RrfK,       \* search_rrf_k
  Floor,      \* composite_relevance_floor
  Sentinel,   \* the relevance of a text hit
  Weight,     \* the weight of relevance in the composite score
  Rescores    \* the relevances a reranker may give

VARIABLES
  scn,      \* the scenario
  mode,     \* the settings
  row,      \* "absent", "active" or "gone"
  vec,      \* memories with an embedding
  pending,  \* pending escalations: sets of two memories
  pc,       \* step of the search
  byVec,    \* result of the vector channel
  byText,   \* result of the text channel
  rows,     \* hydrated rows: id -> the escalations read with it
  score,    \* relevances given by the reranker
  sent,     \* memories whose content was sent to the reranker
  page,     \* the page returned
  before    \* history: memories gone when the search began

rowVars == <<row, vec, pending>>
sVars == <<scn, mode, row, vec, pending, pc, byVec, byText, rows, score, sent, page, before>>

Pages == {s \in UNION {[1..n -> Ids] : n \in 0..Limit} : IsInjective(s)}

(* Rows and requests are of their kinds. *)
SearchTypeOK ==
  /\ row \in [Ids -> {"absent", "active", "gone"}]
  /\ vec \subseteq Ids
  /\ \A e \in pending : e \subseteq Ids /\ Cardinality(e) = 2
  /\ DOMAIN rows \subseteq Ids
  /\ page \in Pages

Active == {i \in Ids : row[i] = "active"}

SearchInit ==
  /\ scn \in Scenarios
  /\ mode \in Modes
  /\ row = [i \in Ids |-> IF i \in DOMAIN scn.fresh THEN "absent" ELSE "active"]
  /\ vec = {i \in Ids : i \notin DOMAIN scn.fresh}
  /\ pending = scn.open
  /\ pc = "start"
  /\ byVec = <<>> /\ byText = <<>>
  /\ rows = <<>> /\ score = <<>>
  /\ sent = {} /\ page = <<>> /\ before = {}

-----------------------------------------------------------------------------
(* The writers, as far as a search can see them. *)

(* One transaction inserts the memory, marks the ones it supersedes and     *)
(* opens an escalation for each one it may contradict.                      *)
Create(n) ==
  /\ row[n] = "absent"
  /\ LET new == scn.fresh[n]
     IN  /\ row' = [i \in Ids |-> IF i = n THEN "active"
                                  ELSE IF i \in new.supersedes /\ row[i] = "active" THEN "gone"
                                  ELSE row[i]]
         /\ pending' = pending \cup {{n, c} : c \in new.escalates}
  /\ UNCHANGED <<scn, mode, vec, pc, byVec, byText, rows, score, sent, page, before>>

(* The embedding is stored after the commit. *)
Upsert(n) ==
  /\ row[n] = "active" /\ n \notin vec
  /\ vec' = vec \cup {n}
  /\ UNCHANGED <<scn, mode, row, pending, pc, byVec, byText, rows, score, sent, page, before>>

Forget(i) ==
  /\ row[i] = "active"
  /\ row' = [row EXCEPT ![i] = "gone"]
  /\ vec' = vec \ {i}
  /\ UNCHANGED <<scn, mode, pending, pc, byVec, byText, rows, score, sent, page, before>>

-----------------------------------------------------------------------------
(* The two channels. *)

FirstN(s, n) == SubSeq(s, 1, IF Len(s) < n THEN Len(s) ELSE n)

(* SEARCH_SQL: the nearest active memories that have an embedding. *)
VectorHits == FirstN(SelectSeq(scn.vector, LAMBDA i : i \in Active /\ i \in vec), Limit)

(* FTS_SQL with its LIMIT, then the exclusion and the cut in Python. *)
TextHits(exclude, limit) ==
  FirstN(SelectSeq(FirstN(SelectSeq(scn.text, LAMBDA i : i \in Active), limit),
                   LAMBDA i : i \notin exclude),
         limit)

(* Reciprocal rank fusion over the two channels, as a fraction. *)
RankIn(s, i) == CHOOSE p \in 1..Len(s) : s[p] = i

Rrf(i, v, t) ==
  LET a == IF i \in ToSet(v) THEN <<1, RrfK + RankIn(v, i)>> ELSE <<0, 1>>
      b == IF i \in ToSet(t) THEN <<1, RrfK + RankIn(t, i)>> ELSE <<0, 1>>
  IN  <<a[1] * b[2] + b[1] * a[2], a[2] * b[2]>>

Above(x, y) == x[1] * y[2] > y[1] * x[2]

ReciprocalRankFusion(v, t) ==
  SetToSortSeq(ToSet(v) \cup ToSet(t),
               LAMBDA i, j : \/ Above(Rrf(i, v, t), Rrf(j, v, t))
                             \/ ~Above(Rrf(j, v, t), Rrf(i, v, t)) /\ i < j)

Fused == ReciprocalRankFusion(byVec, byText)

(* merge_candidates: the vector hits, then the text hits. *)
Merged == byVec \o byText

-----------------------------------------------------------------------------
(* Hydration and ranking. *)

(* _HYDRATE_SQL: the active rows among the candidates, each with the        *)
(* escalations it is part of, all in one snapshot.                          *)
Hydrate(cands) == [i \in cands \cap Active |-> {e \in pending : i \in e}]

(* _hydrate_missing: rows already read are not read again. *)
HydrateMissing(cands) == Hydrate(cands \ DOMAIN rows) @@ rows

(* A text hit has no similarity and counts with a fixed relevance. *)
RelevanceForComposite(i) == IF i \in ToSet(byVec) THEN scn.sim[i] ELSE Sentinel

Relevance(i, overrides) ==
  IF i \in DOMAIN overrides THEN overrides[i] ELSE RelevanceForComposite(i)

Composite(i, overrides) == Weight * Relevance(i, overrides) + scn.base[i]

(* rank_hydrated_hits: what reaches the floor, by score and then by id. *)
Ranked(cands, hyd, overrides) ==
  SetToSortSeq({i \in cands \cap DOMAIN hyd : Relevance(i, overrides) >= Floor},
               LAMBDA i, j : \/ Composite(i, overrides) > Composite(j, overrides)
                             \/ Composite(i, overrides) = Composite(j, overrides) /\ i < j)

(* The read guard, by the verdict on a row's content. *)
Allowed(s) == SelectSeq(s, LAMBDA i : i \notin scn.blocked)

(* collapse_conflict_pairs: the higher-ranked side of an escalation stays. *)
Collapse(s, hyd) ==
  FoldLeft(LAMBDA kept, i :
             IF \E k \in ToSet(kept) : hyd[k] \cap hyd[i] # {} THEN kept ELSE Append(kept, i),
           <<>>, s)

(* Faulty variant: the guard after the collapse, so that a blocked row      *)
(* first suppresses its counterpart and then disappears.                    *)
KeptLateGuard(s, hyd) == Allowed(Collapse(s, hyd))

Kept(s, hyd) == Collapse(Allowed(s), hyd)

-----------------------------------------------------------------------------
(* The request. *)

Finish(hyd, s) ==
  /\ rows' = hyd
  /\ page' = FirstN(s, Limit)
  /\ pc' = "done"

(* A failed embedding, statement or validation: 4xx or 503, and no page. *)
Refuse ==
  /\ pc \notin {"done", "failed"}
  /\ pc' = "failed"
  /\ UNCHANGED <<scn, mode, row, vec, pending, byVec, byText, rows, score, sent, page, before>>

(* Authorisation, the embedding of the query, and the choice of the path. *)
FindSimilar ==
  /\ pc = "start"
  /\ pc' = IF mode = "fallback" THEN "vector" ELSE "both"
  /\ before' = {i \in Ids : row[i] = "gone"}
  /\ UNCHANGED <<scn, mode, row, vec, pending, byVec, byText, rows, score, sent, page>>

(* asyncio.gather: the two channels in either order. *)
VectorCandidates ==
  /\ pc \in {"both", "vector"}
  /\ byVec' = VectorHits
  /\ pc' = IF pc = "both" THEN "text" ELSE "first"
  /\ UNCHANGED <<scn, mode, row, vec, pending, byText, rows, score, sent, page, before>>

TextFirst ==
  /\ pc = "both"
  /\ byText' = TextHits({}, Limit)
  /\ pc' = "vectorlast"
  /\ UNCHANGED <<scn, mode, row, vec, pending, byVec, rows, score, sent, page, before>>

AfterChannels == IF mode = "rerank" THEN "window" ELSE "fused"

TextLast ==
  /\ pc = "text"
  /\ byText' = TextHits({}, Limit)
  /\ pc' = AfterChannels
  /\ UNCHANGED <<scn, mode, row, vec, pending, byVec, rows, score, sent, page, before>>

VectorLast ==
  /\ pc = "vectorlast"
  /\ byVec' = VectorHits
  /\ pc' = AfterChannels
  /\ UNCHANGED <<scn, mode, row, vec, pending, byText, rows, score, sent, page, before>>

Window == ToSet(FirstN(Fused, RerankMax))

(* _rank_reranked: the window is hydrated before anything is sent. *)
HydrateWindow ==
  /\ pc = "window"
  /\ rows' = Hydrate(Window)
  /\ pc' = "rerank"
  /\ UNCHANGED <<scn, mode, row, vec, pending, byVec, byText, score, sent, page, before>>

(* Faulty variant: the documents of all hydrated rows are sent. *)
DocumentsUnguarded == Window \cap DOMAIN rows

(* _rerank_scores: what the guard would block is not sent. *)
Documents == (Window \cap DOMAIN rows) \ scn.blocked

(* Fewer than two documents, an error or the time limit: the fused order. *)
RerankDegraded ==
  /\ pc = "rerank"
  /\ pc' = "fused"
  /\ \/ sent' = sent
     \/ Cardinality(Documents) >= 2 /\ sent' = sent \cup Documents
  /\ UNCHANGED <<scn, mode, row, vec, pending, byVec, byText, rows, score, page, before>>

RerankApplied ==
  /\ pc = "rerank" /\ Cardinality(Documents) >= 2
  /\ sent' = sent \cup Documents
  /\ \E given \in [Documents -> Rescores] :
       LET kept == Collapse(Ranked(Documents, rows, given), rows)
       IN  /\ score' = given
           /\ IF kept = <<>> THEN pc' = "fused" /\ UNCHANGED <<rows, page>>
                             ELSE Finish(rows, kept)
  /\ UNCHANGED <<scn, mode, row, vec, pending, byVec, byText, before>>

(* _rank_fused_window, first pass: the page, and a refill if it is short. *)
RankFusedWindow ==
  /\ pc = "fused"
  /\ LET admitted == ToSet(FirstN(Fused, Limit))
         hyd == HydrateMissing(admitted)
         kept == Kept(Ranked(admitted, hyd, <<>>), hyd)
     IN  IF Len(kept) >= Limit \/ Len(Fused) <= Limit
         THEN Finish(hyd, kept)
         ELSE rows' = hyd /\ pc' = "refill" /\ page' = page
  /\ UNCHANGED <<scn, mode, row, vec, pending, byVec, byText, score, sent, before>>

(* Second pass: the rest of the fused candidates is read and all are ranked. *)
Refill ==
  /\ pc = "refill"
  /\ LET hyd == HydrateMissing(ToSet(Fused))
     IN  Finish(hyd, Kept(Ranked(ToSet(Fused), hyd, <<>>), hyd))
  /\ UNCHANGED <<scn, mode, row, vec, pending, byVec, byText, score, sent, before>>

(* _find_similar_fallback: the vector page alone when it is full. *)
FallbackVector ==
  /\ pc = "first"
  /\ LET hyd == Hydrate(ToSet(byVec))
         kept == Kept(Ranked(ToSet(byVec), hyd, <<>>), hyd)
     IN  IF Len(kept) >= Limit
         THEN Finish(hyd, kept)
         ELSE rows' = hyd /\ page' = FirstN(kept, Limit) /\ pc' = "supplement"
  /\ UNCHANGED <<scn, mode, row, vec, pending, byVec, byText, score, sent, before>>

(* Every vector hit is excluded, so the limit grows by their number. *)
FallbackText ==
  /\ pc = "supplement"
  /\ byText' = FirstN(TextHits(ToSet(byVec), Limit + Len(byVec)), Limit)
  /\ pc' = IF byText' = <<>> THEN "done" ELSE "merge"
  /\ UNCHANGED <<scn, mode, row, vec, pending, byVec, rows, score, sent, page, before>>

(* Faulty variant: the rows are ranked with the escalations they were read  *)
(* with, at two different moments.                                          *)
NeedsSnapshotNever(hyd) == FALSE

NeedsSnapshot(hyd) == \E i \in DOMAIN hyd : hyd[i] # {}

FallbackMerge ==
  /\ pc = "merge"
  /\ LET hyd == rows @@ Hydrate(ToSet(byText))
     IN  IF NeedsSnapshot(hyd)
         THEN rows' = hyd /\ pc' = "snapshot" /\ page' = page
         ELSE Finish(hyd, Kept(Ranked(ToSet(Merged), hyd, <<>>), hyd))
  /\ UNCHANGED <<scn, mode, row, vec, pending, byVec, byText, score, sent, before>>

(* _conflict_groups_snapshot: the escalations of all candidates at once.    *)
(* The rows themselves are not read again.                                  *)
ConflictGroupsSnapshot ==
  /\ pc = "snapshot"
  /\ LET hyd == [i \in DOMAIN rows |-> {e \in pending : i \in e}]
     IN  Finish(hyd, Kept(Ranked(ToSet(Merged), hyd, <<>>), hyd))
  /\ UNCHANGED <<scn, mode, row, vec, pending, byVec, byText, score, sent, before>>

Search ==
  \/ FindSimilar \/ VectorCandidates \/ TextFirst \/ TextLast \/ VectorLast
  \/ HydrateWindow \/ RerankDegraded \/ RerankApplied \/ RankFusedWindow \/ Refill
  \/ FallbackVector \/ FallbackText \/ FallbackMerge \/ ConflictGroupsSnapshot

SearchNext ==
  \/ \E i \in Ids : Create(i) \/ Upsert(i) \/ Forget(i)
  \/ Search
  \/ Refuse

SearchSpec == SearchInit /\ [][SearchNext]_sVars

-----------------------------------------------------------------------------
(* A page never holds both sides of an escalation that is pending when the  *)
(* page is put together, although its rows were read at different moments:  *)
(* an escalation is opened together with its newer side, and that side can  *)
(* be a candidate only afterwards.                                          *)
NoUnresolvedPair ==
  [][pc' = "done" /\ pc # "done" =>
       \A i, j \in ToSet(page') : i # j => {i, j} \notin pending]_sVars

Undisturbed(i) == i \in Active /\ i \notin scn.blocked

(* A page that could take more rows leaves out no candidate that is still   *)
(* active, readable and relevant enough, unless a row on the page           *)
(* contradicts it.  (A page that follows a reranker is cut from its window  *)
(* and makes no such promise.)                                              *)
NothingEligibleLeftOut ==
  pc = "done" /\ score = <<>> /\ Len(page) < Limit =>
    \A i \in ToSet(byVec) \cup ToSet(byText) :
      Undisturbed(i) /\ RelevanceForComposite(i) >= Floor =>
        \/ i \in ToSet(page)
        \/ \E k \in ToSet(page) : {i, k} \in pending

(* What the guard blocks reaches neither the caller nor the reranker, and a *)
(* memory that was gone before the request is never returned.               *)
NothingWithheldLeaves ==
  /\ sent \cap scn.blocked = {}
  /\ pc = "done" => ToSet(page) \cap (scn.blocked \cup before) = {}
=============================================================================
