---------------------------- MODULE MemoryLineage ----------------------------
(***************************************************************************)
(* GET /v1/memories/{id}/lineage: the recursive query that walks the        *)
(* relationships of a memory in both directions, and the end of its chain  *)
(* of supersessions, while other requests add memories and relationships.  *)
(* The two statements of a request see different snapshots.                *)
(***************************************************************************)
EXTENDS Integers, Sequences, FiniteSets, SequencesExt, FiniteSetsExt

CONSTANTS
  NMem,        \* bound on memories; a memory is its position in creation order
  Agents,
  LineageCap,  \* MAX_LINEAGE_DEPTH, the depth of the tip helper
  EdgeCap,     \* MAX_LINEAGE_EDGES
  MaxEdges,    \* bound on relationships
  Pairs,       \* the pairs of memories that may be related
  Questions    \* [root, agent, depth]; agent 0 is a token without an agent

VARIABLES
  owner,     \* sequence: the agent of each memory
  rels,      \* memory_relationships: <<source, target, type>>
  ask,       \* the request
  lpc,
  tip,       \* supersession_tip of the answer, 0 for NULL
  rootRels,  \* history: the relationships the first statement saw
  page,      \* the edges of the answer: <<edge, depth>>
  cut,       \* truncated
  pageView   \* history: the rows the second statement saw

lVars == <<owner, rels, ask, lpc, tip, rootRels, page, cut, pageView>>

Mems == 1..Len(owner)

LineageInit ==
  /\ owner = <<>>
  /\ rels = {}
  /\ ask \in Questions
  /\ lpc = "start"
  /\ tip = 0
  /\ rootRels = {}
  /\ page = <<>>
  /\ cut = FALSE
  /\ pageView = [owner |-> <<>>, rels |-> {}]

(* Bound: what is written after the answer cannot change it. *)
Writing == lpc \in {"start", "edges"}

Successors(view, m) == {e[1] : e \in {x \in view : x[2] = m /\ x[3] = "supersedes"}}

(* A create inserts a memory and supersedes memories of its agent that      *)
(* nothing supersedes yet.                                                  *)
Create(a, targets) ==
  /\ Writing
  /\ Len(owner) < NMem
  /\ Cardinality(rels) + Cardinality(targets) =< MaxEdges
  /\ \A t \in targets : owner[t] = a /\ Successors(rels, t) = {}
  /\ owner' = Append(owner, a)
  /\ rels' = rels \cup {<<Len(owner) + 1, t, "supersedes">> : t \in targets}
  /\ UNCHANGED <<ask, lpc, tip, rootRels, page, cut, pageView>>

(* insert_relationship: ON CONFLICT DO NOTHING. *)
Relate(s, t) ==
  /\ Writing
  /\ s # t /\ <<s, t>> \in Pairs /\ Cardinality(rels) < MaxEdges
  /\ rels' = rels \cup {<<s, t, "related">>}
  /\ UNCHANGED <<owner, ask, lpc, tip, rootRels, page, cut, pageView>>

-----------------------------------------------------------------------------
(* validate_lineage_query *)
DepthAllowed(d) == d \in 1..LineageCap

VisibleTo(own, a, m) == a = 0 \/ own[m] = a

Holds(path, m) == \E i \in DOMAIN path : path[i] = m

(* resolve_supersession_tip: the deepest node of the walk from target to    *)
(* source, the smallest id first.                                           *)
TipWalk(view, m) ==
  LET grow[d \in 0..LineageCap] ==
        IF d = 0 THEN {<<m>>}
        ELSE UNION {{Append(p, s) : s \in {x \in Successors(view, Last(p)) : ~Holds(p, x)}} : p \in grow[d - 1]}
      deepest == Max({d \in 0..LineageCap : grow[d] # {}})
  IN  Min({Last(p) : p \in grow[deepest]})

(* Faulty variant: the helper's last node is returned as it is. *)
SupersessionTipUnchecked(own, view, a, m) ==
  LET t == TipWalk(view, m) IN IF ~VisibleTo(own, a, t) THEN m ELSE t

(* A node that is itself superseded is no head: the answer is NULL. *)
SupersessionTip(own, view, a, m) ==
  LET t == TipWalk(view, m)
  IN  IF ~VisibleTo(own, a, t) THEN m
      ELSE IF Successors(view, t) # {} THEN 0 ELSE t

(* Faulty variant: one level less in the recursive term. *)
MayDescendShort(depth, limit) == depth + 1 < limit

MayDescend(depth, limit) == depth < limit

Far(e, m) == IF e[1] = m THEN e[2] ELSE e[1]

(* One level of the recursive term of _LINEAGE_SQL. *)
Extend(own, view, a, limit, walks) ==
  {[path |-> Append(w.path, Far(e, Last(w.path))), edge |-> e] :
     <<w, e>> \in {<<w, e>> \in walks \X view :
       /\ MayDescend(Len(w.path) - 1, limit)
       /\ Last(w.path) \in {e[1], e[2]}
       /\ VisibleTo(own, a, Far(e, Last(w.path)))
       /\ ~Holds(w.path, Far(e, Last(w.path)))}}

Walk(own, view, q) ==
  LET rows[d \in 0..q.depth] ==
        IF d = 0 THEN {[path |-> <<q.root>>, edge |-> <<>>]}
        ELSE Extend(own, view, q.agent, q.depth, rows[d - 1])
  IN  UNION {rows[d] : d \in 1..q.depth}

(* DISTINCT ON (edge_id) ... ORDER BY edge_id, depth *)
Shallowest(walks, e) == Min({Len(w.path) - 1 : w \in {x \in walks : x.edge = e}})

(* ORDER BY depth, type, edge: supersedes comes after related. *)
EdgeBefore(x, y) ==
  \/ x[2] < y[2]
  \/ x[2] = y[2] /\ x[1][3] # y[1][3] /\ x[1][3] = "related"
  \/ x[2] = y[2] /\ x[1][3] = y[1][3] /\ (x[1][1] < y[1][1] \/ (x[1][1] = y[1][1] /\ x[1][2] < y[1][2]))

EdgeRows(own, view, q) ==
  LET walks == Walk(own, view, q)
  IN  SetToSortSeq({<<w.edge, Shallowest(walks, w.edge)>> : w \in walks}, EdgeBefore)

-----------------------------------------------------------------------------
(* The first statement: root and tip, or 404. *)
ReadRoot ==
  /\ lpc = "start"
  /\ rootRels' = rels
  /\ IF ~DepthAllowed(ask.depth) \/ ask.root \notin Mems \/ ~VisibleTo(owner, ask.agent, ask.root)
     THEN lpc' = "refused" /\ tip' = tip
     ELSE lpc' = "edges" /\ tip' = SupersessionTip(owner, rels, ask.agent, ask.root)
  /\ UNCHANGED <<owner, rels, ask, page, cut, pageView>>

(* The second: one row more than the page tells whether there are others. *)
ReadEdges ==
  /\ lpc = "edges"
  /\ LET all == EdgeRows(owner, rels, ask)
         got == SubSeq(all, 1, IF Len(all) > EdgeCap THEN EdgeCap + 1 ELSE Len(all))
     IN  /\ page' = SubSeq(got, 1, IF Len(got) > EdgeCap THEN EdgeCap ELSE Len(got))
         /\ cut' = (Len(got) > EdgeCap)
  /\ pageView' = [owner |-> owner, rels |-> rels]
  /\ lpc' = "done"
  /\ UNCHANGED <<owner, rels, ask, tip, rootRels>>

(* statement_timeout or a lost connection: 503. *)
LineageFails ==
  /\ lpc \in {"start", "edges"}
  /\ lpc' = "failed"
  /\ UNCHANGED <<owner, rels, ask, tip, rootRels, page, cut, pageView>>

LineageNext ==
  \/ \E a \in Agents, targets \in SUBSET Mems : Create(a, targets)
  \/ \E s, t \in Mems : Relate(s, t)
  \/ ReadRoot \/ ReadEdges \/ LineageFails

LineageSpec == LineageInit /\ [][LineageNext]_lVars

-----------------------------------------------------------------------------
(* Reference: what can be reached from the root in at most d steps through  *)
(* visible memories.                                                        *)
Reach(own, view, q) ==
  LET r[d \in 0..NMem] ==
        IF d = 0 THEN {q.root}
        ELSE r[d - 1] \cup {x \in DOMAIN own :
               /\ VisibleTo(own, q.agent, x)
               /\ \E e \in view : x \in {e[1], e[2]} /\ Far(e, x) \in r[d - 1]}
  IN  r

(* The walk enumerates paths, with a cycle break and duplicates; what comes *)
(* out is the breadth-first neighbourhood: exactly the relationships that   *)
(* start less than the requested depth away, each once, at its distance,    *)
(* and a cut page loses only the farthest.                                  *)
PageIsNeighbourhood ==
  lpc = "done" =>
    LET r    == Reach(pageView.owner, pageView.rels, ask)
        Dist(m) == Min({d \in 0..NMem : m \in r[d]})
        near == {e \in pageView.rels :
                   \E d \in 0..(ask.depth - 1) :
                     /\ {e[1], e[2]} \cap r[d] # {}
                     /\ {e[1], e[2]} \subseteq r[d + 1]}
        at(e) == Min({Dist(e[1]), Dist(e[2])}) + 1
        shown == {x[1] : x \in ToSet(page)}
    IN  /\ \A x \in ToSet(page) : x[1] \in near /\ x[2] = at(x[1])
        /\ Cardinality(shown) = Len(page)
        /\ cut = (shown # near)
        /\ \A e \in near \ shown, x \in ToSet(page) : x[2] =< at(e)

(* A tip is named only when it is the head of the chain, and the head is    *)
(* always named when it is at most LineageCap supersessions away.           *)
TipIsHead ==
  lpc \in {"edges", "done"} =>
    LET hop[k \in 0..NMem] ==
          IF k = 0 THEN ask.root
          ELSE IF Successors(rootRels, hop[k - 1]) = {} THEN hop[k - 1]
               ELSE CHOOSE s \in Successors(rootRels, hop[k - 1]) : TRUE
    IN  tip = IF Successors(rootRels, hop[LineageCap]) = {} THEN hop[LineageCap] ELSE 0
=============================================================================
