------------------------ MODULE EvidenceAndCacheProofs ------------------------
(***************************************************************************)
(* Proofs about EvidenceOutbox for any number of requests, rows, sessions, *)
(* relays, attempts and faults, and about the budget cache of              *)
(* SnapshotCache for any organisations, requests, writers, capacity and    *)
(* number of lost messages.                                                *)
(*                                                                         *)
(* The outbox: the safety properties are not inductive by themselves.      *)
(* IInv adds what the code relies on without saying so: a claim token      *)
(* never exceeds the row's attempt count and is the only one of its batch  *)
(* for the row (ClaimsOK), a live session still has the version a producer *)
(* read (FenceOK), a relay about to acknowledge has seen the row in the    *)
(* projection (StepOK), and, when relays give up before recovery, every    *)
(* claim held is the current one (TimeoutOK).                              *)
(*                                                                         *)
(* The cache: what it serves is not older than the latest invalidation it  *)
(* applied (CacheInv).                                                     *)
(***************************************************************************)
EXTENDS EvidenceAck, SnapshotCache, TLAPS

\* The fence a producer read stays current while its session lives, and a row
\* exists only for a request whose fence was read.
FenceOK ==
  /\ \A q \in Requests : fence[q] # 0 /\ ~deleted[SessionOf[q]]
                          => fence[q] = version[SessionOf[q]]
  /\ \A r \in Rows : status[r] # "absent" => fence[RowOf(r)] # 0

\* Claim tokens never run ahead of the table.
ClaimsOK ==
  \A w \in Workers : \A c \in held[w] :
    /\ c.att <= attempts[c.row]
    /\ status[c.row] # "absent"
    /\ \A d \in held[w] : c.row = d.row => c = d

\* What a relay knows of the row it is working on.
StepOK ==
  \A w \in Workers :
    /\ pc[w] \in {"lookup", "insert", "ack"} => Kind[RowOf(cur[w].row)] = "ok"
    /\ pc[w] = "ack" => sink[cur[w].row] > 0
    /\ pc[w] = "drop" => \/ Kind[RowOf(cur[w].row)] = "terminal"
                         \/ deleted[SessionOf[RowOf(cur[w].row)]]

\* With the shorter operation timeout, a held claim is always the current one.
TimeoutOK ==
  TimeoutFirst =>
    /\ \A w \in Workers : \A c \in held[w] : StillOwned(c) /\ ~aged[c.row]
    /\ \A w \in Workers : pc[w] = "insert" => sink[cur[w].row] = 0
    /\ \A r \in Rows : sink[r] <= 1

\* The inductive invariant.
IInv == /\ TypeOK /\ FenceOK /\ ClaimsOK /\ ExclusiveClaim /\ StepOK
        /\ DeliveredIsProjected /\ OnlyValidProjected /\ PoisonJustified
        /\ TimeoutOK

-----------------------------------------------------------------------------
\* A row is a request and a sequence number.
LEMMA RowType ==
  \A r \in Rows : RowOf(r) \in Requests /\ r[2] \in 1..NRows /\ r = <<r[1], r[2]>>
BY DEF Rows, RowOf

\* Two claims with the same row and the same token are the same claim.
LEMMA ClaimEquality ==
  ASSUME NEW c \in Claims, NEW d \in Claims, c.row = d.row, c.att = d.att
  PROVE  c = d
BY DEF Claims

\* The claim a relay works on is one of those it holds.
LEMMA CurrentClaim ==
  ASSUME TypeOK, NEW w \in Workers, pc[w] \in Working
  PROVE  cur[w] \in held[w] /\ cur[w] \in Claims
BY Zenon DEF TypeOK

\* Settling a row or leaving the batch only takes claims away from one relay.
LEMMA BatchShrinks ==
  ASSUME TypeOK, NEW w \in Workers, NextRow(w) \/ LeaveBatch(w), pc[w] # "idle"
  PROVE  /\ held' \in [Workers -> SUBSET Claims]
         /\ pc' \in [Workers -> Steps]
         /\ cur' \in [Workers -> Claims \cup {NoClaim}]
         /\ \A v \in Workers : held'[v] \subseteq held[v] /\ cur[w] \notin held'[w]
         /\ \A v \in Workers \ {w} : pc'[v] = pc[v] /\ cur'[v] = cur[v] /\ held'[v] = held[v]
         /\ cur'[w] = NoClaim
         /\ pc'[w] \in {"next", "idle"}
         /\ pc'[w] = "idle" => held'[w] = {}
<1>1. CASE NextRow(w)
  BY <1>1, Zenon DEF NextRow, TypeOK, Steps
<1>2. CASE LeaveBatch(w)
  BY <1>2, Zenon DEF LeaveBatch, TypeOK, Steps
<1>3. QED BY <1>1, <1>2, Zenon

-----------------------------------------------------------------------------
\* The empty outbox satisfies the inductive invariant.
THEOREM InitInvariant == Init => IInv
BY NAssumption, SessionAssumption
DEF Init, IInv, TypeOK, FenceOK, ClaimsOK, ExclusiveClaim, StepOK, DeliveredIsProjected,
    OnlyValidProjected, PoisonJustified, TimeoutOK, Statuses, Steps, Working, Claims, NoClaim

\* Only a live session is tombstoned.
LEMMA SoftDeleteStep ==
  ASSUME IInv, NEW s \in Sessions, SoftDelete(s)
  PROVE  IInv'
<1>1. FenceOK'
  BY RowType, SessionAssumption, Zenon
  DEF IInv, FenceOK, TypeOK, SoftDelete, tableVars, workerVars
<1>2. /\ TypeOK' /\ ClaimsOK' /\ ExclusiveClaim' /\ StepOK'
      /\ DeliveredIsProjected' /\ OnlyValidProjected' /\ PoisonJustified'
      /\ TimeoutOK'
  BY RowType, SessionAssumption
  DEF IInv, TypeOK, ClaimsOK, ExclusiveClaim, StepOK, DeliveredIsProjected,
        OnlyValidProjected, PoisonJustified, TimeoutOK, StillOwned, Working,
        SoftDelete, tableVars, workerVars
<1>3. QED BY <1>1, <1>2, Zenon DEF IInv

\* A producer reads the fence of a live session.
LEMMA LookupFenceStep ==
  ASSUME IInv, NEW q \in Requests, LookupEvidenceFence(q)
  PROVE  IInv'
<1>1. FenceOK'
  BY RowType, SessionAssumption, Zenon
  DEF IInv, FenceOK, TypeOK, LookupEvidenceFence, sessionVars, tableVars,
        workerVars
<1>2. /\ TypeOK' /\ ClaimsOK' /\ ExclusiveClaim' /\ StepOK'
      /\ DeliveredIsProjected' /\ OnlyValidProjected' /\ PoisonJustified'
      /\ TimeoutOK'
  BY RowType, SessionAssumption, Zenon
  DEF IInv, TypeOK, ClaimsOK, ExclusiveClaim, StepOK, DeliveredIsProjected,
        OnlyValidProjected, PoisonJustified, TimeoutOK, StillOwned,
        LookupEvidenceFence, sessionVars, tableVars, workerVars
<1>3. QED BY <1>1, <1>2, Zenon DEF IInv

\* A run is inserted only when it has no rows, so no claim names its rows.
LEMMA PersistRunStep ==
  ASSUME IInv, NEW q \in Requests, PersistRun(q)
  PROVE  IInv'
<1>1. \A r \in Rows : RowOf(r) = q => status[r] = "absent"
  BY RowType, Zenon DEF PersistRun, HasRun, RowOf
<1>2. TypeOK'
  BY Zenon DEF IInv, TypeOK, PersistRun, Statuses, sessionVars, workerVars
<1>3. \A w \in Workers : \A c \in held[w] : c.row \in Rows /\ status'[c.row] = status[c.row]
  BY <1>1 DEF IInv, TypeOK, ClaimsOK, Claims, PersistRun
<1>4. FenceOK'
  BY RowType, Zenon DEF IInv, TypeOK, FenceOK, PersistRun, sessionVars
<1>5. ClaimsOK' /\ ExclusiveClaim' /\ StepOK' /\ TimeoutOK'
  BY <1>3 DEF IInv, ClaimsOK, ExclusiveClaim, StepOK, TimeoutOK, StillOwned,
              PersistRun, sessionVars, workerVars
<1>6. DeliveredIsProjected' /\ OnlyValidProjected' /\ PoisonJustified'
  BY Zenon DEF IInv, TypeOK, DeliveredIsProjected, OnlyValidProjected, PoisonJustified,
         PersistRun, sessionVars
<1>7. QED BY <1>2, <1>4, <1>5, <1>6, Zenon DEF IInv

\* A backoff runs out.
LEMMA BecomeDueStep ==
  ASSUME IInv, NEW r \in Rows, BecomeDue(r)
  PROVE  IInv'
<1>1. /\ TypeOK' /\ FenceOK' /\ ClaimsOK' /\ ExclusiveClaim' /\ StepOK'
      /\ DeliveredIsProjected' /\ OnlyValidProjected' /\ PoisonJustified'
      /\ TimeoutOK'
  BY RowType, SessionAssumption
  DEF IInv, TypeOK, FenceOK, ClaimsOK, ExclusiveClaim, StepOK,
        DeliveredIsProjected, OnlyValidProjected, PoisonJustified, TimeoutOK,
        StillOwned, BecomeDue, sessionVars, workerVars
<1>2. QED BY <1>1, Zenon DEF IInv

\* A claim becomes old enough to be recovered.
LEMMA BecomeAgedStep ==
  ASSUME IInv, NEW r \in Rows, BecomeAged(r)
  PROVE  IInv'
<1>1. TimeoutOK'
  BY TimeoutAssumption
  DEF IInv, TimeoutOK, TypeOK, HeldBy, StillOwned, BecomeAged, sessionVars,
        workerVars
<1>2. /\ TypeOK' /\ FenceOK' /\ ClaimsOK' /\ ExclusiveClaim' /\ StepOK'
      /\ DeliveredIsProjected' /\ OnlyValidProjected' /\ PoisonJustified'
  BY RowType, SessionAssumption, Zenon
  DEF IInv, TypeOK, FenceOK, ClaimsOK, ExclusiveClaim, StepOK,
        DeliveredIsProjected, OnlyValidProjected, PoisonJustified, StillOwned,
        BecomeAged, sessionVars, workerVars
<1>3. QED BY <1>1, <1>2, Zenon DEF IInv

\* Recovery keeps the attempt count and touches only aged claims.
LEMMA RecoverStep ==
  ASSUME IInv, NEW w \in Workers, RecoverInFlight(w)
  PROVE  IInv'
<1>1. TypeOK'
  BY RowType, Zenon
  DEF IInv, TypeOK, Statuses, Steps, Working, RecoverInFlight, Recover, Stale,
        sessionVars
<1>2. TimeoutOK'
  BY RowType
  DEF IInv, TimeoutOK, TypeOK, StillOwned, Claims, RecoverInFlight, Recover,
        Stale, sessionVars
<1>3. ClaimsOK'
  BY RowType
  DEF IInv, ClaimsOK, TypeOK, Claims, RecoverInFlight, Recover, Stale,
        sessionVars
<1>4. StepOK'
  BY RowType, Zenon
  DEF IInv, StepOK, TypeOK, RecoverInFlight, Recover, Stale, sessionVars
<1>5. /\ FenceOK' /\ ExclusiveClaim' /\ DeliveredIsProjected'
      /\ OnlyValidProjected' /\ PoisonJustified'
  BY RowType, SessionAssumption, Zenon
  DEF IInv, FenceOK, ExclusiveClaim, DeliveredIsProjected, OnlyValidProjected,
        PoisonJustified, StillOwned, TypeOK, RecoverInFlight, Recover, Stale,
        sessionVars
<1>6. QED BY <1>1, <1>2, <1>3, <1>4, <1>5, Zenon DEF IInv

\* A claim takes the next attempt number, which no relay holds yet, of rows no
\* relay currently owns.
LEMMA ClaimStep ==
  ASSUME IInv, NEW w \in Workers, NEW S \in SUBSET Rows, ClaimBatch(w, S)
  PROVE  IInv'
<1> USE DEF ClaimBatch, ClaimRows
<1>1. /\ Claimants(S) \subseteq Claims
      /\ \A c \in Claimants(S) : c.row \in S /\ c.att = attempts[c.row] + 1
  BY DEF IInv, TypeOK, Claimants, Claims
<1>2. \A r \in S : status[r] \in {"pending", "failed"}
  BY Zenon DEF Claimable
<1>3. pc[w] = "claim" /\ held[w] = {} /\ cur[w] = NoClaim
  BY Zenon DEF IInv, TypeOK, Working
<1>4. /\ \A v \in Workers \ {w} : held'[v] = held[v] /\ pc'[v] = pc[v]
      /\ held'[w] \subseteq Claimants(S)
      /\ pc'[w] \in {"next", "idle"}
      /\ pc'[w] = "idle" => held'[w] = {}
      /\ held' \in [Workers -> SUBSET Claims]
      /\ pc' \in [Workers -> Steps]
  BY <1>1, <1>3, Zenon DEF IInv, TypeOK, Steps
<1>5. /\ status' \in [Rows -> Statuses]
      /\ attempts' \in [Rows -> Nat]
      /\ aged' \in [Rows -> BOOLEAN]
      /\ \A r \in Rows : attempts[r] <= attempts'[r]
  <2>1. status' \in [Rows -> Statuses]
    BY Zenon DEF IInv, TypeOK, Statuses
  <2>2. attempts' \in [Rows -> Nat] /\ \A r \in Rows : attempts[r] <= attempts'[r]
    BY DEF IInv, TypeOK
  <2>3. aged' \in [Rows -> BOOLEAN]
    BY Zenon DEF IInv, TypeOK
  <2>4. QED BY <2>1, <2>2, <2>3, Zenon
<1>6. TypeOK'
  <2>1. faults' \in Nat
    BY DEF IInv, TypeOK
  <2>2. \A v \in Workers : IF pc'[v] \in Working THEN cur'[v] \in held'[v]
                                              ELSE cur'[v] = NoClaim
    BY <1>3, <1>4, Zenon DEF IInv, TypeOK, Working
  <2>3. \A v \in Workers : pc'[v] \in {"idle", "claim"} => held'[v] = {}
    BY <1>3, <1>4, Zenon DEF IInv, TypeOK
  <2>4. UNCHANGED <<deleted, version, fence, due, sink, cur>>
    BY Zenon DEF sessionVars
  <2> HIDE DEF ClaimBatch, ClaimRows
  <2>5. QED BY <1>4, <1>5, <2>1, <2>2, <2>3, <2>4, Zenon DEF IInv, TypeOK
<1>7. FenceOK'
  BY <1>2, Zenon DEF IInv, TypeOK, FenceOK, sessionVars
<1>8. ClaimsOK'
  <2> SUFFICES ASSUME NEW v \in Workers, NEW c \in held'[v]
               PROVE  /\ c.att <= attempts'[c.row]
                      /\ status'[c.row] # "absent"
                      /\ \A d \in held'[v] : c.row = d.row => c = d
    BY Zenon DEF ClaimsOK
  <2>1. CASE v = w
    BY <1>1, <1>4, ClaimEquality, <2>1 DEF IInv, TypeOK
  <2>2. CASE v # w
    <3>1. c \in held[v] /\ c.row \in Rows /\ c.att \in Nat
      BY <1>4, <2>2 DEF IInv, TypeOK, Claims
    <3>2. c.att <= attempts[c.row]
      BY <3>1, Zenon DEF IInv, ClaimsOK
    <3>3. c.att <= attempts'[c.row]
      BY <3>1, <3>2 DEF IInv, TypeOK
    <3>4. QED BY <1>4, <2>2, <3>1, <3>3, Zenon DEF IInv, ClaimsOK
  <2>3. QED BY <2>1, <2>2, Zenon
<1>9. ExclusiveClaim'
  <2>1. ASSUME NEW v \in Workers \ {w}, NEW c \in held[v], c \in Claimants(S)
        PROVE  FALSE
    <3>1. c.att = attempts[c.row] + 1 /\ c.row \in Rows
      BY <1>1, <2>1, Zenon
    <3>2. c.att <= attempts[c.row]
      BY <2>1, Zenon DEF IInv, ClaimsOK
    <3>3. QED BY <3>1, <3>2 DEF IInv, TypeOK
  <2>2. QED BY <1>4, <2>1 DEF IInv, ExclusiveClaim
<1>10. StepOK' /\ DeliveredIsProjected' /\ OnlyValidProjected'
  BY <1>2, <1>4, <1>5
     DEF IInv, TypeOK, StepOK, DeliveredIsProjected, OnlyValidProjected, sessionVars
<1>11. PoisonJustified'
  BY <1>2, Zenon DEF IInv, TypeOK, PoisonJustified, sessionVars
<1>12. TimeoutOK'
  <2>1. ASSUME TimeoutFirst, NEW v \in Workers, NEW c \in held'[v]
        PROVE  StillOwned(c)' /\ ~aged'[c.row]
    <3>1. CASE v = w
      BY <1>1, <1>4, <3>1, <2>1, Zenon DEF StillOwned
    <3>2. CASE v # w
      BY <1>2, <1>4, <3>2, <2>1 DEF IInv, TypeOK, TimeoutOK, StillOwned, Claims
    <3>3. QED BY <3>1, <3>2, Zenon
  <2>2. QED BY <1>4, <2>1, Zenon DEF IInv, TimeoutOK
<1>13. QED BY <1>6, <1>7, <1>8, <1>9, <1>10, <1>11, <1>12, Zenon DEF IInv

\* The end of a cycle changes nothing but the relay's place.
LEMMA EndCycleStep ==
  ASSUME IInv, NEW w \in Workers, EndCycle(w)
  PROVE  IInv'
<1>1. TypeOK'
  BY RowType, Zenon
  DEF IInv, TypeOK, Steps, Working, EndCycle, sessionVars, tableVars
<1>2. /\ FenceOK' /\ ClaimsOK' /\ ExclusiveClaim' /\ StepOK'
      /\ DeliveredIsProjected' /\ OnlyValidProjected' /\ PoisonJustified'
      /\ TimeoutOK'
  BY RowType, SessionAssumption
  DEF IInv, FenceOK, ClaimsOK, ExclusiveClaim, StepOK, DeliveredIsProjected,
        OnlyValidProjected, PoisonJustified, TimeoutOK, StillOwned, TypeOK,
        EndCycle, sessionVars, tableVars
<1>3. QED BY <1>1, <1>2, Zenon DEF IInv

\* The fence check decides where the row goes.
LEMMA CheckRowStep ==
  ASSUME IInv, NEW w \in Workers, CheckRow(w)
  PROVE  IInv'
<1>1. PICK c \in held[w] : \E step \in Verdicts(RowOf(c.row)) :
        /\ cur' = [cur EXCEPT ![w] = c]
        /\ pc' = [pc EXCEPT ![w] = step]
  BY Zenon DEF CheckRow
<1>0. PICK step \in Verdicts(RowOf(c.row)) :
        /\ cur' = [cur EXCEPT ![w] = c]
        /\ pc' = [pc EXCEPT ![w] = step]
  BY <1>1, Zenon
<1>2. /\ c \in Claims /\ c.row \in Rows /\ RowOf(c.row) \in Requests
      /\ status[c.row] # "absent"
  BY RowType DEF IInv, TypeOK, ClaimsOK, Claims
<1>3. step \in {"lookup", "retry", "drop"}
  BY <1>2, KindAssumption, Zenon DEF Verdicts, Kinds
<1>4. step = "lookup" => Kind[RowOf(c.row)] = "ok"
  BY <1>2, KindAssumption, Zenon DEF Verdicts, Kinds
<1>5. step = "drop" => Kind[RowOf(c.row)] = "terminal" \/ deleted[SessionOf[RowOf(c.row)]]
  BY <1>2, KindAssumption, SessionAssumption, Zenon
     DEF Verdicts, Kinds, Alive, IInv, FenceOK
<1>6. TypeOK'
  BY <1>0, <1>2, <1>3, Zenon
     DEF IInv, TypeOK, CheckRow, Steps, Working, sessionVars, tableVars
<1>7. StepOK'
  BY <1>0, <1>2, <1>3, <1>4, <1>5, Zenon
     DEF IInv, TypeOK, StepOK, CheckRow, sessionVars, tableVars
<1>8. TimeoutOK'
  BY <1>0, <1>3, Zenon DEF IInv, TypeOK, TimeoutOK, StillOwned, CheckRow, tableVars
<1>9. /\ FenceOK' /\ ClaimsOK' /\ ExclusiveClaim' /\ DeliveredIsProjected'
      /\ OnlyValidProjected' /\ PoisonJustified'
  BY Zenon DEF IInv, FenceOK, ClaimsOK, ExclusiveClaim, DeliveredIsProjected,
         OnlyValidProjected, PoisonJustified, CheckRow, sessionVars, tableVars
<1>10. QED BY <1>6, <1>7, <1>8, <1>9, Zenon DEF IInv

\* A relay inserts only after it has seen no copy of the row.
LEMMA LookupProjectionStep ==
  ASSUME IInv, NEW w \in Workers, LookupProjection(w)
  PROVE  IInv'
<1>1. TypeOK'
  BY RowType
  DEF IInv, TypeOK, Steps, Working, LookupProjection, sessionVars, tableVars
<1>2. StepOK'
  BY RowType
  DEF IInv, StepOK, TypeOK, LookupProjection, sessionVars, tableVars
<1>3. TimeoutOK'
  BY CurrentClaim
  DEF IInv, TimeoutOK, TypeOK, StillOwned, Working, Claims, LookupProjection,
        sessionVars, tableVars
<1>4. /\ FenceOK' /\ ClaimsOK' /\ ExclusiveClaim'
      /\ DeliveredIsProjected' /\ OnlyValidProjected' /\ PoisonJustified'
  BY RowType, SessionAssumption, Zenon
  DEF IInv, FenceOK, ClaimsOK, ExclusiveClaim, DeliveredIsProjected,
        OnlyValidProjected, PoisonJustified, StillOwned, TypeOK,
        LookupProjection, sessionVars, tableVars
<1>5. QED BY <1>1, <1>2, <1>3, <1>4, Zenon DEF IInv

\* With the shorter timeout no other relay works on the row being inserted.
LEMMA InsertStep ==
  ASSUME IInv, NEW w \in Workers, InsertProjection(w)
  PROVE  IInv'
<1>1. PICK n \in {0, 1}, step \in {"ack", "retry"} :
        /\ sink' = [sink EXCEPT ![cur[w].row] = @ + n]
        /\ pc' = [pc EXCEPT ![w] = step]
        /\ step = "ack" => n = 1
  <2>1. PICK o \in InsertOutcomes : /\ sink' = [sink EXCEPT ![cur[w].row] = @ + o[1]]
                                    /\ pc' = [pc EXCEPT ![w] = o[2]]
    BY Zenon DEF InsertProjection
  <2>2. o[1] \in {0, 1} /\ o[2] \in {"ack", "retry"} /\ (o[2] = "ack" => o[1] = 1)
    BY DEF InsertOutcomes
  <2>3. QED BY <2>1, <2>2, Zenon
<1>2. /\ pc[w] = "insert" /\ cur[w] \in held[w] /\ cur[w] \in Claims
      /\ cur[w].row \in Rows /\ sink[cur[w].row] \in Nat
      /\ Kind[RowOf(cur[w].row)] = "ok"
  BY CurrentClaim, Zenon DEF InsertProjection, IInv, TypeOK, Working, Claims, StepOK
<1>3. /\ sink' \in [Rows -> Nat]
      /\ \A r \in Rows : sink[r] <= sink'[r]
      /\ \A r \in Rows \ {cur[w].row} : sink'[r] = sink[r]
      /\ sink'[cur[w].row] = sink[cur[w].row] + n
  BY <1>1, <1>2 DEF IInv, TypeOK
<1>4. TypeOK'
  BY <1>1, <1>3, <1>2
     DEF IInv, TypeOK, InsertProjection, Steps, Working, sessionVars, tableVars
<1>5. \A v \in Workers : pc[v] \in Working => cur[v].row \in Rows
  BY CurrentClaim, Zenon DEF IInv, Claims
<1>6. StepOK'
  BY <1>1, <1>2, <1>3, <1>5
     DEF IInv, TypeOK, StepOK, InsertProjection, Working, sessionVars, tableVars
<1>7. TimeoutOK'
  <2>1. ASSUME TimeoutFirst, NEW v \in Workers, v # w, pc[v] \in Working,
               cur[v].row = cur[w].row
        PROVE  FALSE
    <3>1. cur[v] \in held[v] /\ cur[v] \in Claims
      BY <2>1, CurrentClaim, Zenon DEF IInv
    <3>2. cur[v].att = cur[w].att
      BY <1>2, <2>1, <3>1, Zenon DEF IInv, TimeoutOK, StillOwned
    <3>3. cur[v] = cur[w]
      BY <1>2, <2>1, <3>1, <3>2, ClaimEquality, Zenon
    <3>4. QED BY <1>2, <2>1, <3>1, <3>3, Zenon DEF IInv, ExclusiveClaim
  <2>2. TimeoutFirst => \A r \in Rows : sink'[r] <= 1
    BY <1>1, <1>2, <1>3 DEF IInv, TypeOK, TimeoutOK
  <2>3. ASSUME TimeoutFirst, NEW v \in Workers, pc'[v] = "insert"
        PROVE  sink'[cur'[v].row] = 0
    <3>1. v # w /\ pc[v] = "insert" /\ cur'[v] = cur[v]
      BY <1>1, <2>3, Zenon DEF IInv, TypeOK, InsertProjection
    <3>2. cur[v].row # cur[w].row /\ cur[v].row \in Rows
      BY <1>5, <2>1, <2>3, <3>1, Zenon DEF Working
    <3>3. QED BY <1>3, <2>3, <3>1, <3>2, Zenon DEF IInv, TimeoutOK
  <2>4. QED BY <2>2, <2>3, Zenon
               DEF IInv, TimeoutOK, StillOwned, InsertProjection, tableVars
<1>8. /\ FenceOK' /\ ClaimsOK' /\ ExclusiveClaim' /\ PoisonJustified'
  BY Zenon
     DEF IInv, FenceOK, ClaimsOK, ExclusiveClaim, PoisonJustified, InsertProjection,
         sessionVars, tableVars
<1>9. DeliveredIsProjected' /\ OnlyValidProjected'
  BY <1>2, <1>3 DEF IInv, TypeOK, DeliveredIsProjected, OnlyValidProjected,
                   InsertProjection, tableVars
<1>10. QED BY <1>4, <1>6, <1>7, <1>8, <1>9, Zenon DEF IInv

\* Only the holder of the current claim acknowledges, after the projection.
LEMMA MarkDeliveredStep ==
  ASSUME IInv, NEW w \in Workers, MarkDelivered(w)
  PROVE  IInv'
<1>1. cur[w] \in held[w] /\ cur[w] \in Claims /\ cur[w].row \in Rows /\ pc[w] # "idle"
  BY CurrentClaim, Zenon DEF MarkDelivered, IInv, Working, Claims
<1>2. NextRow(w) \/ LeaveBatch(w)
  BY Zenon DEF MarkDelivered, Acknowledged
<1> DEFINE B == /\ held' \in [Workers -> SUBSET Claims]
                /\ pc' \in [Workers -> Steps]
                /\ cur' \in [Workers -> Claims \cup {NoClaim}]
                /\ \A v \in Workers : held'[v] \subseteq held[v] /\ cur[w] \notin held'[w]
                /\ \A v \in Workers \ {w} : /\ pc'[v] = pc[v] /\ cur'[v] = cur[v]
                                           /\ held'[v] = held[v]
                /\ cur'[w] = NoClaim
                /\ pc'[w] \in {"next", "idle"}
                /\ pc'[w] = "idle" => held'[w] = {}
<1>3. B
  BY <1>1, <1>2, BatchShrinks, Zenon DEF IInv
<1>4. /\ status' \in [Rows -> Statuses]
      /\ \A r \in Rows \ {cur[w].row} : status'[r] = status[r]
      /\ status'[cur[w].row] # status[cur[w].row] => StillOwned(cur[w])
      /\ status'[cur[w].row] # status[cur[w].row] => status'[cur[w].row] \in {"delivered"}
  BY <1>1, Zenon DEF MarkDelivered, IInv, TypeOK, Statuses
<1>5. /\ UNCHANGED <<deleted, version, fence, attempts, aged, sink>>
      /\ UNCHANGED due
      /\ faults' \in Nat
  BY <1>1 DEF MarkDelivered, Acknowledged, IInv, TypeOK, sessionVars
<1>6. TypeOK'
  BY <1>3, <1>4, <1>5 DEF IInv, TypeOK, Working
<1>7. FenceOK'
  BY <1>1, <1>4, <1>5, Zenon DEF IInv, FenceOK, StillOwned
<1>8. \A v \in Workers : \A c \in held[v] : c.row \in Rows
  BY DEF IInv, TypeOK, Claims
<1>9. ClaimsOK'
  BY <1>3, <1>4, <1>5, <1>8 DEF IInv, ClaimsOK
<1>10. ExclusiveClaim'
  BY <1>3, Zenon DEF IInv, ExclusiveClaim
<1>11. StepOK'
  BY <1>3, <1>5 DEF IInv, StepOK
<1>12. DeliveredIsProjected' /\ OnlyValidProjected'
  BY <1>1, <1>4, <1>5, Zenon
     DEF IInv, DeliveredIsProjected, OnlyValidProjected, StepOK, MarkDelivered
<1>13. PoisonJustified'
  BY <1>1, <1>4, <1>5, Zenon
     DEF IInv, PoisonJustified, StepOK, StillOwned, MarkDelivered
<1>14. TimeoutOK'
  <2>1. ASSUME TimeoutFirst, NEW v \in Workers, NEW c \in held'[v], c.row = cur[w].row
        PROVE  FALSE
    <3>1. c \in held[v] /\ c \in Claims
      BY <1>3, <2>1, Zenon DEF IInv, TypeOK
    <3>2. c.att = cur[w].att
      BY <1>1, <2>1, <3>1 DEF IInv, TimeoutOK, StillOwned
    <3>3. c = cur[w]
      BY <1>1, <2>1, <3>1, <3>2, ClaimEquality, Zenon
    <3>4. QED BY <1>1, <1>3, <2>1, <3>1, <3>3, Zenon DEF IInv, ExclusiveClaim
  <2>2. ASSUME TimeoutFirst, NEW v \in Workers, NEW c \in held'[v]
        PROVE  StillOwned(c)' /\ ~aged'[c.row]
    BY <1>3, <1>4, <1>5, <1>8, <2>1, <2>2 DEF IInv, TimeoutOK, StillOwned
  <2>3. \A v \in Workers : pc'[v] = "insert" => pc[v] = "insert" /\ cur'[v] = cur[v]
    BY <1>3, Zenon
  <2>4. QED BY <1>5, <2>2, <2>3, Zenon DEF IInv, TimeoutOK
<1>15. QED BY <1>6, <1>7, <1>9, <1>10, <1>11, <1>12, <1>13, <1>14, Zenon DEF IInv

\* A failure is recorded by the holder; it poisons only with a reason.
LEMMA MarkFailureStep ==
  ASSUME IInv, NEW w \in Workers, MarkFailure(w)
  PROVE  IInv'
<1>1. cur[w] \in held[w] /\ cur[w] \in Claims /\ cur[w].row \in Rows /\ pc[w] # "idle"
  BY CurrentClaim, Zenon DEF MarkFailure, IInv, Working, Claims
<1>2. NextRow(w) \/ LeaveBatch(w)
  BY Zenon DEF MarkFailure, Acknowledged
<1> DEFINE B == /\ held' \in [Workers -> SUBSET Claims]
                /\ pc' \in [Workers -> Steps]
                /\ cur' \in [Workers -> Claims \cup {NoClaim}]
                /\ \A v \in Workers : held'[v] \subseteq held[v] /\ cur[w] \notin held'[w]
                /\ \A v \in Workers \ {w} : /\ pc'[v] = pc[v] /\ cur'[v] = cur[v]
                                           /\ held'[v] = held[v]
                /\ cur'[w] = NoClaim
                /\ pc'[w] \in {"next", "idle"}
                /\ pc'[w] = "idle" => held'[w] = {}
<1>3. B
  BY <1>1, <1>2, BatchShrinks, Zenon DEF IInv
<1>4. /\ status' \in [Rows -> Statuses]
      /\ \A r \in Rows \ {cur[w].row} : status'[r] = status[r]
      /\ status'[cur[w].row] # status[cur[w].row] => StillOwned(cur[w])
      /\ status'[cur[w].row] # status[cur[w].row] => status'[cur[w].row] \in {"failed", "poison"}
  BY <1>1, Zenon DEF MarkFailure, IInv, TypeOK, Statuses
<1>5. /\ UNCHANGED <<deleted, version, fence, attempts, aged, sink>>
      /\ due' \in [Rows -> BOOLEAN]
      /\ faults' \in Nat
  <2>1. UNCHANGED <<deleted, version, fence, attempts, aged, sink>>
    BY Zenon DEF MarkFailure, sessionVars
  <2>2. due' \in [Rows -> BOOLEAN]
    BY <1>1, Zenon DEF MarkFailure, IInv, TypeOK
  <2>3. faults' \in Nat
    BY DEF MarkFailure, Acknowledged, IInv, TypeOK
  <2>4. QED BY <2>1, <2>2, <2>3, Zenon
<1>6. TypeOK'
  BY <1>3, <1>4, <1>5 DEF IInv, TypeOK, Working
<1>7. FenceOK'
  BY <1>1, <1>4, <1>5, Zenon DEF IInv, FenceOK, StillOwned
<1>8. \A v \in Workers : \A c \in held[v] : c.row \in Rows
  BY DEF IInv, TypeOK, Claims
<1>9. ClaimsOK'
  <2> SUFFICES ASSUME NEW v \in Workers, NEW c \in held'[v]
               PROVE  /\ c.att <= attempts'[c.row]
                      /\ status'[c.row] # "absent"
                      /\ \A d \in held'[v] : c.row = d.row => c = d
    BY Zenon DEF ClaimsOK
  <2>1. c \in held[v] /\ held'[v] \subseteq held[v] /\ c.row \in Rows
    BY <1>3, <1>8, Zenon
  <2>2. /\ c.att <= attempts[c.row] /\ status[c.row] # "absent"
        /\ \A d \in held[v] : c.row = d.row => c = d
    BY <2>1, Zenon DEF IInv, ClaimsOK
  <2>3. status'[c.row] # "absent"
    BY <2>1, <2>2, <1>4, Zenon
  <2>4. QED BY <2>1, <2>2, <2>3, <1>5, Zenon
<1>10. ExclusiveClaim'
  BY <1>3, Zenon DEF IInv, ExclusiveClaim
<1>11. StepOK'
  BY <1>3, <1>5 DEF IInv, StepOK
<1>12. DeliveredIsProjected' /\ OnlyValidProjected'
  BY <1>1, <1>4, <1>5, Zenon
     DEF IInv, DeliveredIsProjected, OnlyValidProjected, StepOK, MarkFailure
<1>13. PoisonJustified'
  BY <1>1, <1>4, <1>5
     DEF IInv, PoisonJustified, StepOK, StillOwned, MarkFailure, Poisonous
<1>14. TimeoutOK'
  <2>1. ASSUME TimeoutFirst, NEW v \in Workers, NEW c \in held'[v], c.row = cur[w].row
        PROVE  FALSE
    <3>1. c \in held[v] /\ c \in Claims
      BY <1>3, <2>1, Zenon DEF IInv, TypeOK
    <3>2. c.att = cur[w].att
      BY <1>1, <2>1, <3>1, Zenon DEF IInv, TimeoutOK, StillOwned
    <3>3. c = cur[w]
      BY <1>1, <2>1, <3>1, <3>2, ClaimEquality, Zenon
    <3>4. QED BY <1>1, <1>3, <2>1, <3>1, <3>3, Zenon DEF IInv, ExclusiveClaim
  <2>2. ASSUME TimeoutFirst, NEW v \in Workers, NEW c \in held'[v]
        PROVE  StillOwned(c)' /\ ~aged'[c.row]
    BY <1>3, <1>4, <1>5, <1>8, <2>1, <2>2 DEF IInv, TimeoutOK, StillOwned
  <2>3. \A v \in Workers : pc'[v] = "insert" => pc[v] = "insert" /\ cur'[v] = cur[v]
    BY <1>3, Zenon
  <2>4. QED BY <1>5, <2>2, <2>3, Zenon DEF IInv, TimeoutOK
<1>15. QED BY <1>6, <1>7, <1>9, <1>10, <1>11, <1>12, <1>13, <1>14, Zenon DEF IInv

\* An abandoned batch leaves its rows in flight.
LEMMA AbandonStep ==
  ASSUME IInv, NEW w \in Workers, Abandon(w)
  PROVE  IInv'
<1>1. TypeOK'
  BY RowType
  DEF IInv, TypeOK, Steps, Working, Abandon, LeaveBatch, sessionVars, tableVars
<1>2. ClaimsOK'
  BY RowType
  DEF IInv, ClaimsOK, TypeOK, Abandon, LeaveBatch, sessionVars, tableVars
<1>3. ExclusiveClaim'
  BY RowType, Zenon
  DEF IInv, ExclusiveClaim, TypeOK, Abandon, LeaveBatch, sessionVars, tableVars
<1>4. StepOK'
  BY RowType, Zenon
  DEF IInv, StepOK, TypeOK, Abandon, LeaveBatch, sessionVars, tableVars
<1>5. TimeoutOK'
  BY RowType
  DEF IInv, TimeoutOK, TypeOK, StillOwned, Abandon, LeaveBatch, sessionVars,
        tableVars
<1>6. /\ FenceOK' /\ DeliveredIsProjected' /\ OnlyValidProjected'
      /\ PoisonJustified'
  BY RowType, SessionAssumption, Zenon
  DEF IInv, FenceOK, DeliveredIsProjected, OnlyValidProjected, PoisonJustified,
        StillOwned, Abandon, LeaveBatch, sessionVars, tableVars
<1>7. QED BY <1>1, <1>2, <1>3, <1>4, <1>5, <1>6, Zenon DEF IInv

-----------------------------------------------------------------------------
\* Every step of the specification preserves the inductive invariant.
THEOREM NextInvariant == IInv /\ [Next]_vars => IInv'
<1> SUFFICES ASSUME IInv, [Next]_vars PROVE IInv'
  OBVIOUS
<1>1. CASE UNCHANGED vars
  BY <1>1 DEF IInv, TypeOK, FenceOK, ClaimsOK, ExclusiveClaim, StepOK, StillOwned,
     DeliveredIsProjected, OnlyValidProjected, PoisonJustified, TimeoutOK, vars
<1>2. ASSUME NEW s \in Sessions, SoftDelete(s) PROVE IInv'
  BY <1>2, SoftDeleteStep, Zenon
<1>3. ASSUME NEW q \in Requests, LookupEvidenceFence(q) \/ PersistRun(q) PROVE IInv'
  BY <1>3, LookupFenceStep, PersistRunStep, Zenon
<1>4. ASSUME NEW r \in Rows, BecomeDue(r) \/ BecomeAged(r) PROVE IInv'
  BY <1>4, BecomeDueStep, BecomeAgedStep, Zenon
<1>5. ASSUME NEW w \in Workers, Cycle(w) PROVE IInv'
  <2>1. CASE Claim(w)
    BY <2>1, ClaimStep, Zenon DEF Claim
  <2>2. CASE Deliver(w)
    BY <2>2, CheckRowStep, LookupProjectionStep, InsertStep, MarkDeliveredStep,
       MarkFailureStep, Zenon DEF Deliver
  <2>3. QED BY <1>5, <2>1, <2>2, RecoverStep, EndCycleStep, Zenon DEF Cycle
<1>6. ASSUME NEW w \in Workers, Abandon(w) PROVE IInv'
  BY <1>6, AbandonStep, Zenon
<1>7. QED BY <1>1, <1>2, <1>3, <1>4, <1>5, <1>6, Zenon DEF Next, Relaying

\* The inductive invariant holds in every reachable state.
THEOREM Invariance == Spec => []IInv
BY InitInvariant, NextInvariant, PTL DEF Spec

\* Type correctness of the outbox and its relays.
THEOREM TypeCorrect == Spec => []TypeOK
<1>1. IInv => TypeOK
  BY Zenon DEF IInv
<1>2. QED BY <1>1, Invariance, PTL

\* A delivered row is in the projection, for any number of relays and faults.
THEOREM DeliveredTheorem == Spec => []DeliveredIsProjected
<1>1. IInv => DeliveredIsProjected
  BY Zenon DEF IInv
<1>2. QED BY <1>1, Invariance, PTL

\* A row that fails validation never reaches the projection.
THEOREM OnlyValidTheorem == Spec => []OnlyValidProjected
<1>1. IInv => OnlyValidProjected
  BY Zenon DEF IInv
<1>2. QED BY <1>1, Invariance, PTL

\* No row is dead-lettered without one of the three reasons.
THEOREM PoisonTheorem == Spec => []PoisonJustified
<1>1. IInv => PoisonJustified
  BY Zenon DEF IInv
<1>2. QED BY <1>1, Invariance, PTL

\* A claim token is held by at most one relay.
THEOREM ExclusiveTheorem == Spec => []ExclusiveClaim
<1>1. IInv => ExclusiveClaim
  BY Zenon DEF IInv
<1>2. QED BY <1>1, Invariance, PTL

\* With the operation timeout below RecoverAfter no row is projected twice.
THEOREM NoDuplicateTheorem == Spec => []NoDuplicateProjection
<1>1. IInv => NoDuplicateProjection
  BY Zenon DEF IInv, TimeoutOK, NoDuplicateProjection
<1>2. QED BY <1>1, Invariance, PTL

-----------------------------------------------------------------------------
\* The row a relay acknowledges is the current claim it holds.
LEMMA AcknowledgedRow ==
  ASSUME IInv, NEW w \in Workers, MarkDelivered(w) \/ MarkFailure(w), NEW r \in Rows,
         status'[r] # status[r]
  PROVE  /\ status[r] = "in_flight"
         /\ [row |-> r, att |-> attempts[r]] \in held[w]
<1>1. cur[w] \in held[w] /\ cur[w] \in Claims
  BY CurrentClaim, Zenon DEF MarkDelivered, MarkFailure, IInv, Working
<1>2. r = cur[w].row /\ StillOwned(cur[w])
  BY <1>1, Zenon DEF MarkDelivered, MarkFailure, IInv, TypeOK
<1>3. [row |-> r, att |-> attempts[r]] = cur[w]
  BY <1>1, <1>2, Zenon DEF StillOwned, Claims
<1>4. QED BY <1>1, <1>2, <1>3, Zenon DEF StillOwned

\* A row that changes status or attempts was not settled, and one that leaves
\* in_flight for an outcome is acknowledged by its holder.
LEMMA RowStep ==
  ASSUME IInv, [Next]_vars, NEW r \in Rows
  PROVE  /\ Settled(r) => status'[r] = status[r] /\ attempts'[r] = attempts[r]
         /\ /\ status[r] = "in_flight"
            /\ status'[r] \in {"delivered", "failed", "poison"}
            => \E w \in Workers : [row |-> r, att |-> attempts[r]] \in held[w]
<1> USE DEF Settled
<1>1. CASE UNCHANGED tableVars
  BY <1>1, Zenon DEF tableVars
<1>2. ASSUME NEW q \in Requests, PersistRun(q)
      PROVE  UNCHANGED attempts /\ (status'[r] # status[r] => status[r] = "absent" /\ status'[r] = "pending")
  BY <1>2, RowType, Zenon DEF PersistRun, HasRun, RowOf, IInv, TypeOK
<1>3. ASSUME NEW s \in Rows, BecomeDue(s) \/ BecomeAged(s)
      PROVE  UNCHANGED <<status, attempts>>
  BY <1>3, Zenon DEF BecomeDue, BecomeAged
<1>4. ASSUME NEW w \in Workers, RecoverInFlight(w)
      PROVE  UNCHANGED attempts /\ (status'[r] # status[r] => status[r] = "in_flight" /\ status'[r] = "pending")
  BY <1>4, Zenon DEF RecoverInFlight, Recover, Stale, IInv, TypeOK
<1>5. ASSUME NEW w \in Workers, Claim(w)
      PROVE  /\ Settled(r) => status'[r] = status[r] /\ attempts'[r] = attempts[r]
             /\ status'[r] # status[r] => status'[r] = "in_flight"
  BY <1>5 DEF Claim, ClaimBatch, ClaimRows, Claimable, IInv, TypeOK
<1>6. ASSUME NEW w \in Workers, MarkDelivered(w) \/ MarkFailure(w)
      PROVE  /\ UNCHANGED attempts
             /\ status'[r] # status[r] => /\ status[r] = "in_flight"
                                         /\ [row |-> r, att |-> attempts[r]] \in held[w]
  BY <1>6, AcknowledgedRow, Zenon DEF MarkDelivered, MarkFailure
<1>7. ASSUME NEW w \in Workers,
             EndCycle(w) \/ CheckRow(w) \/ LookupProjection(w) \/ InsertProjection(w) \/ Abandon(w)
      PROVE  UNCHANGED tableVars
  BY <1>7, Zenon DEF EndCycle, CheckRow, LookupProjection, InsertProjection, Abandon
<1>8. ASSUME NEW s \in Sessions, SoftDelete(s) PROVE UNCHANGED tableVars
  BY <1>8, Zenon DEF SoftDelete
<1>9. ASSUME NEW q \in Requests, LookupEvidenceFence(q) PROVE UNCHANGED tableVars
  BY <1>9, Zenon DEF LookupEvidenceFence
<1>10. CASE UNCHANGED vars
  BY <1>10, Zenon DEF vars
<1>11. QED
  BY <1>1, <1>2, <1>3, <1>4, <1>5, <1>6, <1>7, <1>8, <1>9, <1>10, Zenon
  DEF Next, Relaying, Cycle, Deliver

\* delivered and poison are final, for every relay and every schedule.
THEOREM SettledTheorem == Spec => SettledIsFinal
<1>1. IInv /\ [Next]_vars =>
        [\A r \in Rows : Settled(r) =>
           status'[r] = status[r] /\ attempts'[r] = attempts[r]]_vars
  BY RowStep, Zenon
<1>2. QED BY <1>1, Invariance, PTL DEF Spec, SettledIsFinal

\* Only the holder of the latest claim can acknowledge it.
THEOREM HolderTheorem == Spec => OnlyHolderAcknowledges
<1>1. IInv /\ [Next]_vars =>
        [\A r \in Rows :
           /\ status[r] = "in_flight"
           /\ status'[r] \in {"delivered", "failed", "poison"}
           => \E w \in Workers : [row |-> r, att |-> attempts[r]] \in held[w]]_vars
  BY RowStep, Zenon
<1>2. QED BY <1>1, Invariance, PTL DEF Spec, OnlyHolderAcknowledges

\* What TLC checks of the outbox on a small instance, for all of them.
THEOREM OutboxSafeTheorem == Spec => []OutboxIsSafe
BY DeliveredTheorem, PoisonTheorem, ExclusiveTheorem, PTL DEF OutboxIsSafe

-----------------------------------------------------------------------------
(* The acknowledgement boundary.  The calls of EvidenceAck only add reads  *)
(* to the outbox, so what was proved of the outbox holds under them; that  *)
(* an answer is true rests on the rows of a run appearing together         *)
(* (RunsWhole) and on rows never disappearing again.                       *)

\* A run is in the outbox with all of its rows or with none.
RunsWhole ==
  \A r, s \in Rows : RowOf(r) = RowOf(s) => (status[r] = "absent" <=> status[s] = "absent")

\* The inductive invariant of the calls.
AckInv == /\ IInv /\ RunsWhole /\ AnsweredIsDurable
          /\ ack \in [Calls -> AckStates]

\* Only a producer's write changes which rows there are.
LEMMA RowsStay ==
  ASSUME IInv, Relaying, NEW r \in Rows
  PROVE  status'[r] = "absent" <=> status[r] = "absent"
<1>1. CASE UNCHANGED status
  BY <1>1, Zenon
<1>2. ASSUME NEW w \in Workers, RecoverInFlight(w)
      PROVE  status'[r] = "absent" <=> status[r] = "absent"
  BY <1>2, Zenon DEF RecoverInFlight, Recover, Stale
<1>3. ASSUME NEW w \in Workers, Claim(w)
      PROVE  status'[r] = "absent" <=> status[r] = "absent"
  BY <1>3 DEF Claim, ClaimBatch, ClaimRows, Claimable, IInv, TypeOK
<1>4. ASSUME NEW w \in Workers, MarkDelivered(w) \/ MarkFailure(w)
      PROVE  status'[r] = "absent" <=> status[r] = "absent"
  <2>1. CASE status'[r] = status[r]
    BY <2>1, Zenon
  <2>2. CASE status'[r] # status[r]
    <3>1. status[r] = "in_flight"
      BY <1>4, <2>2, AcknowledgedRow, Zenon
    <3>2. status'[r] # "absent"
      BY <1>4, <3>1, Zenon DEF MarkDelivered, MarkFailure, IInv, TypeOK
    <3> QED BY <3>1, <3>2, Zenon
  <2> QED BY <2>1, <2>2, Zenon
<1>5. ASSUME NEW w \in Workers,
             EndCycle(w) \/ CheckRow(w) \/ LookupProjection(w) \/ InsertProjection(w) \/ Abandon(w)
      PROVE  UNCHANGED status
  BY <1>5, Zenon
     DEF EndCycle, CheckRow, LookupProjection, InsertProjection, Abandon, tableVars
<1>6. ASSUME NEW s \in Sessions, SoftDelete(s) PROVE UNCHANGED status
  BY <1>6, Zenon DEF SoftDelete, tableVars
<1>7. ASSUME NEW q \in Requests, LookupEvidenceFence(q) PROVE UNCHANGED status
  BY <1>7, Zenon DEF LookupEvidenceFence, tableVars
<1>8. ASSUME NEW s \in Rows, BecomeDue(s) \/ BecomeAged(s) PROVE UNCHANGED status
  BY <1>8, Zenon DEF BecomeDue, BecomeAged
<1> QED BY <1>1, <1>2, <1>3, <1>4, <1>5, <1>6, <1>7, <1>8, Zenon
           DEF Relaying, Cycle, Deliver

\* Under whole runs a run that exists has all of its rows.
LEMMA RunComplete ==
  ASSUME RunsWhole, NEW q \in Requests, HasRun(q), NEW r \in RunRows(q)
  PROVE  status[r] # "absent"
<1>1. PICK i \in 1..NRows : status[<<q, i>>] # "absent"
  BY Zenon DEF HasRun
<1>2. <<q, i>> \in Rows /\ RowOf(<<q, i>>) = q
  BY Zenon DEF Rows, RowOf
<1> QED BY <1>1, <1>2, Zenon DEF RunsWhole, RunRows

\* Every step of a call leaves the outbox alone or is a producer's write.
LEMMA CallIsStep ==
  ASSUME CallAssumption, NEW p \in Calls, CallStep(p)
  PROVE  UNCHANGED vars \/ PersistRun(RequestOf[p])
BY Zenon DEF CallStep, Persist, Reconcile

\* A behaviour of the calls and the relays is a behaviour of the outbox.
THEOREM AckIsOutbox == ASSUME CallAssumption PROVE AckSpec => Spec
<1>1. AckInit => Init
  BY Zenon DEF AckInit
<1>2. [AckNext]_ackVars => [Next]_vars
  BY CallIsStep, Zenon DEF AckNext, ackVars, Next, CallAssumption
<1> QED BY <1>1, <1>2, PTL DEF AckSpec, Spec

\* The answers a call may change to.
LEMMA AnswerCases ==
  ASSUME CallAssumption, AckInv, NEW p \in Calls, CallStep(p)
  PROVE  \E a \in AckStates :
           /\ ack' = [ack EXCEPT ![p] = a]
           /\ a \in Answered => PersistRun(RequestOf[p]) \/ (UNCHANGED vars /\ HasRun(RequestOf[p]))
<1>1. CASE Persist(p)
  BY <1>1, Zenon DEF Persist, Answer, AckStates, Answered
<1>2. CASE Reconcile(p)
  <2>1. Reconciled(p) \in AckStates /\ (Reconciled(p) \in Answered => HasRun(RequestOf[p]))
    BY Zenon DEF Reconciled, Proven, AckStates, Answered
  <2> QED BY <1>2, <2>1, Zenon DEF Reconcile, Answer, AckStates, Answered
<1> QED BY <1>1, <1>2, Zenon DEF CallStep

\* A producer's write keeps runs whole and completes its own.
LEMMA WriteWhole ==
  ASSUME AckInv, NEW q \in Requests, PersistRun(q)
  PROVE  /\ RunsWhole'
         /\ \A r \in Rows : status[r] # "absent" => status'[r] # "absent"
         /\ \A r \in RunRows(q) : status'[r] # "absent"
<1>1. \A r \in Rows : status'[r] = IF RowOf(r) = q THEN "pending" ELSE status[r]
  BY Zenon DEF PersistRun
<1> QED BY <1>1, Zenon DEF AckInv, RunsWhole, RunRows

\* Every step preserves the invariant of the calls.
LEMMA AckNextInv == ASSUME CallAssumption PROVE AckInv /\ [AckNext]_ackVars => AckInv'
<1> SUFFICES ASSUME AckInv, [AckNext]_ackVars PROVE AckInv'
  OBVIOUS
<1>1. IInv'
  <2>1. [Next]_vars
    BY CallIsStep, Zenon DEF AckNext, ackVars, Next, CallAssumption
  <2> QED BY <2>1, NextInvariant, Zenon DEF AckInv
<1>2. CASE UNCHANGED ackVars
  BY <1>1, <1>2, Zenon DEF ackVars, vars, AckInv, RunsWhole, AnsweredIsDurable
<1>3. CASE Relaying /\ UNCHANGED ack
  <2>1. \A r \in Rows : status'[r] = "absent" <=> status[r] = "absent"
    BY <1>3, RowsStay, Zenon DEF AckInv
  <2> QED BY <1>1, <1>3, <2>1, Zenon DEF AckInv, RunsWhole, AnsweredIsDurable, RunRows
<1>4. ASSUME NEW p \in Calls, CallStep(p) PROVE AckInv'
  <2>1. RequestOf[p] \in Requests
    BY Zenon DEF CallAssumption
  <2>2. PICK a \in AckStates :
          /\ ack' = [ack EXCEPT ![p] = a]
          /\ a \in Answered => PersistRun(RequestOf[p]) \/ (UNCHANGED vars /\ HasRun(RequestOf[p]))
    BY <1>4, AnswerCases, Zenon
  <2>3. ack' \in [Calls -> AckStates]
    BY <2>2, Zenon DEF AckInv
  <2>4. /\ RunsWhole'
        /\ \A r \in Rows : status[r] # "absent" => status'[r] # "absent"
    <3>1. CASE UNCHANGED vars
      BY <3>1, Zenon DEF vars, AckInv, RunsWhole
    <3> QED BY <1>4, <2>1, <3>1, CallIsStep, WriteWhole, Zenon
  <2>5. a \in Answered => \A r \in RunRows(RequestOf[p]) : status'[r] # "absent"
    <3>1. CASE UNCHANGED vars /\ HasRun(RequestOf[p])
      BY <2>1, <3>1, RunComplete, Zenon DEF vars, AckInv
    <3> QED BY <2>1, <2>2, <3>1, WriteWhole, Zenon
  <2>6. AnsweredIsDurable'
    BY <2>2, <2>3, <2>4, <2>5, Zenon DEF AckInv, AnsweredIsDurable, RunRows
  <2> QED BY <1>1, <2>3, <2>4, <2>6, Zenon DEF AckInv
<1> QED BY <1>2, <1>3, <1>4, Zenon DEF AckNext

\* The invariant of the calls holds in every reachable state.
THEOREM AckInvariance == ASSUME CallAssumption PROVE AckSpec => []AckInv
<1>1. AckInit => AckInv
  BY InitInvariant
     DEF AckInit, AckInv, RunsWhole, AnsweredIsDurable, AckStates, Answered, Init
<1> QED BY <1>1, AckNextInv, PTL DEF AckSpec

\* A 202 is given while a row can still be delivered and none is dead-lettered.
LEMMA UncertifiedStep ==
  ASSUME CallAssumption, AckInv, [AckNext]_ackVars, NEW p \in Calls,
         ack[p] # "uncertified", ack'[p] = "uncertified"
  PROVE  /\ \E r \in RunRows(RequestOf[p]) : Retryable(r)
         /\ \A r \in RunRows(RequestOf[p]) : status[r] \notin {"absent", "poison"}
<1>1. PICK c \in Calls : CallStep(c)
  BY Zenon DEF AckNext, ackVars
<1>2. c = p
  BY <1>1, Zenon DEF CallStep, Persist, Reconcile, Answer, AckInv
<1>3. ack'[p] = Reconciled(p)
  BY <1>1, <1>2, Zenon DEF CallStep, Persist, Reconcile, Answer, AckInv
<1>4. /\ Proven(RequestOf[p])
      /\ \E r \in RunRows(RequestOf[p]) : Retryable(r)
  BY <1>3, Zenon DEF Reconciled
<1> QED BY <1>4, RunComplete, Zenon DEF Proven, AckInv, CallAssumption

\* A 200 or 202 is true for any number of calls, runs and relays, whichever call
\* wrote the rows and whatever answers were lost (evidence_ack.go).
THEOREM AnswersTheorem == ASSUME CallAssumption PROVE AckSpec => AnswersAreTrue
<1>1. AckInv => AnsweredIsDurable
  BY Zenon DEF AckInv
<1>2. AckInv => NoDuplicateProjection
  BY Zenon DEF AckInv, IInv, TimeoutOK, NoDuplicateProjection
<1>3. AckInv /\ [AckNext]_ackVars =>
        [\A p \in Calls : ack[p] # "uncertified" /\ ack'[p] = "uncertified" =>
           /\ \E r \in RunRows(RequestOf[p]) : Retryable(r)
           /\ \A r \in RunRows(RequestOf[p]) : status[r] \notin {"absent", "poison"}]_ackVars
  BY UncertifiedStep, Zenon
<1> QED BY <1>1, <1>2, <1>3, AckInvariance, PTL
        DEF AckSpec, AnswersAreTrue, UncertifiedIsRetryable

-----------------------------------------------------------------------------
\* The budget cache of SnapshotCache.

Snap == [a : Nat, b : Nat]
EntryType == [a : Nat, b : Nat, gen : Nat, fresh : BOOLEAN, by : Readers,
              try : Nat \X Nat]
CallType == [org : Orgs \cup {None}, gen : Nat, snap : Snap, tries : Nat]
Places == {"idle", "generation", "first", "second", "install", "invalidate"}

\* x is not older than y.
NotOlder(x, y) == x.a >= y.a /\ x.b >= y.b

CacheTypes ==
  /\ db \in [Orgs -> Snap] /\ applied \in [Orgs -> Snap] /\ gens \in [Orgs -> Nat]
  /\ lru \in [Orgs -> EntryType \cup {None}]

\* The budget cache never defers an eviction and visits none of the places of
\* the policy cache.
UserTypes ==
  /\ rpc \in [Users -> Places] /\ loc \in [Users -> CallType]
  /\ left \in [Readers -> Seq(Orgs)]
  /\ evicted = [u \in Users |-> <<>>]
  /\ \A u \in Users : rpc[u] # "idle" => loc[u].org \in Orgs
  /\ \A r \in Readers : rpc[r] # "idle" => left[r] # <<>>

\* The database is never behind an invalidation that was applied.
DbAhead == \A o \in Orgs : NotOlder(db[o], applied[o])

\* A load whose generation still counts has read nothing older than the latest
\* invalidation.
LoadOK(at, call) ==
  LET o == call.org IN
  /\ at \in {"first", "second", "install"} => call.gen <= gens[o]
  /\ at = "second" => call.snap.b = 0
  /\ at = "second" /\ call.gen = gens[o] => call.snap.a >= applied[o].a
  /\ at = "install" /\ call.gen = gens[o] => NotOlder(call.snap, applied[o])

\* The same for an entry of the cache.
EntryOK(o) ==
  lru[o] # None =>
    /\ lru[o].gen <= gens[o]
    /\ lru[o].gen = gens[o] => NotOlder(lru[o], applied[o])

LoadsOK == \A u \in Users : LoadOK(rpc[u], loc[u])
EntriesOK == \A o \in Orgs : EntryOK(o)

BudgetInv == CacheTypes /\ UserTypes /\ DbAhead /\ LoadsOK /\ EntriesOK
CacheInv == kind = "budget" => BudgetInv

LEMMA CacheStarts == ASSUME SnapshotAssumption PROVE SnapshotInit => CacheInv
<1> SUFFICES ASSUME SnapshotInit, kind = "budget" PROVE BudgetInv
  BY Zenon DEF CacheInv
<1> USE DEF SnapshotInit
<1>1. CacheTypes
  BY Zenon DEF CacheTypes, Snap, NoSnap
<1>2. UserTypes
  <2>1. left \in [Readers -> Seq(Orgs)]
    BY Zenon DEF SnapshotAssumption
  <2>2. NoCall \in CallType
    BY Zenon DEF NoCall, NoSnap, CallType, Snap
  <2>3. rpc \in [Users -> Places] /\ \A u \in Users : rpc[u] = "idle"
    BY Zenon DEF Places
  <2> QED BY <2>1, <2>2, <2>3, Zenon DEF UserTypes, Users
<1>3. DbAhead
  BY DEF DbAhead, NotOlder, NoSnap
<1>4. LoadsOK /\ EntriesOK
  BY Zenon DEF LoadsOK, LoadOK, EntriesOK, EntryOK
<1> QED BY <1>1, <1>2, <1>3, <1>4, Zenon DEF BudgetInv

-----------------------------------------------------------------------------
(* Writers                                                                 *)

\* A write moves the database forward and leaves the cache alone.
LEMMA WriteDb ==
  ASSUME BudgetInv, NEW w \in Writers, Write(w) \/ Publish(w)
  PROVE  /\ db' \in [Orgs -> Snap] /\ \A o \in Orgs : NotOlder(db'[o], db[o])
         /\ UNCHANGED <<cacheVars, userVars, kind>>
<1> USE DEF BudgetInv, CacheTypes
<1>1. UNCHANGED <<cacheVars, userVars, kind>>
  BY Zenon DEF Write, Publish
<1>2. \/ UNCHANGED db
      \/ \E o : db' = [db EXCEPT ![o].a = @ + 1, ![o].b = @ + 1]
      \/ \E o : db' = [db EXCEPT ![o].a = @ + 1]
      \/ \E o : db' = [db EXCEPT ![o].b = @ + 1]
  <2>1. CASE Publish(w)
    BY <2>1, Zenon DEF Publish, dbVars
  <2>2. CASE Write(w)
    BY <2>2, Zenon DEF Write, CreatePolicy, PatchPolicy, DeletePolicy, CreateRateCard,
       CreateBudgetPeriod, LockRateCard, NextRateCardVersion, InsertRateCardVersion,
       RefusedWrite, Changed, BumpPolicyEpoch, dbVars
  <2> QED BY <2>1, <2>2, Zenon
<1>3. CASE UNCHANGED db
  BY <1>1, <1>3 DEF NotOlder, Snap
<1>4. ASSUME NEW o, \/ db' = [db EXCEPT ![o].a = @ + 1, ![o].b = @ + 1]
                    \/ db' = [db EXCEPT ![o].a = @ + 1]
                    \/ db' = [db EXCEPT ![o].b = @ + 1]
      PROVE  db' \in [Orgs -> Snap] /\ \A p \in Orgs : NotOlder(db'[p], db[p])
  <2>1. CASE o \in Orgs
    <3>1. PICK x \in Snap : db' = [db EXCEPT ![o] = x] /\ NotOlder(x, db[o])
      <4>1. db[o] \in Snap
        BY <2>1, Zenon
      <4>2. /\ [db[o] EXCEPT !.a = @ + 1, !.b = @ + 1] \in Snap
            /\ NotOlder([db[o] EXCEPT !.a = @ + 1, !.b = @ + 1], db[o])
        <5> DEFINE x == [db[o] EXCEPT !.a = @ + 1]
                   y == [x EXCEPT !.b = @ + 1]
        <5>1. x \in Snap /\ NotOlder(x, db[o])
          BY <4>1 DEF Snap, NotOlder
        <5>2. x \in Snap => y \in Snap /\ NotOlder(y, x)
          <6> HIDE DEF x
          <6> QED BY DEF Snap, NotOlder
        <5>3. NotOlder(y, db[o])
          <6> HIDE DEF x, y
          <6> QED BY <4>1, <5>1, <5>2 DEF Snap, NotOlder
        <5>4. y = [db[o] EXCEPT !.a = @ + 1, !.b = @ + 1]
          BY <4>1, Zenon DEF Snap
        <5> HIDE DEF y
        <5> QED BY <5>1, <5>2, <5>3, <5>4, Zenon
      <4>3. /\ [db[o] EXCEPT !.a = @ + 1] \in Snap /\ NotOlder([db[o] EXCEPT !.a = @ + 1], db[o])
            /\ [db[o] EXCEPT !.b = @ + 1] \in Snap /\ NotOlder([db[o] EXCEPT !.b = @ + 1], db[o])
        BY <4>1 DEF Snap, NotOlder
      <4>4. CASE db' = [db EXCEPT ![o].a = @ + 1, ![o].b = @ + 1]
        <5>1. db' = [db EXCEPT ![o] = [db[o] EXCEPT !.a = @ + 1, !.b = @ + 1]]
          BY <4>1, <4>4, <2>1, Zenon DEF Snap
        <5> QED BY <5>1, <4>2, Zenon
      <4> QED BY <1>4, <4>3, <4>4, Zenon
    <3>2. \A p \in Orgs : NotOlder(db[p], db[p])
      BY DEF Snap, NotOlder
    <3> QED BY <3>1, <3>2, <2>1, Zenon
  <2>2. CASE o \notin Orgs
    <3>1. db' = db
      BY <1>4, <2>2
    <3> QED BY <3>1 DEF Snap, NotOlder
  <2> QED BY <2>1, <2>2, Zenon
<1> QED BY <1>1, <1>2, <1>3, <1>4, Zenon

\* A step that only moves the database forward.
LEMMA WriteInv ==
  ASSUME BudgetInv, NEW w \in Writers, Write(w) \/ Publish(w)
  PROVE  BudgetInv'
<1>1. /\ db' \in [Orgs -> Snap] /\ \A o \in Orgs : NotOlder(db'[o], db[o])
      /\ UNCHANGED <<gens, lru, applied, rpc, left, evicted, loc>>
  BY WriteDb, Zenon DEF cacheVars, userVars
<1>2. CacheTypes' /\ UserTypes'
  BY <1>1, Zenon DEF BudgetInv, CacheTypes, UserTypes
<1>3. DbAhead'
  BY <1>1 DEF BudgetInv, CacheTypes, DbAhead, NotOlder, Snap
<1>4. LoadsOK' /\ EntriesOK'
  BY <1>1, Zenon DEF BudgetInv, LoadsOK, LoadOK, EntriesOK, EntryOK
<1> QED BY <1>2, <1>3, <1>4, Zenon DEF BudgetInv
-----------------------------------------------------------------------------
(* Users of the cache                                                      *)

\* The call of u goes on; the generations stay.
LEMMA CacheCallStep ==
  ASSUME BudgetInv, NEW u \in Users, NEW at \in Places, NEW call \in CallType,
         Continue(u, at, call), UNCHANGED <<db, gens, applied, evicted>>,
         \/ UNCHANGED left
         \/ /\ at = "idle" /\ left' \in [Readers -> Seq(Orgs)]
            /\ \A r \in Readers \ {u} : left'[r] = left[r],
         at # "idle" => call.org \in Orgs /\ (u \in Readers => left[u] # <<>>),
         LoadOK(at, call)
  PROVE  UserTypes' /\ DbAhead' /\ LoadsOK'
<1>1. /\ rpc'[u] = at /\ loc'[u] = call
      /\ \A v \in Users \ {u} : rpc'[v] = rpc[v] /\ loc'[v] = loc[v]
      /\ rpc' \in [Users -> Places] /\ loc' \in [Users -> CallType]
  BY Zenon DEF Continue, BudgetInv, UserTypes
<1>2. UserTypes'
  <2>1. \A r \in Readers : r \in Users
    BY Zenon DEF Users
  <2> QED BY <1>1, <2>1, Zenon DEF BudgetInv, UserTypes
<1>3. DbAhead'
  BY Zenon DEF BudgetInv, DbAhead
<1>4. LoadsOK'
  BY <1>1, Zenon DEF BudgetInv, LoadsOK, LoadOK
<1> QED BY <1>2, <1>3, <1>4, Zenon

\* Entries leave the cache, or the sound entry e joins it under o.
LEMMA EntriesStep ==
  ASSUME BudgetInv, UNCHANGED <<db, gens, applied>>, NEW o \in Orgs, NEW e \in EntryType,
         lru' \in [Orgs -> EntryType \cup {None}],
         \A p \in Orgs : lru'[p] \in {lru[p], None} \/ (p = o /\ lru'[p] = e),
         \/ \A p \in Orgs : lru'[p] \in {lru[p], None}
         \/ e.gen = gens[o] /\ NotOlder(e, applied[o])
  PROVE  CacheTypes' /\ EntriesOK'
<1>1. CacheTypes'
  BY Zenon DEF BudgetInv, CacheTypes
<1>2. ASSUME NEW p \in Orgs PROVE EntryOK(p)'
  BY <1>2 DEF BudgetInv, CacheTypes, EntriesOK, EntryOK, EntryType
<1> QED BY <1>1, <1>2, Zenon DEF EntriesOK

LEMMA RemoveLemma ==
  ASSUME BudgetInv, kind = "budget", NEW u \in Users, NEW o \in Orgs, LruRemove(u, o)
  PROVE  /\ evicted' = evicted /\ lru' = [lru EXCEPT ![o] = None]
         /\ lru' \in [Orgs -> EntryType \cup {None}]
         /\ \A p \in Orgs : lru'[p] \in {lru[p], None}
<1>1. evicted' = [evicted EXCEPT ![u] = <<>>]
  BY Zenon DEF LruRemove, ForgetsGeneration
<1>2. evicted' = evicted
  BY <1>1, Zenon DEF BudgetInv, UserTypes
<1>3. lru' = [lru EXCEPT ![o] = None]
  BY Zenon DEF LruRemove
<1> QED BY <1>2, <1>3, Zenon DEF BudgetInv, CacheTypes

LEMMA AddLemma ==
  ASSUME BudgetInv, kind = "budget", NEW u \in Users, NEW o \in Orgs,
         NEW e \in EntryType, LruAdd(u, o, e)
  PROVE  /\ evicted' = evicted
         /\ lru' \in [Orgs -> EntryType \cup {None}]
         /\ \A p \in Orgs : lru'[p] \in {lru[p], None} \/ (p = o /\ lru'[p] = e)
<1>1. evicted' = [evicted EXCEPT ![u] = <<>>]
  BY Zenon DEF LruAdd, ForgetsGeneration
<1>2. evicted' = evicted
  BY <1>1, Zenon DEF BudgetInv, UserTypes
<1>3. \/ \E k : lru' = [lru EXCEPT ![o] = e, ![k] = None]
      \/ lru' = [lru EXCEPT ![o] = e, ![o] = e]
  BY Zenon DEF LruAdd
<1>4. /\ lru' \in [Orgs -> EntryType \cup {None}]
      /\ \A p \in Orgs : lru'[p] \in {lru[p], None} \/ (p = o /\ lru'[p] = e)
  <2>1. ASSUME NEW k, lru' = [lru EXCEPT ![o] = e, ![k] = None]
        PROVE  <1>4!1
    BY <2>1, Zenon DEF BudgetInv, CacheTypes
  <2>2. CASE lru' = [lru EXCEPT ![o] = e, ![o] = e]
    BY <2>2, Zenon DEF BudgetInv, CacheTypes
  <2> QED BY <1>3, <2>1, <2>2, Zenon
<1> QED BY <1>2, <1>4, Zenon

\* A request ends; the cache has changed to a sound one.
LEMMA FinishStep ==
  ASSUME BudgetInv, NEW r \in Readers, Finish(r), left[r] # <<>>,
         UNCHANGED <<db, gens, applied, evicted>>
  PROVE  UserTypes' /\ DbAhead' /\ LoadsOK'
<1>1. NoCall \in CallType /\ "idle" \in Places /\ r \in Users
  BY Zenon DEF NoCall, NoSnap, CallType, Snap, Places, Users
<1>2. /\ left' \in [Readers -> Seq(Orgs)]
      /\ \A v \in Readers \ {r} : left'[v] = left[v]
  <2>1. left[r] \in Seq(Orgs) /\ left' = [left EXCEPT ![r] = Tail(left[r])]
    BY Zenon DEF Finish, BudgetInv, UserTypes
  <2>2. Tail(left[r]) \in Seq(Orgs)
    BY <2>1
  <2> QED BY <2>1, <2>2, Zenon DEF BudgetInv, UserTypes
<1>3. LoadOK("idle", NoCall) /\ Continue(r, "idle", NoCall)
  BY Zenon DEF LoadOK, Finish
<1> QED BY <1>1, <1>2, <1>3, CacheCallStep, Zenon

\* A step that leaves the entries alone.
LEMMA SameEntries ==
  ASSUME BudgetInv, UNCHANGED <<db, gens, applied, lru>>
  PROVE  CacheTypes' /\ EntriesOK'
BY Zenon DEF BudgetInv, CacheTypes, EntriesOK, EntryOK

LEMMA LookupInv ==
  ASSUME BudgetInv, kind = "budget", NEW r \in Readers, LookupFresh(r)
  PROVE  BudgetInv'
<1> DEFINE o == Head(left[r])
           call == [NoCall EXCEPT !.org = o]
<1>1. r \in Users /\ left[r] # <<>> /\ o \in Orgs
  BY DEF LookupFresh, BudgetInv, UserTypes, Users
<1>2. /\ call \in CallType /\ call.org = o /\ "generation" \in Places
      /\ LoadOK("generation", call)
  BY <1>1, Zenon DEF NoCall, NoSnap, CallType, Snap, Places, LoadOK
<1>3. UNCHANGED <<db, gens, applied>>
  BY Zenon DEF LookupFresh, envVars, dbVars
<1>4. CASE Finish(r) /\ UNCHANGED <<lru, evicted>>
  BY <1>1, <1>3, <1>4, FinishStep, SameEntries, Zenon DEF BudgetInv
<1>5. CASE Continue(r, "generation", call) /\ UNCHANGED <<lru, left, evicted>>
  <2> HIDE DEF call, o
  <2> QED BY <1>1, <1>2, <1>3, <1>5, CacheCallStep, SameEntries, Zenon DEF BudgetInv
<1>6. CASE LruRemove(r, o) /\ Continue(r, "generation", call) /\ UNCHANGED left
  <2> HIDE DEF call, o
  <2>1. /\ evicted' = evicted /\ lru' \in [Orgs -> EntryType \cup {None}]
        /\ \A p \in Orgs : lru'[p] \in {lru[p], None}
    BY <1>1, <1>6, RemoveLemma, Zenon
  <2>2. UserTypes' /\ DbAhead' /\ LoadsOK'
    BY <1>1, <1>2, <1>3, <1>6, <2>1, CacheCallStep, Zenon
  <2>3. CacheTypes' /\ EntriesOK'
    BY <1>3, <2>1, Zenon DEF BudgetInv, CacheTypes, EntriesOK, EntryOK
  <2> QED BY <2>2, <2>3, Zenon DEF BudgetInv
<1> QED BY <1>4, <1>5, <1>6, Zenon DEF LookupFresh

LEMMA LoadInv ==
  ASSUME BudgetInv, kind = "budget", NEW r \in Readers,
         LoadOnce(r) \/ LoadFirst(r) \/ LoadSecond(r)
  PROVE  BudgetInv'
<1> DEFINE o == loc[r].org
<1>1. /\ r \in Users /\ UNCHANGED <<db, gens, applied, lru, evicted>>
      /\ rpc[r] \in {"generation", "first", "second"}
  BY Zenon
     DEF LoadOnce, LoadFirst, LoadSecond, Running, envVars, dbVars, cacheVars, Users
<1>2. o \in Orgs /\ left[r] # <<>> /\ loc[r] \in CallType
  BY <1>1, Zenon DEF BudgetInv, UserTypes
<1>3. db[o] \in Snap /\ applied[o] \in Snap /\ gens[o] \in Nat /\ NotOlder(db[o], applied[o])
  BY <1>2, Zenon DEF BudgetInv, CacheTypes, DbAhead
<1>4. LoadOK(rpc[r], loc[r])
  BY <1>1, Zenon DEF BudgetInv, LoadsOK
<1>5. CASE LoadOnce(r)
  <2> DEFINE call == [loc[r] EXCEPT !.gen = gens[o]]
  <2>1. call \in CallType /\ call.org = o /\ call.gen = gens[o] /\ "first" \in Places
    BY <1>2, <1>3, Zenon DEF CallType, Places
  <2>2. Continue(r, "first", call) /\ UNCHANGED left
    BY <1>5, Zenon DEF LoadOnce
  <2> HIDE DEF call, o
  <2>3. LoadOK("first", call)
    BY <2>1, <1>3 DEF LoadOK
  <2> QED BY <1>1, <1>2, <2>1, <2>2, <2>3, CacheCallStep, SameEntries, Zenon DEF BudgetInv
<1>6. CASE LoadFirst(r)
  <2> DEFINE call == [loc[r] EXCEPT !.snap = FirstStatement(o)]
  <2>1. rpc[r] = "first"
    BY <1>6, Zenon DEF LoadFirst, Running
  <2>2. /\ call \in CallType /\ call.org = o /\ call.gen = loc[r].gen /\ "second" \in Places
        /\ call.snap.b = 0 /\ call.snap.a = db[o].a
    BY <1>2, <1>3, Zenon DEF CallType, Places, FirstStatement, Snap
  <2>3. Continue(r, "second", call) /\ UNCHANGED left
    BY <1>6, Zenon DEF LoadFirst
  <2>4. loc[r].gen <= gens[o]
    BY <1>4, <2>1, Zenon DEF LoadOK
  <2> HIDE DEF call, o
  <2>5. LoadOK("second", call)
    BY <2>2, <2>4, <1>3, Zenon DEF LoadOK, NotOlder, Snap
  <2> QED BY <1>1, <1>2, <2>2, <2>3, <2>5, CacheCallStep, SameEntries, Zenon DEF BudgetInv, o
<1>7. CASE LoadSecond(r)
  <2> DEFINE call == [loc[r] EXCEPT !.snap = SecondStatement(o, loc[r].snap)]
  <2>1. rpc[r] = "second"
    BY <1>7, Zenon DEF LoadSecond, Running
  <2>2. /\ loc[r].gen <= gens[o] /\ loc[r].snap.b = 0
        /\ loc[r].gen = gens[o] => loc[r].snap.a >= applied[o].a
    BY <1>4, <2>1, Zenon DEF LoadOK
  <2>3. /\ call \in CallType /\ call.org = o /\ call.gen = loc[r].gen /\ "install" \in Places
        /\ call.snap.b = db[o].b /\ call.snap.a = loc[r].snap.a
    BY <1>2, <1>3, <2>2, Zenon DEF CallType, Places, SecondStatement, Snap
  <2>4. \/ Continue(r, "install", call) /\ UNCHANGED left
        \/ Finish(r)
    BY <1>7, Zenon DEF LoadSecond
  <2> HIDE DEF call, o
  <2>5. LoadOK("install", call)
    BY <2>2, <2>3, <1>3, Zenon DEF LoadOK, NotOlder, Snap
  <2>6. CASE Continue(r, "install", call) /\ UNCHANGED left
    BY <1>1, <1>2, <2>3, <2>5, <2>6, CacheCallStep, SameEntries, Zenon DEF BudgetInv, o
  <2>7. CASE Finish(r)
    BY <1>1, <1>2, <2>7, FinishStep, SameEntries, Zenon DEF BudgetInv
  <2> QED BY <2>4, <2>6, <2>7, Zenon
<1> QED BY <1>5, <1>6, <1>7, Zenon
LEMMA InstallInv ==
  ASSUME BudgetInv, kind = "budget", NEW r \in Readers, InstallBudget(r)
  PROVE  BudgetInv'
<1> DEFINE o == loc[r].org
<1>1. /\ r \in Users /\ UNCHANGED <<db, gens, applied>> /\ rpc[r] = "install"
  BY Zenon DEF InstallBudget, Running, envVars, dbVars, Users
<1>2. o \in Orgs /\ left[r] # <<>> /\ loc[r] \in CallType /\ left[r] \in Seq(Orgs)
  BY <1>1, Zenon DEF BudgetInv, UserTypes
<1>3. LoadOK("install", loc[r])
  BY <1>1, Zenon DEF BudgetInv, LoadsOK
<1>4. CASE UnchangedGeneration(r) /\ LruAdd(r, o, Entry(r)) /\ Finish(r)
  <2> DEFINE e == Entry(r)
  <2>1. /\ e \in EntryType /\ e.gen = loc[r].gen
        /\ e.a = loc[r].snap.a /\ e.b = loc[r].snap.b
    BY <1>2 DEF Entry, EntryType, CallType, Snap
  <2>2. e.gen = gens[o] /\ NotOlder(e, applied[o])
    BY <1>3, <1>4, <2>1, Zenon DEF LoadOK, NotOlder, UnchangedGeneration
  <2> HIDE DEF e, o
  <2>3. LruAdd(r, o, e)
    BY <1>4, Zenon DEF e, o
  <2>4. /\ evicted' = evicted /\ lru' \in [Orgs -> EntryType \cup {None}]
        /\ \A p \in Orgs : lru'[p] \in {lru[p], None} \/ (p = o /\ lru'[p] = e)
    BY <1>1, <1>2, <2>1, <2>3, AddLemma, Zenon
  <2>5. CacheTypes' /\ EntriesOK'
    BY <1>1, <1>2, <2>1, <2>2, <2>4, EntriesStep, Zenon
  <2>6. UserTypes' /\ DbAhead' /\ LoadsOK'
    BY <1>1, <1>2, <1>4, <2>4, FinishStep, Zenon
  <2> QED BY <2>5, <2>6, Zenon DEF BudgetInv
<1>5. CASE Again(r) /\ UNCHANGED <<lru, evicted>>
  <2>1. CASE Finish(r)
    BY <1>1, <1>2, <1>5, <2>1, FinishStep, SameEntries, Zenon DEF BudgetInv
  <2> DEFINE call == [loc[r] EXCEPT !.tries = @ + 1, !.snap = NoSnap, !.gen = 0]
  <2>2. CASE Continue(r, "generation", call) /\ UNCHANGED left
    <3>1. call \in CallType /\ call.org = o /\ "generation" \in Places
      <4> DEFINE c1 == [loc[r] EXCEPT !.tries = @ + 1]
                 c2 == [c1 EXCEPT !.snap = NoSnap]
                 c3 == [c2 EXCEPT !.gen = 0]
      <4>1. c1 \in CallType /\ c1.org = o
        BY <1>2 DEF CallType
      <4>2. c1 \in CallType => c2 \in CallType /\ c2.org = c1.org
        <5> HIDE DEF c1
        <5> QED BY Zenon DEF CallType, NoSnap, Snap
      <4>3. c2 \in CallType => c3 \in CallType /\ c3.org = c2.org
        <5> HIDE DEF c2
        <5> QED BY Zenon DEF CallType
      <4>4. call = c3
        BY <1>2, Zenon DEF CallType
      <4> HIDE DEF c1, c2, c3, call
      <4> QED BY <4>1, <4>2, <4>3, <4>4, Zenon DEF Places
    <3>2. LoadOK("generation", call)
      BY Zenon DEF LoadOK
    <3> HIDE DEF call
    <3> QED BY <1>1, <1>2, <1>5, <2>2, <3>1, <3>2, CacheCallStep, SameEntries, Zenon
               DEF BudgetInv
  <2> QED BY <1>5, <2>1, <2>2, Zenon DEF Again
<1> QED BY <1>4, <1>5, Zenon DEF InstallBudget

LEMMA ReceiveInv ==
  ASSUME SnapshotAssumption, BudgetInv, NEW o \in Orgs, Receive(o)
  PROVE  BudgetInv'
<1> DEFINE u == "subscriber"
           call == [NoCall EXCEPT !.org = o]
<1>1. /\ UNCHANGED <<db, gens, applied, lru, evicted, left>>
      /\ Continue(u, "invalidate", call)
  BY Zenon DEF Receive, dbVars, cacheVars
<1>2. call \in CallType /\ call.org = o /\ "invalidate" \in Places
  BY Zenon DEF NoCall, NoSnap, CallType, Snap, Places
<1>3. LoadOK("invalidate", call)
  BY Zenon DEF LoadOK
<1>4. u \in Users /\ u \notin Readers
  BY Zenon DEF SnapshotAssumption, Users
<1> HIDE DEF u, call
<1> QED BY <1>1, <1>2, <1>3, <1>4, CacheCallStep, SameEntries, Zenon DEF BudgetInv

\* The generation advances past every load in progress.
LEMMA InvalidateInv ==
  ASSUME BudgetInv, kind = "budget", NEW u \in Users, Invalidate(u)
  PROVE  BudgetInv'
<1> DEFINE o == loc[u].org
<1>1. rpc[u] = "invalidate" /\ o \in Orgs
  BY Zenon DEF Invalidate, Running, BudgetInv, UserTypes
<1>2. /\ gens' = [gens EXCEPT ![o] = @ + 1] /\ applied' = [applied EXCEPT ![o] = db[o]]
      /\ LruRemove(u, o) /\ Continue(u, "idle", NoCall) /\ UNCHANGED <<db, left>>
  BY Zenon DEF Invalidate, envVars, dbVars
<1> HIDE DEF o
<1>3. /\ evicted' = evicted /\ lru' = [lru EXCEPT ![o] = None]
      /\ lru' \in [Orgs -> EntryType \cup {None}]
  BY <1>1, <1>2, RemoveLemma, Zenon
<1>4. /\ gens'[o] = gens[o] + 1 /\ applied'[o] = db[o] /\ gens[o] \in Nat
      /\ \A p \in Orgs \ {o} : gens'[p] = gens[p] /\ applied'[p] = applied[p] /\ lru'[p] = lru[p]
      /\ lru'[o] = None
  BY <1>1, <1>2, <1>3, Zenon DEF BudgetInv, CacheTypes
<1>5. CacheTypes'
  BY <1>1, <1>2, <1>3 DEF BudgetInv, CacheTypes
<1>6. /\ rpc'[u] = "idle" /\ loc'[u] = NoCall
      /\ \A v \in Users \ {u} : rpc'[v] = rpc[v] /\ loc'[v] = loc[v]
      /\ rpc' \in [Users -> Places] /\ loc' \in [Users -> CallType]
  BY <1>2, Zenon
     DEF Continue, BudgetInv, UserTypes, NoCall, NoSnap, CallType, Snap, Places
<1>7. UserTypes'
  <2>1. \A r \in Readers : r \in Users
    BY Zenon DEF Users
  <2> QED BY <1>2, <1>3, <1>6, <2>1, Zenon DEF BudgetInv, UserTypes
<1>8. DbAhead'
  BY <1>1, <1>2, <1>4 DEF BudgetInv, CacheTypes, DbAhead, NotOlder, Snap
<1>9. EntriesOK'
  BY <1>1, <1>4, Zenon DEF BudgetInv, EntriesOK, EntryOK
<1>10. ASSUME NEW v \in Users PROVE LoadOK(rpc[v], loc[v])'
  <2>1. CASE v = u
    BY <2>1, <1>6, Zenon DEF LoadOK
  <2>2. CASE v # u /\ rpc[v] \notin {"first", "second", "install"}
    BY <2>2, <1>6, Zenon DEF LoadOK
  <2>3. CASE v # u /\ rpc[v] \in {"first", "second", "install"}
    <3>1. /\ loc[v].org \in Orgs /\ loc[v].gen \in Nat /\ LoadOK(rpc[v], loc[v])
          /\ rpc'[v] = rpc[v] /\ loc'[v] = loc[v]
      BY <2>3, <1>6, Zenon DEF BudgetInv, UserTypes, LoadsOK, CallType
    <3>2. CASE loc[v].org = o
      BY <2>3, <3>1, <3>2, <1>4 DEF LoadOK
    <3>3. CASE loc[v].org # o
      BY <2>3, <3>1, <3>3, <1>4, Zenon DEF LoadOK
    <3> QED BY <3>2, <3>3, Zenon
  <2> QED BY <2>1, <2>2, <2>3, Zenon
<1> QED BY <1>5, <1>7, <1>8, <1>9, <1>10, Zenon DEF BudgetInv, LoadsOK

LEMMA LapseInv ==
  ASSUME BudgetInv, NEW o \in Orgs, Lapse(o)
  PROVE  BudgetInv'
<1>1. UNCHANGED <<db, gens, applied, rpc, left, evicted, loc>>
  BY Zenon DEF Lapse, dbVars, userVars
<1>2. lru[o] # None /\ lru[o] \in EntryType /\ lru' = [lru EXCEPT ![o].fresh = FALSE]
  BY Zenon DEF Lapse, BudgetInv, CacheTypes
<1> DEFINE e == [lru[o] EXCEPT !.fresh = FALSE]
<1>3. e \in EntryType /\ e.gen = lru[o].gen /\ e.a = lru[o].a /\ e.b = lru[o].b
  BY <1>2, Zenon DEF EntryType
<1>4. lru' = [lru EXCEPT ![o] = e]
  BY <1>2, Zenon
<1> HIDE DEF e
<1>5. CacheTypes'
  BY <1>1, <1>3, <1>4, Zenon DEF BudgetInv, CacheTypes
<1>6. UserTypes' /\ DbAhead' /\ LoadsOK'
  BY <1>1, Zenon DEF BudgetInv, UserTypes, DbAhead, LoadsOK, LoadOK
<1>7. ASSUME NEW p \in Orgs PROVE EntryOK(p)'
  <2>1. CASE p = o
    BY <2>1, <1>1, <1>2, <1>3, <1>4
       DEF BudgetInv, CacheTypes, EntriesOK, EntryOK, NotOlder
  <2>2. CASE p # o
    BY <2>2, <1>1, <1>4, Zenon DEF BudgetInv, CacheTypes, EntriesOK, EntryOK
  <2> QED BY <2>1, <2>2, Zenon
<1> QED BY <1>5, <1>6, <1>7, Zenon DEF BudgetInv, EntriesOK

\* No step of the policy cache is a step of the budget cache.
LEMMA PolicySteps ==
  ASSUME BudgetInv, kind = "budget"
  PROVE  /\ \A r \in Readers : ~(DropStale(r) \/ InstallPolicy(r) \/ AddEntry(r)
                                \/ Recheck(r) \/ RemoveIfSame(r))
         /\ \A o \in Orgs : ~Poll(o)
         /\ ~ReconcileOrgEpoch
         /\ \A u \in Users : ~EvictInvalidated(u) /\ ~OnLRUEvict(u)
<1>1. \A u \in Users : rpc[u] \in Places /\ evicted[u] = <<>>
  BY Zenon DEF BudgetInv, UserTypes
<1>2. Readers \subseteq Users /\ "poller" \in Users
  BY Zenon DEF Users
<1>3. \A r \in Readers : ~(DropStale(r) \/ InstallPolicy(r) \/ AddEntry(r)
                           \/ Recheck(r) \/ RemoveIfSame(r))
  BY <1>1, <1>2, Zenon
     DEF DropStale, InstallPolicy, AddEntry, Recheck, RemoveIfSame, Running, Places
<1>4. /\ \A o \in Orgs : ~Poll(o)
      /\ ~ReconcileOrgEpoch
  BY <1>1, <1>2, Zenon DEF Poll, ReconcileOrgEpoch, Running, Places
<1>5. \A u \in Users : ~EvictInvalidated(u) /\ ~OnLRUEvict(u)
  BY <1>1, Zenon DEF EvictInvalidated, OnLRUEvict, Running, Places
<1> QED BY <1>3, <1>4, <1>5, Zenon

LEMMA KindStays == [SnapshotNext]_snapshotVars => kind' = kind
<1> SUFFICES ASSUME [SnapshotNext]_snapshotVars PROVE kind' = kind
  OBVIOUS
<1>1. ASSUME NEW w \in Writers, Write(w) \/ Publish(w) PROVE kind' = kind
  BY <1>1, Zenon DEF Write, Publish
<1>2. ASSUME NEW r \in Readers, ReaderStep(r) PROVE kind' = kind
  BY <1>2, Zenon
     DEF ReaderStep, LookupFresh, DropStale, LoadOnce, LoadFirst, LoadSecond,
     InstallBudget, InstallPolicy, AddEntry, Recheck, RemoveIfSame, envVars
<1>3. ASSUME NEW o \in Orgs, Lapse(o) \/ Receive(o) \/ LoseMessage(o) \/ Poll(o)
      PROVE  kind' = kind
  BY <1>3, Zenon DEF Lapse, Receive, LoseMessage, Poll, envVars
<1>4. ReconcileOrgEpoch => kind' = kind
  BY Zenon DEF ReconcileOrgEpoch, envVars
<1>5. ASSUME NEW u, InvalidatorStep(u) \/ OnLRUEvict(u) PROVE kind' = kind
  BY <1>5, Zenon DEF InvalidatorStep, Invalidate, EvictInvalidated, OnLRUEvict, envVars
<1>6. CASE UNCHANGED snapshotVars
  BY <1>6, Zenon DEF snapshotVars
<1> QED BY <1>1, <1>2, <1>3, <1>4, <1>5, <1>6, Zenon DEF SnapshotNext

LEMMA CacheSteps == ASSUME SnapshotAssumption PROVE CacheInv /\ [SnapshotNext]_snapshotVars => CacheInv'
<1> SUFFICES ASSUME CacheInv, [SnapshotNext]_snapshotVars, kind' = "budget" PROVE BudgetInv'
  BY Zenon DEF CacheInv
<1>1. kind = "budget" /\ BudgetInv
  BY KindStays, Zenon DEF CacheInv
<1>2. ASSUME NEW w \in Writers, Write(w) \/ Publish(w) PROVE BudgetInv'
  BY <1>1, <1>2, WriteInv, Zenon
<1>3. ASSUME NEW r \in Readers, ReaderStep(r) PROVE BudgetInv'
  BY <1>1, <1>3, PolicySteps, LookupInv, LoadInv, InstallInv, Zenon DEF ReaderStep
<1>4. ASSUME NEW o \in Orgs, Lapse(o) \/ Receive(o) PROVE BudgetInv'
  BY <1>1, <1>4, LapseInv, ReceiveInv, Zenon
<1>5. ASSUME NEW u \in Users, Invalidate(u) PROVE BudgetInv'
  BY <1>1, <1>5, InvalidateInv, Zenon
<1>6. CASE UNCHANGED <<db, gens, applied, lru, rpc, left, evicted, loc>>
  BY <1>1, <1>6, Zenon
     DEF BudgetInv, CacheTypes, UserTypes, DbAhead, LoadsOK, LoadOK, EntriesOK, EntryOK
<1>7. ASSUME NEW o \in Orgs, LoseMessage(o) PROVE BudgetInv'
  BY <1>6, <1>7, Zenon DEF LoseMessage, dbVars, cacheVars, userVars
<1>8. CASE UNCHANGED snapshotVars
  BY <1>6, <1>8, Zenon DEF snapshotVars, dbVars, cacheVars, userVars
<1>9. {"subscriber", "poller"} \subseteq Users
  BY Zenon DEF Users
<1> QED BY <1>1, <1>2, <1>3, <1>4, <1>5, <1>7, <1>8, <1>9, PolicySteps, Zenon
    DEF SnapshotNext, InvalidatorStep

\* Whatever the budget cache would serve is not older than the latest
\* invalidation it applied: a load that began before the generation advanced is
\* not installed after it (billing/cache.go, Invalidate and install).
THEOREM BudgetFreshTheorem ==
  ASSUME SnapshotAssumption PROVE SnapshotSpec => []BudgetFreshAfterInvalidate
<1>1. CacheInv => BudgetFreshAfterInvalidate
  BY Zenon
     DEF CacheInv, BudgetInv, EntriesOK, EntryOK, NotOlder, BudgetFreshAfterInvalidate,
     FreshAfterInvalidate, Valid
<1> QED BY <1>1, CacheStarts, CacheSteps, PTL DEF SnapshotSpec
-----------------------------------------------------------------------------
(* Versions of rate cards                                                  *)

Card(w) == cards[op[w].org][op[w].name]
Holder(w) == locked[op[w].org][op[w].name]
Publishing(w) == wpc[w] \in {"number", "insert"}

CardTypes ==
  /\ cards \in [Orgs -> [Patterns -> Nat \cup {None}]]
  /\ locked \in [Orgs -> [Patterns -> Writers \cup {None}]]
  /\ wpc \in [Writers -> {"start", "number", "insert", "publish", "done", "error", "refused"}]
  /\ nextVersion \in [Writers -> Nat]
  /\ \A w \in Writers : op[w].op \in {"create_card", "publish_card"} =>
       op[w].org \in Orgs /\ op[w].name \in Patterns

\* A publication holds the lock on its card until it has committed.
PublishingOK ==
  \A w \in Writers : Publishing(w) =>
    /\ op[w].org \in Orgs /\ op[w].name \in Patterns
    /\ Holder(w) = w /\ Card(w) \in Nat
    /\ wpc[w] = "insert" => nextVersion[w] = Card(w) + 1

VersionInv == CardTypes /\ PublishingOK

LEMMA VersionInit == ASSUME SnapshotAssumption PROVE SnapshotInit => VersionInv
<1> SUFFICES ASSUME SnapshotInit PROVE VersionInv
  OBVIOUS
<1>1. CardTypes
  BY Zenon DEF SnapshotInit, CardTypes, SnapshotAssumption
<1>2. PublishingOK
  BY Zenon DEF SnapshotInit, PublishingOK, Publishing
<1> QED BY <1>1, <1>2, Zenon DEF VersionInv

\* A step of w that starts, ends or continues no publication of a card.
LEMMA PlainWrite ==
  ASSUME VersionInv, NEW w \in Writers, ~Publishing(w),
         NEW to \in {"publish", "done", "error", "refused"},
         wpc' = [wpc EXCEPT ![w] = to], UNCHANGED <<locked, nextVersion, op>>,
         cards' \in [Orgs -> [Patterns -> Nat \cup {None}]],
         \A o \in Orgs, n \in Patterns : cards[o][n] \in Nat => cards'[o][n] = cards[o][n]
  PROVE  VersionInv'
<1>1. CardTypes'
  BY Zenon DEF VersionInv, CardTypes
<1>2. ASSUME NEW v \in Writers, Publishing(v)'
      PROVE  /\ op'[v].org \in Orgs /\ op'[v].name \in Patterns
             /\ Holder(v)' = v /\ Card(v)' \in Nat
             /\ wpc'[v] = "insert" => nextVersion'[v] = Card(v)' + 1
  <2>1. v # w /\ wpc'[v] = wpc[v] /\ Publishing(v)
    BY <1>2, Zenon DEF Publishing, VersionInv, CardTypes
  <2> QED BY <2>1 DEF VersionInv, PublishingOK, Holder, Card
<1>3. PublishingOK'
  BY <1>2, Zenon DEF PublishingOK
<1> QED BY <1>1, <1>3, Zenon DEF VersionInv

LEMMA LockInv ==
  ASSUME SnapshotAssumption, VersionInv, NEW w \in Writers, wpc[w] = "start",
         op[w].op = "publish_card", UNCHANGED op,
         LockRateCard(w, op[w].org, op[w].name)
  PROVE  VersionInv'
<1> DEFINE o == op[w].org
           n == op[w].name
<1>1. o \in Orgs /\ n \in Patterns
  BY Zenon DEF VersionInv, CardTypes
<1>2. CASE cards[o][n] = None
  <2>1. wpc' = [wpc EXCEPT ![w] = "refused"] /\ UNCHANGED <<cards, locked, nextVersion>>
    BY <1>2, Zenon DEF LockRateCard, RefusedWrite, dbVars
  <2> QED BY <2>1, PlainWrite, Zenon DEF Publishing, VersionInv, CardTypes
<1>3. CASE cards[o][n] # None
  <2>1. /\ locked[o][n] = None /\ locked' = [locked EXCEPT ![o][n] = w]
        /\ wpc' = [wpc EXCEPT ![w] = "number"] /\ UNCHANGED <<cards, nextVersion>>
    BY <1>3, Zenon DEF LockRateCard, LockFree
  <2>2. cards[o][n] \in Nat /\ None \notin Writers
    BY <1>1, <1>3 DEF VersionInv, CardTypes, SnapshotAssumption
  <2>3. CardTypes'
    BY <1>1, <2>1, Zenon DEF VersionInv, CardTypes
  <2>4. /\ locked'[o][n] = w
        /\ \A p \in Orgs, m \in Patterns : locked[p][m] # None => locked'[p][m] = locked[p][m]
    BY <1>1, <2>1, Zenon DEF VersionInv, CardTypes
  <2> HIDE DEF o, n
  <2>5. ASSUME NEW v \in Writers, Publishing(v)'
        PROVE  /\ op'[v].org \in Orgs /\ op'[v].name \in Patterns
               /\ Holder(v)' = v /\ Card(v)' \in Nat
               /\ wpc'[v] = "insert" => nextVersion'[v] = Card(v)' + 1
    <3>1. CASE v = w
      BY <3>1, <1>1, <2>1, <2>2, <2>4 DEF Holder, Card, VersionInv, CardTypes, o, n
    <3>2. CASE v # w
      <4>1. wpc'[v] = wpc[v] /\ Publishing(v)
        BY <3>2, <2>5, <2>1, Zenon DEF Publishing, VersionInv, CardTypes
      <4> QED BY <4>1, <2>1, <2>2, <2>4, SMTT(20)
                 DEF VersionInv, PublishingOK, Holder, Card
    <3> QED BY <3>1, <3>2, Zenon
  <2> QED BY <2>3, <2>5, Zenon DEF VersionInv, PublishingOK
<1> QED BY <1>2, <1>3, Zenon

LEMMA NumberInv ==
  ASSUME VersionInv, NEW w \in Writers, UNCHANGED op,
         NextRateCardVersion(w, op[w].org, op[w].name)
  PROVE  VersionInv'
<1>1. /\ wpc[w] = "number" /\ nextVersion' = [nextVersion EXCEPT ![w] = Card(w) + 1]
      /\ wpc' = [wpc EXCEPT ![w] = "insert"] /\ UNCHANGED <<cards, locked>>
  BY Zenon DEF NextRateCardVersion, Card, dbVars
<1>2. Publishing(w) /\ Card(w) \in Nat
  BY <1>1, Zenon DEF Publishing, VersionInv, PublishingOK
<1>3. CardTypes'
  BY <1>1, <1>2 DEF VersionInv, CardTypes
<1>4. ASSUME NEW v \in Writers, Publishing(v)'
      PROVE  /\ op'[v].org \in Orgs /\ op'[v].name \in Patterns
             /\ Holder(v)' = v /\ Card(v)' \in Nat
             /\ wpc'[v] = "insert" => nextVersion'[v] = Card(v)' + 1
  <2>1. Publishing(v)
    BY <1>1, <1>2, <1>4, Zenon DEF Publishing, VersionInv, CardTypes
  <2>2. v # w => wpc'[v] = wpc[v] /\ nextVersion'[v] = nextVersion[v]
    BY <1>1, Zenon DEF VersionInv, CardTypes
  <2>3. nextVersion'[w] = Card(w) + 1
    BY <1>1, Zenon DEF VersionInv, CardTypes
  <2> QED BY <2>1, <2>2, <2>3, <1>1, Zenon DEF VersionInv, PublishingOK, Holder, Card
<1> QED BY <1>3, <1>4, Zenon DEF VersionInv, PublishingOK

LEMMA InsertInv ==
  ASSUME VersionInv, NEW w \in Writers, UNCHANGED op,
         InsertRateCardVersion(w, op[w].org, op[w].name)
  PROVE  VersionInv'
<1> DEFINE o == op[w].org
           n == op[w].name
<1>1. /\ wpc[w] = "insert" /\ cards' = [cards EXCEPT ![o][n] = nextVersion[w]]
      /\ locked' = [locked EXCEPT ![o][n] = None]
      /\ wpc' = [wpc EXCEPT ![w] = "publish"] /\ UNCHANGED nextVersion
  BY Zenon DEF InsertRateCardVersion
<1>2. o \in Orgs /\ n \in Patterns /\ locked[o][n] = w
  BY <1>1, Zenon DEF Publishing, VersionInv, PublishingOK, Holder
<1>3. CardTypes'
  BY <1>1, <1>2, Zenon DEF VersionInv, CardTypes
<1>4. \A p \in Orgs, m \in Patterns : locked[p][m] # w =>
        locked'[p][m] = locked[p][m] /\ cards'[p][m] = cards[p][m]
  BY <1>1, <1>2, Zenon DEF VersionInv, CardTypes
<1> HIDE DEF o, n
<1>5. ASSUME NEW v \in Writers, Publishing(v)'
      PROVE  /\ op'[v].org \in Orgs /\ op'[v].name \in Patterns
             /\ Holder(v)' = v /\ Card(v)' \in Nat
             /\ wpc'[v] = "insert" => nextVersion'[v] = Card(v)' + 1
  <2>1. v # w /\ wpc'[v] = wpc[v] /\ Publishing(v)
    BY <1>1, <1>5, Zenon DEF Publishing, VersionInv, CardTypes
  <2> QED BY <2>1, <1>1, <1>4 DEF VersionInv, PublishingOK, Holder, Card
<1> QED BY <1>3, <1>5, Zenon DEF VersionInv, PublishingOK

LEMMA VersionWrite ==
  ASSUME SnapshotAssumption, VersionInv, NEW w \in Writers, Write(w) \/ Publish(w)
  PROVE  VersionInv'
<1> DEFINE c == op[w]
<1>1. UNCHANGED op
  BY Zenon DEF Write, Publish
<1>2. CASE /\ ~Publishing(w) /\ UNCHANGED <<cards, locked, nextVersion>>
           /\ \E to \in {"publish", "done", "error", "refused"} : wpc' = [wpc EXCEPT ![w] = to]
  BY <1>1, <1>2, PlainWrite, Zenon DEF VersionInv, CardTypes
<1>3. CASE Publish(w)
  BY <1>2, <1>3, Zenon DEF Publish, Publishing, dbVars
<1>4. CASE /\ wpc[w] = "start"
           /\ \/ CreatePolicy(w, c.org, c.name) \/ PatchPolicy(w, c.org, c.name, c.new)
              \/ DeletePolicy(w, c.org, c.name) \/ CreateBudgetPeriod(w, c.org)
  BY <1>2, <1>4, Zenon
     DEF CreatePolicy, PatchPolicy, DeletePolicy, CreateBudgetPeriod, Changed,
     RefusedWrite, Publishing, dbVars
<1>5. CASE wpc[w] = "start" /\ c.op = "create_card" /\ CreateRateCard(w, c.org, c.name)
  <2>1. ~Publishing(w) /\ c.org \in Orgs /\ c.name \in Patterns
    BY <1>5, Zenon DEF Publishing, VersionInv, CardTypes
  <2>2. CASE cards[c.org][c.name] # None
    BY <1>2, <1>5, <2>1, <2>2, Zenon DEF CreateRateCard, RefusedWrite, dbVars
  <2>3. CASE cards[c.org][c.name] = None
    <3>1. /\ cards' = [cards EXCEPT ![c.org][c.name] = 0]
          /\ wpc' = [wpc EXCEPT ![w] = "publish"] /\ UNCHANGED <<locked, nextVersion>>
      BY <1>5, <2>3, Zenon DEF CreateRateCard
    <3>2. /\ cards' \in [Orgs -> [Patterns -> Nat \cup {None}]]
          /\ \A o \in Orgs, n \in Patterns : cards[o][n] \in Nat => cards'[o][n] = cards[o][n]
      BY <2>1, <2>3, <3>1 DEF VersionInv, CardTypes, SnapshotAssumption
    <3> QED BY <1>1, <2>1, <3>1, <3>2, PlainWrite, Zenon
  <2> QED BY <2>2, <2>3, Zenon
<1>6. CASE wpc[w] = "start" /\ c.op = "publish_card" /\ LockRateCard(w, c.org, c.name)
  BY <1>1, <1>6, LockInv, Zenon
<1>7. CASE NextRateCardVersion(w, c.org, c.name)
  BY <1>1, <1>7, NumberInv, Zenon
<1>8. CASE InsertRateCardVersion(w, c.org, c.name)
  BY <1>1, <1>8, InsertInv, Zenon
<1> QED BY <1>3, <1>4, <1>5, <1>6, <1>7, <1>8, Zenon DEF Write

LEMMA VersionNext == ASSUME SnapshotAssumption PROVE VersionInv /\ [SnapshotNext]_snapshotVars => VersionInv'
<1> SUFFICES ASSUME VersionInv, [SnapshotNext]_snapshotVars PROVE VersionInv'
  OBVIOUS
<1>1. ASSUME NEW w \in Writers, Write(w) \/ Publish(w) PROVE VersionInv'
  BY <1>1, VersionWrite, Zenon
<1>2. CASE UNCHANGED <<dbVars, apiVars>>
  BY <1>2, Zenon
     DEF dbVars, apiVars, VersionInv, CardTypes, PublishingOK, Publishing, Holder, Card
<1>3. ASSUME NEW r \in Readers, ReaderStep(r) PROVE UNCHANGED <<dbVars, apiVars>>
  BY <1>3, Zenon
     DEF ReaderStep, LookupFresh, DropStale, LoadOnce, LoadFirst, LoadSecond,
     InstallBudget, InstallPolicy, AddEntry, Recheck, RemoveIfSame, envVars
<1>4. ASSUME NEW o \in Orgs, Lapse(o) \/ Receive(o) \/ LoseMessage(o) \/ Poll(o)
      PROVE  UNCHANGED <<dbVars, apiVars>>
  BY <1>4, Zenon DEF Lapse, Receive, LoseMessage, Poll, envVars
<1>5. ReconcileOrgEpoch => UNCHANGED <<dbVars, apiVars>>
  BY Zenon DEF ReconcileOrgEpoch, envVars
<1>6. ASSUME NEW u, InvalidatorStep(u) \/ OnLRUEvict(u) PROVE UNCHANGED <<dbVars, apiVars>>
  BY <1>6, Zenon DEF InvalidatorStep, Invalidate, EvictInvalidated, OnLRUEvict, envVars
<1>7. UNCHANGED snapshotVars => UNCHANGED <<dbVars, apiVars>>
  BY Zenon DEF snapshotVars
<1> QED BY <1>1, <1>2, <1>3, <1>4, <1>5, <1>6, <1>7, Zenon DEF SnapshotNext

\* Two publications of a rate card never take the same number, for any number of
\* concurrent publications (billing.py: SELECT ... FOR UPDATE of the card).
THEOREM VersionTheorem == ASSUME SnapshotAssumption PROVE SnapshotSpec => []VersionIsNext
<1>1. VersionInv => VersionIsNext
  BY Zenon DEF VersionInv, PublishingOK, Publishing, Card, VersionIsNext
<1> QED BY <1>1, VersionInit, VersionNext, PTL DEF SnapshotSpec

\* Both, for every number of organisations, readers and writers and for every
\* scenario of writes (billing/cache.go, billing.py).
THEOREM FreshTheorem == ASSUME SnapshotAssumption PROVE SnapshotSpec => []SnapshotsAreFresh
BY BudgetFreshTheorem, VersionTheorem, PTL DEF SnapshotsAreFresh
=============================================================================
