------------------------- MODULE BudgetLedgerProofs -------------------------
(***************************************************************************)
(* Proofs about the two halves of the billing packages, which share no     *)
(* state.  BudgetLedger: types, the CHECK constraints, and the fencing of  *)
(* settlements by the row's version, for any number of keys, callers,      *)
(* estimates, periods and faults.  UsageFacts: an accepted fact is         *)
(* accounted for, whatever the batch sizes and failures.                   *)
(***************************************************************************)
EXTENDS BudgetLedger, UsageFacts, TLAPS

\* A well-formed row: typed, within the CHECK constraints, and without a
\* version as long as it has not been inserted.
Good(r) == r \in RowType /\ RowOK(r) /\ (r.state = "absent" => r.version = 0)

\* No caller holds a version its row has not reached yet.
Bounded == \A o \in Callers : ver[o] <= row[KeyOf[o]].version

CallerType ==
  /\ pc \in [Callers -> {"admit", "working", "persist", "done"}]
  /\ ver \in [Callers -> Nat]
  /\ est \in [Callers -> Nat]
  /\ told \in [Callers -> Replies]
  /\ tries \in [Callers -> Nat]
  /\ faults \in 0..MaxFaults

TableType ==
  /\ row \in [Keys -> RowType] /\ \A k \in Keys : Good(row[k])
  /\ period \in 0..NPeriods
  /\ spent \in [1..NPeriods -> Nat]

\* The inductive invariant.  SingleOwner alone is not inductive: that a new
\* owner's version is one nobody holds follows from Bounded.
IInv == TableType /\ CallerType /\ SingleOwner /\ Bounded

-----------------------------------------------------------------------------

\* Closing a claimed row for any reason leaves a well-formed row one version
\* later.
LEMMA CloseGood ==
  ASSUME NEW r, Good(r), r.state = "claimed", NEW s, NEW c \in Nat, NEW m,
         \/ s = "finalized" /\ m \in {"complete", "estimated"}
         \/ s \in {"released", "expired"} /\ c = 0 /\ m = "none"
  PROVE  /\ Good(Close(r, s, c, m))
         /\ Close(r, s, c, m).version = r.version + 1
         /\ Close(r, s, c, m).state = s
<1> DEFINE x == Close(r, s, c, m)
<1>1. r \in RowType /\ RowOK(r) /\ r.version \in Nat
  BY Zenon DEF Good, RowType
<1>2. x.version = r.version + 1 /\ x.state = s /\ x.final = c /\ x.marker = m /\ x.lease = "none"
  BY <1>1, Zenon DEF Close, RowType
<1>3. s \in States /\ m \in Markers
  BY Zenon DEF States, Markers
<1>4. x \in RowType
  BY <1>1, <1>3 DEF Close, RowType, Leases
<1>5. RowOK(x) /\ s # "absent"
  BY <1>1, <1>2 DEF RowOK
<1> QED BY <1>2, <1>4, <1>5 DEF Good

\* The row an admission leaves behind is well formed and never goes back to an
\* earlier version; an owner gets a version the row did not have before.
LEMMA ClaimGood ==
  ASSUME IInv, NEW o \in Callers, NEW e \in Estimates, NEW live \in BOOLEAN
  PROVE  LET out == ClaimInTx(o, e, live)
             r == row[KeyOf[o]]
         IN /\ Good(out.row)
            /\ out.row.version \in Nat /\ out.row.version >= r.version
            /\ out.kind \in {"owned", "no_cap", "exceeded", "conflict", "in_progress"}
            /\ out.kind = "owned" => out.row.version > r.version
<1> DEFINE r == row[KeyOf[o]]
<1>1. Good(r) /\ r \in RowType /\ r.version \in Nat /\ e \in Nat /\ KeyOf[o] \in Keys
  BY BudgetAssumption, Zenon DEF IInv, TableType, Good, RowType
<1>2. period # 0 => period \in 0..NPeriods
  BY Zenon DEF IInv, TableType
<1>3. r.state = "absent" /\ period # 0 =>
        Good(Fresh(o, e)) /\ Fresh(o, e).version = 1 /\ r.version = 0
  BY <1>1, <1>2 DEF Good, RowOK, RowType, Fresh, Hashes, States, Leases, Markers
<1>4. r.state # "absent" =>
        /\ Good(Reset(r, e)) /\ Reset(r, e).version = r.version + 1
  <2> HAVE r.state # "absent"
  <2>1. period \in 0..NPeriods
    BY Zenon DEF IInv, TableType
  <2> HIDE DEF r
  <2> DEFINE x == Reset(r, e)
  <2>2. /\ x.version = r.version + 1 /\ x.state = "claimed" /\ x.final = 0
        /\ x.marker = "none" /\ x.lease = "live"
    BY <1>1, Zenon DEF Reset, RowType
  <2>3. x \in RowType
    BY <1>1, <2>1 DEF Reset, RowType, States, Leases, Markers
  <2>4. RowOK(x)
    BY <1>1, <2>2 DEF RowOK
  <2> QED BY <2>2, <2>3, <2>4, Zenon DEF Good
<1>5. Good(Refused(o, r)) /\ Refused(o, r).version \in Nat /\ Refused(o, r).version >= r.version
  <2> HIDE DEF r
  <2>1. CASE r.state = "claimed"
    BY <2>1, <1>1, CloseGood DEF Refused, Expired
  <2>2. CASE r.state # "claimed"
    BY <2>2, <1>1 DEF Refused
  <2> QED BY <2>1, <2>2, Zenon
<1> QED BY <1>1, <1>3, <1>4, <1>5 DEF ClaimInTx

\* Changing one row to a well-formed later version keeps the table well formed
\* and every version a caller holds within its row's.
LEMMA RowStep ==
  ASSUME IInv, NEW k \in Keys, NEW x, Good(x), x.version >= row[k].version,
         row' = [row EXCEPT ![k] = x], UNCHANGED <<period, spent>>
  PROVE  /\ TableType'
         /\ \A j \in Keys : row'[j].version \in Nat /\ row[j].version \in Nat
                            /\ row'[j].version >= row[j].version
BY DEF IInv, TableType, Good, RowType

\* A step that changes no caller's version keeps the ownership invariants when
\* no row goes back.
LEMMA OwnersKept ==
  ASSUME IInv, UNCHANGED ver,
         \A j \in Keys : row'[j].version \in Nat /\ row[j].version \in Nat
                         /\ row'[j].version >= row[j].version
  PROVE  SingleOwner' /\ Bounded'
BY BudgetAssumption DEF IInv, CallerType, SingleOwner, Bounded

\* Versions of typed rows are natural numbers.
LEMMA VersionNat ==
  ASSUME IInv
  PROVE  \A j \in Keys : row[j].version \in Nat
BY Zenon DEF IInv, TableType, RowType

-----------------------------------------------------------------------------

\* A fault is charged within its bound.
LEMMA ChargeType ==
  ASSUME faults \in 0..MaxFaults, NEW ending, Charge(ending)
  PROVE  faults' \in 0..MaxFaults
BY BudgetAssumption DEF Charge

\* Claim preserves the invariant.
LEMMA ClaimInv ==
  ASSUME IInv, NEW o \in Callers, Claim(o)
  PROVE  IInv'
<1> USE DEF IInv
<1>0. PICK e \in Estimates, live \in SeesLive(o, row[KeyOf[o]]), ending \in Endings :
        LET out == ClaimInTx(o, e, live)
            kind == IF ending = "answered" THEN out.kind ELSE "error"
        IN /\ Charge(ending)
           /\ row' = IF ending = "failed" THEN row
                     ELSE [row EXCEPT ![KeyOf[o]] = out.row]
           /\ told' = [told EXCEPT ![o] = kind]
           /\ pc' = [pc EXCEPT ![o] = IF kind = "owned" THEN "working"
                                      ELSE NotOwned(o, kind)]
           /\ ver' = [ver EXCEPT ![o] = IF kind = "owned" THEN out.row.version
                                        ELSE 0]
           /\ est' = [est EXCEPT ![o] = IF kind = "owned" THEN e ELSE 0]
  BY Zenon DEF Claim
<1>a. tries[o] < MaxTries[o] /\ tries' = [tries EXCEPT ![o] = @ + 1] /\ UNCHANGED <<period, spent>>
  BY Zenon DEF Claim
<1> DEFINE k == KeyOf[o]
           out == ClaimInTx(o, e, live)
           kind == IF ending = "answered" THEN out.kind ELSE "error"
<1>1. live \in BOOLEAN /\ k \in Keys /\ e \in Nat
  BY BudgetAssumption, Zenon DEF SeesLive
<1>2. /\ Good(out.row) /\ out.row.version \in Nat /\ out.row.version >= row[k].version
      /\ out.kind \in {"owned", "no_cap", "exceeded", "conflict", "in_progress"}
      /\ out.kind = "owned" => out.row.version > row[k].version
  BY <1>1, ClaimGood
<1> HIDE DEF out
<1>3. /\ TableType'
      /\ \A j \in Keys : row'[j].version \in Nat /\ row[j].version \in Nat
                         /\ row'[j].version >= row[j].version
  <2>1. CASE ending = "failed"
    BY <2>1, <1>0, <1>a, VersionNat DEF TableType, out
  <2>2. CASE ending # "failed"
    BY <2>2, <1>0, <1>a, <1>1, <1>2, RowStep, Zenon DEF out
  <2> QED BY <2>1, <2>2
<1>4. CallerType'
  <2>1. kind \in Replies /\ NotOwned(o, kind) \in {"admit", "done"}
    BY <1>2 DEF Replies, NotOwned
  <2>2. told' = [told EXCEPT ![o] = kind] /\ ver' = [ver EXCEPT ![o] = IF kind = "owned" THEN out.row.version ELSE 0]
    BY <1>0 DEF out
  <2>3. /\ pc' = [pc EXCEPT ![o] = IF kind = "owned" THEN "working" ELSE NotOwned(o, kind)]
        /\ est' = [est EXCEPT ![o] = IF kind = "owned" THEN e ELSE 0]
    BY <1>0 DEF out
  <2>4. faults' \in 0..MaxFaults
    BY <1>0, ChargeType DEF CallerType
  <2> HIDE DEF kind
  <2>5. told' \in [Callers -> Replies] /\ ver' \in [Callers -> Nat]
    BY <2>1, <2>2, <1>2 DEF CallerType
  <2>6. pc' \in [Callers -> {"admit", "working", "persist", "done"}] /\ est' \in [Callers -> Nat]
    BY <2>1, <2>3, <1>1 DEF CallerType
  <2>7. tries' \in [Callers -> Nat]
    BY <1>a, BudgetAssumption DEF CallerType
  <2> QED BY <2>4, <2>5, <2>6, <2>7 DEF CallerType
<1>5. SingleOwner' /\ Bounded'
  <2>1. ver' = [ver EXCEPT ![o] = IF kind = "owned" THEN out.row.version ELSE 0]
    BY <1>0, Zenon DEF out
  <2>2. kind = "owned" => row'[k].version = out.row.version /\ out.row.version > row[k].version
    BY <1>0, <1>1, <1>2, Zenon DEF out, IInv, TableType
  <2>3. \A p \in Callers : KeyOf[p] \in Keys /\ ver[p] \in Nat /\ ver[p] <= row[KeyOf[p]].version
    BY BudgetAssumption, Zenon DEF CallerType, Bounded
  <2>4. row[k].version \in Nat
    BY <1>1, VersionNat
  <2> HIDE DEF kind
  <2>5. Bounded'
    BY <2>1, <2>2, <2>3, <1>2, <1>3 DEF Bounded, CallerType
  <2>6. SingleOwner'
    BY <2>1, <2>2, <2>3, <2>4, <1>2 DEF SingleOwner, CallerType
  <2> QED BY <2>5, <2>6, Zenon
<1> QED BY <1>3, <1>4, <1>5, Zenon

\* A settlement leaves the table well formed, the callers' versions alone and
\* the answer in its type.
LEMMA SettleInv ==
  ASSUME IInv, NEW o \in Callers, NEW s, NEW c \in Nat, NEW m,
         \/ s = "finalized" /\ m \in {"complete", "estimated"}
         \/ s \in {"released", "expired"} /\ c = 0 /\ m = "none",
         s \in Replies, NEW ending \in Endings, Settle(o, s, c, m, ending)
  PROVE  /\ TableType' /\ SingleOwner' /\ Bounded'
         /\ told' \in [Callers -> Replies] /\ faults' \in 0..MaxFaults
         /\ UNCHANGED <<ver, est, tries>>
<1> DEFINE k == KeyOf[o]
<1>1. k \in Keys /\ Good(row[k]) /\ UNCHANGED <<period, spent>> /\ row[k].version \in Nat
  BY BudgetAssumption, VersionNat DEF Settle, IInv, TableType
<1>2. /\ TableType'
      /\ \A j \in Keys : row'[j].version \in Nat /\ row[j].version \in Nat
                         /\ row'[j].version >= row[j].version
  <2>1. CASE ending # "failed" /\ Holds(o, row[k])
    <3>1. row[k].state = "claimed"
      BY <2>1, Zenon DEF Holds
    <3>2. /\ Good(Close(row[k], s, c, m)) /\ Close(row[k], s, c, m).version = row[k].version + 1
      BY <3>1, <1>1, CloseGood
    <3>3. row' = [row EXCEPT ![k] = Close(row[k], s, c, m)]
      BY <2>1, Zenon DEF Settle
    <3>4. Close(row[k], s, c, m).version >= row[k].version
      BY <3>2, <1>1
    <3> HIDE DEF k
    <3> QED BY <3>2, <3>3, <3>4, <1>1, RowStep, Zenon
  <2>2. CASE ~(ending # "failed" /\ Holds(o, row[k]))
    BY <2>2, <1>1, VersionNat DEF Settle, TableType, IInv
  <2> QED BY <2>1, <2>2
<1>3. told' \in [Callers -> Replies]
  <2> DEFINE a == IF ending # "answered" THEN "error"
                  ELSE IF Holds(o, row[k]) \/ Replay(o, row[k], s, c, m) THEN s
                       ELSE "closed"
  <2>1. a \in Replies
    BY Zenon DEF Replies
  <2>2. told' = [told EXCEPT ![o] = a]
    BY Zenon DEF Settle
  <2> HIDE DEF a
  <2> QED BY <2>1, <2>2 DEF IInv, CallerType
<1>4. faults' \in 0..MaxFaults /\ UNCHANGED <<ver, est, tries>>
  BY ChargeType, Zenon DEF Settle, IInv, CallerType
<1> QED BY <1>2, <1>3, <1>4, OwnersKept

\* Finalize preserves the invariant.
LEMMA FinalizeInv ==
  ASSUME IInv, NEW o \in Callers, Finalize(o)
  PROVE  IInv'
<1>1. PICK ending \in Endings :
        \/ \E c \in Costs : Settle(o, "finalized", c, "complete", ending)
        \/ Settle(o, "finalized", est[o], "estimated", ending)
  BY Zenon DEF Finalize
<1>2. /\ TableType' /\ SingleOwner' /\ Bounded'
      /\ told' \in [Callers -> Replies] /\ faults' \in 0..MaxFaults
      /\ UNCHANGED <<ver, est, tries>>
  <2>0. "finalized" \in Replies /\ est[o] \in Nat
    BY Zenon DEF Replies, IInv, CallerType
  <2>1. CASE \E c \in Costs : Settle(o, "finalized", c, "complete", ending)
    <3>1. PICK c \in Costs : Settle(o, "finalized", c, "complete", ending)
      BY <2>1, Zenon
    <3>2. c \in Nat
      BY BudgetAssumption, Zenon
    <3> QED BY <3>1, <3>2, <2>0, SettleInv
  <2>2. CASE Settle(o, "finalized", est[o], "estimated", ending)
    BY <2>2, <2>0, SettleInv
  <2> QED BY <1>1, <2>1, <2>2
<1>3. pc' \in [Callers -> {"admit", "working", "persist", "done"}]
  BY DEF Finalize, IInv, CallerType
<1> QED BY <1>2, <1>3 DEF IInv, CallerType

\* Release preserves the invariant.
LEMMA ReleaseInv ==
  ASSUME IInv, NEW o \in Callers, Release(o)
  PROVE  IInv'
<1>1. PICK ending \in Endings : Settle(o, "released", 0, "none", ending)
  BY Zenon DEF Release
<1>2. /\ TableType' /\ SingleOwner' /\ Bounded'
      /\ told' \in [Callers -> Replies] /\ faults' \in 0..MaxFaults
      /\ UNCHANGED <<ver, est, tries>>
  <2>0. "released" \in Replies /\ 0 \in Nat
    BY Zenon DEF Replies
  <2> QED BY <1>1, <2>0, SettleInv
<1>3. pc' \in [Callers -> {"admit", "working", "persist", "done"}]
  BY Zenon DEF Release, IInv, CallerType
<1> QED BY <1>2, <1>3, Zenon DEF IInv, CallerType

\* The steps that leave the table alone preserve the invariant.
LEMMA LocalInv ==
  ASSUME IInv, NEW o \in Callers, SkipLedger(o) \/ Persist(o) \/ Crash(o)
  PROVE  IInv'
<1>1. UNCHANGED tableVars
  BY Zenon DEF SkipLedger, Persist, Crash
<1>2. TableType'
  BY <1>1, Zenon DEF IInv, TableType, tableVars
<1>3. CallerType'
  <2>1. CASE SkipLedger(o)
    BY <2>1, Zenon DEF SkipLedger, IInv, CallerType
  <2>2. CASE Persist(o)
    BY <2>2, BudgetAssumption DEF Persist, IInv, CallerType
  <2>3. CASE Crash(o)
    BY <2>3, BudgetAssumption DEF Crash, IInv, CallerType
  <2> QED BY <2>1, <2>2, <2>3
<1>4. SingleOwner' /\ Bounded'
  <2>1. CASE UNCHANGED ver
    BY <2>1, <1>1, VersionNat, OwnersKept DEF tableVars
  <2>2. CASE ver' = [ver EXCEPT ![o] = 0]
    <3>1. \A p \in Callers : KeyOf[p] \in Keys /\ row[KeyOf[p]].version \in Nat
                              /\ ver[p] \in Nat /\ ver[p] <= row[KeyOf[p]].version
      BY VersionNat, BudgetAssumption DEF IInv, CallerType, Bounded
    <3>2. row' = row /\ ver \in [Callers -> Nat]
      BY <1>1, Zenon DEF tableVars, IInv, CallerType
    <3>3. Bounded'
      BY <2>2, <3>1, <3>2 DEF Bounded
    <3>4. SingleOwner'
      BY <2>2, <3>1, <3>2 DEF SingleOwner, IInv
    <3> QED BY <3>3, <3>4
  <2> QED BY <2>1, <2>2 DEF SkipLedger, Persist, Crash
<1> QED BY <1>2, <1>3, <1>4 DEF IInv

\* Time, the reaper, the rollup and the administrator preserve the invariant.
LEMMA EnvironmentInv ==
  ASSUME IInv,
         \/ \E k \in Keys : LeaseLapse(k) \/ GracePass(k)
         \/ ExpireStale \/ Rollup \/ NextPeriod
  PROVE  IInv'
<1>1. UNCHANGED <<callerVars, faults>>
  BY Zenon DEF LeaseLapse, GracePass, ExpireStale, Rollup, NextPeriod
<1>2. CallerType'
  BY <1>1 DEF IInv, CallerType, callerVars
<1>3. /\ TableType'
      /\ \A j \in Keys : row'[j].version \in Nat /\ row[j].version \in Nat
                         /\ row'[j].version >= row[j].version
  <2>0. \A j \in Keys : Good(row[j]) /\ row[j] \in RowType /\ row[j].version \in Nat
    BY VersionNat, Zenon DEF IInv, TableType
  <2>1. ASSUME NEW k \in Keys, LeaseLapse(k) \/ GracePass(k)
        PROVE  \E l \in {"lapsed", "stale"} :
                 /\ row' = [row EXCEPT ![k] = [row[k] EXCEPT !.lease = l]]
                 /\ row[k].lease # "none" /\ UNCHANGED <<period, spent>>
    BY <2>1 DEF LeaseLapse, GracePass
  <2>2. CASE \E k \in Keys : LeaseLapse(k) \/ GracePass(k)
    <3>1. PICK k \in Keys, l \in {"lapsed", "stale"} :
            /\ row' = [row EXCEPT ![k] = [row[k] EXCEPT !.lease = l]]
            /\ row[k].lease # "none" /\ UNCHANGED <<period, spent>>
      BY <2>1, <2>2
    <3> DEFINE x == [row[k] EXCEPT !.lease = l]
    <3>2. Good(x) /\ x.version = row[k].version
      BY <2>0, <3>1 DEF Good, RowOK, RowType, Leases
    <3>3. x.version >= row[k].version /\ row' = [row EXCEPT ![k] = x]
      BY <2>0, <3>1, <3>2
    <3> HIDE DEF x
    <3> QED BY <3>1, <3>2, <3>3, RowStep, Zenon
  <2>3. CASE ExpireStale
    <3>1. PICK batch \in SUBSET {k \in Keys : Reapable(k)} :
            row' = [k \in Keys |-> IF k \in batch THEN Expired(row[k]) ELSE row[k]]
      BY <2>3 DEF ExpireStale
    <3>2. ASSUME NEW j \in Keys
          PROVE  /\ Good(row'[j]) /\ row'[j].version \in Nat
                 /\ row'[j].version >= row[j].version
      <4>1. CASE j \in batch
        <5>1. row[j].state = "claimed" /\ row'[j] = Expired(row[j])
          BY <4>1, <3>1 DEF Reapable
        <5>2. Good(Expired(row[j])) /\ Expired(row[j]).version = row[j].version + 1
          BY <5>1, <2>0, CloseGood DEF Expired
        <5> QED BY <5>1, <5>2, <2>0
      <4>2. CASE j \notin batch
        BY <4>2, <3>1, <2>0
      <4> QED BY <4>1, <4>2
    <3>3. DOMAIN row' = Keys /\ row' = [j \in Keys |-> row'[j]] /\ UNCHANGED <<period, spent>>
      BY <3>1, <2>3 DEF ExpireStale
    <3> QED BY <3>2, <3>3, <2>0 DEF TableType, Good, IInv
  <2>4. CASE Rollup
    BY <2>4, <2>0, BudgetAssumption DEF Rollup, IInv, TableType
  <2>5. CASE NextPeriod
    BY <2>5, <2>0, BudgetAssumption DEF NextPeriod, IInv, TableType
  <2> QED BY <2>2, <2>3, <2>4, <2>5
<1> QED BY <1>1, <1>2, <1>3, OwnersKept DEF IInv, callerVars

-----------------------------------------------------------------------------

\* The initial state satisfies the invariant.
LEMMA InitInv == Init => IInv
<1> SUFFICES ASSUME Init PROVE IInv
  OBVIOUS
<1>1. Good(Absent)
  BY BudgetAssumption DEF Good, RowOK, RowType, Absent, Hashes, States, Leases, Markers
<1>2. TableType
  BY <1>1, BudgetAssumption DEF Init, TableType, Good
<1>3. CallerType
  BY BudgetAssumption DEF Init, CallerType, Replies
<1>4. SingleOwner /\ Bounded
  BY BudgetAssumption DEF Init, SingleOwner, Bounded, Absent
<1> QED BY <1>2, <1>3, <1>4 DEF IInv

\* Every step preserves the invariant.
LEMMA NextInv == IInv /\ [Next]_vars => IInv'
<1> SUFFICES ASSUME IInv, [Next]_vars PROVE IInv'
  OBVIOUS
<1>1. ASSUME NEW o \in Callers, CallerStep(o) PROVE IInv'
  BY <1>1, ClaimInv, LocalInv, FinalizeInv, ReleaseInv DEF CallerStep
<1>2. CASE UNCHANGED vars
  BY <1>2, Zenon DEF vars, tableVars, callerVars, IInv, TableType, CallerType,
              SingleOwner, Bounded
<1> QED BY <1>1, <1>2, EnvironmentInv DEF Next

\* The inductive invariant holds in every reachable state.
THEOREM Invariance == Spec => []IInv
BY InitInv, NextInv, PTL DEF Spec

\* Every variable keeps its type.
THEOREM TypeCorrect == Spec => []TypeOK
<1>1. IInv => TypeOK
  BY DEF IInv, TypeOK, TableType, CallerType
<1> QED BY <1>1, Invariance, PTL

\* Every row satisfies the CHECK constraints of the reservation table after
\* every transaction of either runtime.
THEOREM ChecksTheorem == Spec => []ChecksHold
<1>1. IInv => ChecksHold
  BY DEF IInv, TableType, Good, ChecksHold
<1> QED BY <1>1, Invariance, PTL

\* No two callers ever hold one version of one reservation.
THEOREM OwnerTheorem == Spec => []SingleOwner
<1>1. IInv => SingleOwner
  BY Zenon DEF IInv
<1> QED BY <1>1, Invariance, PTL

\* A caller is told of a settlement only for its own transition.
THEOREM SettlementTheorem == Spec => SettlementIsOwn
<1> DEFINE P == \A o \in Callers :
       told'[o] # told[o] /\ told'[o] \in {"finalized", "released"} =>
         /\ row'[KeyOf[o]].state = told'[o]
         /\ row'[KeyOf[o]].version = ver[o] + 1
<1>1. IInv /\ [Next]_vars => [P]_vars
  <2> SUFFICES ASSUME IInv, Next, NEW o \in Callers, told'[o] # told[o],
                      told'[o] \in {"finalized", "released"}
               PROVE  /\ row'[KeyOf[o]].state = told'[o]
                      /\ row'[KeyOf[o]].version = ver[o] + 1
    OBVIOUS
  <2>0. told \in [Callers -> Replies] /\ KeyOf[o] \in Keys /\ row \in [Keys -> RowType]
    BY BudgetAssumption DEF IInv, CallerType, TableType
  <2>1. PICK q \in Callers : CallerStep(q)
    BY Zenon
       DEF Next, LeaseLapse, GracePass, ExpireStale, Rollup, NextPeriod, callerVars
  <2>2. ASSUME NEW s, NEW c, NEW m, NEW ending, Settle(q, s, c, m, ending)
        PROVE  /\ row'[KeyOf[o]].state = told'[o]
               /\ row'[KeyOf[o]].version = ver[o] + 1
    <3> DEFINE r == row[KeyOf[q]]
               a == IF ending # "answered" THEN "error"
                    ELSE IF Holds(q, r) \/ Replay(q, r, s, c, m) THEN s ELSE "closed"
    <3>1. told' = [told EXCEPT ![q] = a]
      BY <2>2 DEF Settle
    <3>2. q = o /\ a = told'[o]
      BY <3>1, <2>0
    <3>3. ending = "answered" /\ (Holds(q, r) \/ Replay(q, r, s, c, m)) /\ a = s
      BY <3>2, Zenon
    <3>4. CASE Holds(q, r)
      <4>1. row' = [row EXCEPT ![KeyOf[q]] = Close(r, s, c, m)]
        BY <3>3, <3>4, <2>2 DEF Settle
      <4>2. row'[KeyOf[o]] = Close(r, s, c, m)
        BY <4>1, <3>2, <2>0
      <4>3. r \in RowType /\ r.version = ver[o]
        BY <3>2, <3>4, <2>0 DEF Holds
      <4> HIDE DEF r
      <4>4. Close(r, s, c, m).state = s /\ Close(r, s, c, m).version = r.version + 1
        BY <4>3 DEF Close, RowType
      <4> QED BY <4>2, <4>3, <4>4, <3>2, <3>3
    <3>5. CASE ~Holds(q, r)
      <4>1. row' = row
        BY <3>5, <2>2 DEF Settle
      <4>2. Replay(q, r, s, c, m)
        BY <3>3, <3>5
      <4> QED BY <4>1, <4>2, <3>2, <3>3 DEF Replay
    <3> QED BY <3>4, <3>5
  <2>3. CASE Finalize(q)
    BY <2>2, <2>3 DEF Finalize
  <2>4. CASE Release(q)
    BY <2>2, <2>4 DEF Release
  <2>5. CASE Claim(q)
    <3>1. PICK kind \in {"owned", "no_cap", "exceeded", "conflict", "in_progress", "error"} :
            told' = [told EXCEPT ![q] = kind]
      <4>1. PICK e \in Estimates, live \in SeesLive(q, row[KeyOf[q]]), ending \in Endings :
              told' = [told EXCEPT ![q] = IF ending = "answered"
                                          THEN ClaimInTx(q, e, live).kind ELSE "error"]
        BY <2>5, Zenon DEF Claim
      <4>2. live \in BOOLEAN
        BY Zenon DEF SeesLive
      <4>3. ClaimInTx(q, e, live).kind
              \in {"owned", "no_cap", "exceeded", "conflict", "in_progress"}
        BY <4>2, ClaimGood, Zenon
      <4> QED BY <4>1, <4>3
    <3> QED BY <3>1, <2>0
  <2>6. CASE SkipLedger(q) \/ Persist(q) \/ Crash(q)
    BY <2>6 DEF SkipLedger, Persist, Crash
  <2> QED BY <2>1, <2>3, <2>4, <2>5, <2>6 DEF CallerStep
<1>2. Spec => [][P]_vars
  BY <1>1, Invariance, PTL DEF Spec
<1> QED BY <1>2, Zenon DEF SettlementIsOwn

\* With clocks that agree, nobody but its owner ends a hold whose lease has
\* not run out: neither a competing claim, nor the reaper, nor an older owner.
THEOREM ProtectedTheorem ==
  ASSUME Skewed = FALSE
  PROVE  Spec => LiveHoldIsProtected
<1> DEFINE P == \A k \in Keys :
       row[k].lease = "live" /\ row'[k].version # row[k].version =>
         \E o \in Callers : /\ KeyOf[o] = k /\ ver[o] = row[k].version
                            /\ pc[o] = "working" /\ pc'[o] # "working"
<1>1. IInv /\ [Next]_vars => [P]_vars
  <2> SUFFICES ASSUME IInv, Next, NEW k \in Keys,
                      row[k].lease = "live", row'[k].version # row[k].version
               PROVE  \E o \in Callers : /\ KeyOf[o] = k /\ ver[o] = row[k].version
                                         /\ pc[o] = "working" /\ pc'[o] # "working"
    OBVIOUS
  <2>0. /\ row \in [Keys -> RowType] /\ row[k].state = "claimed"
        /\ \A o \in Callers : KeyOf[o] \in Keys
    BY BudgetAssumption DEF IInv, TableType, Good, RowOK
  <2>1. ASSUME NEW o \in Callers, Claim(o) PROVE FALSE
    <3>1. PICK e \in Estimates, live \in SeesLive(o, row[KeyOf[o]]) :
            \/ row' = row
            \/ row' = [row EXCEPT ![KeyOf[o]] = ClaimInTx(o, e, live).row]
      BY <2>1 DEF Claim
    <3>2. KeyOf[o] = k /\ row' = [row EXCEPT ![k] = ClaimInTx(o, e, live).row]
      BY <3>1, <2>0, Zenon
    <3>3. live = TRUE
      BY <3>2, Zenon DEF SeesLive
    <3>4. ClaimInTx(o, e, live).row = row[k]
      BY <3>2, <3>3, <2>0 DEF ClaimInTx
    <3> QED BY <3>2, <3>4, <2>0
  <2>2. ASSUME NEW o \in Callers, NEW s, NEW c, NEW m, NEW ending,
               Settle(o, s, c, m, ending)
        PROVE  KeyOf[o] = k /\ ver[o] = row[k].version
    <3>1. \/ row' = row
          \/ /\ Holds(o, row[KeyOf[o]])
             /\ row' = [row EXCEPT ![KeyOf[o]] = Close(row[KeyOf[o]], s, c, m)]
      BY <2>2 DEF Settle
    <3> QED BY <3>1, <2>0 DEF Holds
  <2>3. ASSUME NEW o \in Callers, Finalize(o) \/ Release(o)
        PROVE  /\ KeyOf[o] = k /\ ver[o] = row[k].version
               /\ pc[o] = "working" /\ pc'[o] # "working"
    <3>1. KeyOf[o] = k /\ ver[o] = row[k].version /\ pc[o] = "working"
      BY <2>2, <2>3, Zenon DEF Finalize, Release
    <3>2. pc \in [Callers -> {"admit", "working", "persist", "done"}]
      BY Zenon DEF IInv, CallerType
    <3>3. pc'[o] # "working"
      BY <2>3, <3>2, Zenon DEF Finalize, Release
    <3> QED BY <3>1, <3>3
  <2>4. ASSUME NEW o \in Callers, SkipLedger(o) \/ Persist(o) \/ Crash(o) PROVE FALSE
    BY <2>4, Zenon DEF SkipLedger, Persist, Crash, tableVars
  <2>5. ASSUME NEW j \in Keys, LeaseLapse(j) \/ GracePass(j) PROVE FALSE
    <3>1. PICK l : row' = [row EXCEPT ![j] = [row[j] EXCEPT !.lease = l]]
      BY <2>5, Zenon DEF LeaseLapse, GracePass
    <3>2. row'[k] = row[k] \/ row'[k] = [row[k] EXCEPT !.lease = l]
      BY <3>1, <2>0
    <3>3. row[k] \in RowType
      BY <2>0, Zenon
    <3> QED BY <3>2, <3>3 DEF RowType
  <2>6. CASE ExpireStale
    BY <2>6, <2>0 DEF ExpireStale, Reapable
  <2>7. CASE Rollup \/ NextPeriod
    BY <2>7, Zenon DEF Rollup, NextPeriod
  <2> QED BY <2>1, <2>3, <2>4, <2>5, <2>6, <2>7 DEF Next, CallerStep
<1>2. Spec => [][P]_vars
  BY <1>1, Invariance, PTL DEF Spec
<1> QED BY <1>2 DEF LiveHoldIsProtected

-----------------------------------------------------------------------------
(* The usage facts that the spend rollup sums.  A fact is in the buffer or *)
(* in the hands of a flush, never in both; only one flush has rows at a    *)
(* time; and a fact that is put back although it reached the table is in   *)
(* unsure.                                                                 *)

FactTypes ==
  /\ buf \in Seq(Facts) /\ rows \in Seq(Facts)
  /\ closed \in BOOLEAN
  /\ loop \in {"idle", "flush", "ended"}
  /\ shut \in {"not called", "wait", "flush", "failed", "ok"}
  /\ sink \in [Facts -> Nat]
  /\ reply \in [Facts -> {"none", "accepted", "refused"}]

\* Who may hold rows: the loop until it has ended, then Shutdown.
FlushPhases ==
  /\ closed <=> shut # "not called"
  /\ rows # <<>> => loop = "flush" \/ shut = "flush"
  /\ shut \in {"flush", "failed", "ok"} => loop = "ended"
  /\ shut \in {"flush", "ok"} => buf = <<>>

Waiting == Range(buf) \cup Range(rows)

Unique ==
  /\ Range(buf) \cap Range(rows) = {}
  /\ \A f \in Facts : f \in Waiting \/ sink[f] > 0 => reply[f] = "accepted"
  /\ \A f \in Facts : f \in Waiting /\ sink[f] > 0 => f \in unsure

FactsInv == FactTypes /\ FlushPhases /\ Unique /\ FactsAreAccounted

\* The elements of a sequence that grew by one.
LEMMA ElementsAppend ==
  ASSUME NEW S, NEW s \in Seq(S), NEW e \in S
  PROVE  Append(s, e) \in Seq(S) /\ Range(Append(s, e)) = Range(s) \cup {e}
<1>1. /\ Append(s, e) \in Seq(S) /\ Len(s) \in Nat /\ Len(Append(s, e)) = Len(s) + 1
      /\ \A i \in 1..Len(s) : Append(s, e)[i] = s[i]
      /\ Append(s, e)[Len(s) + 1] = e
      /\ DOMAIN s = 1..Len(s) /\ DOMAIN Append(s, e) = 1..(Len(s) + 1)
  OBVIOUS
<1>2. \A i \in 1..(Len(s) + 1) : i \in 1..Len(s) \/ i = Len(s) + 1
  BY <1>1
<1>3. \A i \in 1..Len(s) : i \in 1..(Len(s) + 1)
  BY <1>1
<1>4. Len(s) + 1 \in 1..(Len(s) + 1)
  BY <1>1
<1> QED BY <1>1, <1>2, <1>3, <1>4 DEF Range

\* The elements of two sequences in a row.
LEMMA ElementsConcat ==
  ASSUME NEW S, NEW s \in Seq(S), NEW t \in Seq(S)
  PROVE  s \o t \in Seq(S) /\ Range(s \o t) = Range(s) \cup Range(t)
<1>1. /\ s \o t \in Seq(S) /\ Len(s) \in Nat /\ Len(t) \in Nat
      /\ DOMAIN s = 1..Len(s) /\ DOMAIN t = 1..Len(t) /\ DOMAIN (s \o t) = 1..(Len(s) + Len(t))
      /\ \A i \in 1..(Len(s) + Len(t)) : (s \o t)[i] = IF i \in 1..Len(s) THEN s[i] ELSE t[i - Len(s)]
  OBVIOUS
<1>2. Range(s \o t) \subseteq Range(s) \cup Range(t)
  <2> SUFFICES ASSUME NEW i \in 1..(Len(s) + Len(t)) PROVE (s \o t)[i] \in Range(s) \cup Range(t)
    BY <1>1, Zenon DEF Range
  <2>1. i \in 1..Len(s) \/ i - Len(s) \in 1..Len(t)
    BY <1>1
  <2> QED BY <1>1, <2>1, Zenon DEF Range
<1>3. Range(s) \subseteq Range(s \o t)
  <2> SUFFICES ASSUME NEW i \in 1..Len(s) PROVE s[i] \in Range(s \o t)
    BY <1>1 DEF Range
  <2>1. i \in 1..(Len(s) + Len(t)) /\ (s \o t)[i] = s[i]
    BY <1>1
  <2> QED BY <1>1, <2>1 DEF Range
<1>4. Range(t) \subseteq Range(s \o t)
  <2> SUFFICES ASSUME NEW i \in 1..Len(t) PROVE t[i] \in Range(s \o t)
    BY <1>1 DEF Range
  <2> DEFINE k == i + Len(s)
  <2>1. k \in 1..(Len(s) + Len(t)) /\ k \notin 1..Len(s) /\ k - Len(s) = i
    BY <1>1
  <2>2. (s \o t)[k] = t[i]
    BY <1>1, <2>1
  <2> HIDE DEF k
  <2> QED BY <1>1, <2>1, <2>2 DEF Range
<1> QED BY <1>1, <1>2, <1>3, <1>4

\* The elements of a prefix.
LEMMA ElementsPrefix ==
  ASSUME NEW S, NEW s \in Seq(S), NEW n \in 0..Len(s)
  PROVE  SubSeq(s, 1, n) \in Seq(S) /\ Range(SubSeq(s, 1, n)) \subseteq Range(s)
<1>1. /\ Len(s) \in Nat /\ DOMAIN s = 1..Len(s)
  OBVIOUS
<1>2. /\ SubSeq(s, 1, n) \in Seq(S) /\ Len(SubSeq(s, 1, n)) = n /\ n \in Nat
      /\ \A i \in 1..n : SubSeq(s, 1, n)[i] = s[i] /\ i \in 1..Len(s)
  BY <1>1
<1>3. DOMAIN SubSeq(s, 1, n) = 1..n
  BY <1>2
<1> QED BY <1>1, <1>2, <1>3 DEF Range

\* The empty sequence has no elements.
LEMMA ElementsEmpty == Range(<<>>) = {}
BY DEF Range

\* A request hands in its fact.
LEMMA WriteKeeps == ASSUME FactsInv, NEW f \in Facts, Write(f) PROVE FactsInv'
<1> USE DEF FactsInv, Write
<1>1. CASE closed \/ Len(buf) >= MaxBufferSize
  <2>1. reply' = [reply EXCEPT ![f] = "refused"] /\ UNCHANGED buf
    BY <1>1
  <2> QED BY <2>1, Zenon DEF FactTypes, FlushPhases, Unique, Waiting, FactsAreAccounted
<1>2. CASE ~(closed \/ Len(buf) >= MaxBufferSize)
  <2>1. reply' = [reply EXCEPT ![f] = "accepted"] /\ buf' = Append(buf, f) /\ ~closed
    BY <1>2
  <2>2. buf' \in Seq(Facts) /\ Range(buf') = Range(buf) \cup {f}
    <3>1. buf \in Seq(Facts)
      BY Zenon DEF FactTypes
    <3> QED BY <2>1, <3>1, ElementsAppend, ZenonT(30)
  <2>3. f \notin Waiting /\ sink[f] = 0
    <3>1. reply[f] # "accepted"
      OBVIOUS
    <3>2. f \notin Waiting /\ ~(sink[f] > 0)
      BY <3>1 DEF Unique
    <3>3. sink[f] \in Nat
      BY Zenon DEF FactTypes
    <3> QED BY <3>2, <3>3
  <2>4. FactTypes' /\ FlushPhases'
    BY <2>1, <2>2, Zenon DEF FactTypes, FlushPhases
  <2>5. Unique'
    BY <2>1, <2>2, <2>3, Zenon DEF FactTypes, Unique, Waiting
  <2>6. FactsAreAccounted'
    BY <2>1, <2>2, <2>3, Zenon DEF FactTypes, FlushPhases, FactsAreAccounted
  <2> QED BY <2>4, <2>5, <2>6
<1> QED BY <1>1, <1>2

\* A flush takes the buffer; nobody holds rows then.
LEMMA TakeKeeps == ASSUME FactsInv, FlushOnce \/ FinalTake PROVE FactsInv'
<1> USE DEF FactsInv, TakeBuffer
<1>1. rows = <<>>
  BY Zenon DEF FlushOnce, FinalTake, FlushPhases, LoopIsOver, FactTypes
<1>2. rows' = buf /\ buf' = <<>> /\ UNCHANGED <<closed, sink, reply, dropped, unsure>>
  BY Zenon DEF FlushOnce, FinalTake
<1>3. Range(rows) = {} /\ Range(buf') = {}
  BY <1>1, <1>2, ElementsEmpty
<1>4. FactTypes' /\ FlushPhases'
  BY <1>2, Zenon DEF FactTypes, FlushPhases, FlushOnce, FinalTake, LoopIsOver
<1>5. Unique'
  BY <1>2, <1>3 DEF Unique, Waiting
<1>6. shut' # "ok"
  BY Zenon DEF FlushOnce, FinalTake, FlushPhases, FactTypes
<1>7. FactsAreAccounted'
  BY <1>2, <1>3, <1>6 DEF FactsAreAccounted
<1> QED BY <1>4, <1>5, <1>7, Zenon

\* What an insert that took effect adds.
Copied == sink' = [f \in Facts |-> sink[f] + (IF f \in Range(rows) THEN 1 ELSE 0)]

LEMMA CopiedCount ==
  ASSUME FactsInv, Copied
  PROVE  /\ sink' \in [Facts -> Nat]
         /\ \A f \in Facts : /\ f \in Range(rows) => sink'[f] > 0
                             /\ f \notin Range(rows) => sink'[f] = sink[f]
                             /\ sink'[f] > 0 => sink[f] > 0 \/ f \in Range(rows)
                             /\ sink'[f] > 1 => sink[f] > 1 \/ (f \in Range(rows) /\ sink[f] > 0)
                             /\ sink[f] > 0 => sink'[f] > 0
<1>1. sink \in [Facts -> Nat]
  BY Zenon DEF FactsInv, FactTypes
<1>2. \A f \in Facts : sink[f] \in Nat /\ sink'[f] = sink[f] + (IF f \in Range(rows) THEN 1 ELSE 0)
  BY <1>1, Zenon DEF Copied
<1>3. \A f \in Facts : \/ f \in Range(rows) /\ sink'[f] = sink[f] + 1
                       \/ f \notin Range(rows) /\ sink'[f] = sink[f]
  <2> TAKE f \in Facts
  <2>1. CASE f \in Range(rows)
    BY <1>2, <2>1
  <2>2. CASE f \notin Range(rows)
    <3>1. sink'[f] = sink[f] + 0
      BY <1>2, <2>2
    <3> QED BY <1>2, <2>2, <3>1
  <2> QED BY <2>1, <2>2
<1>4. sink' \in [Facts -> Nat]
  BY <1>1 DEF Copied
<1> QED BY <1>2, <1>3, <1>4

\* The insert is reported done.
LEMMA InsertedKeeps ==
  ASSUME FactsInv, Inserted, UNCHANGED <<closed, reply>>,
         \/ loop = "flush" /\ loop' = "idle" /\ UNCHANGED shut
         \/ shut = "flush" /\ shut' = "ok" /\ UNCHANGED loop
  PROVE  FactsInv'
<1> USE DEF FactsInv, Inserted
<1>1. Copied
  BY Zenon DEF Copied
<1>2. Range(rows') = {} /\ rows' \in Seq(Facts)
  BY ElementsEmpty
<1>3. FactTypes'
  BY <1>1, <1>2, CopiedCount, Zenon DEF FactTypes
<1>4. FlushPhases'
  BY Zenon DEF FlushPhases, FactTypes
<1>5. Unique'
  BY <1>1, <1>2, CopiedCount DEF Unique, Waiting
<1>6. \A f \in Facts : reply'[f] = "accepted" =>
        f \in Range(buf') \cup Range(rows') \cup dropped' \/ sink'[f] > 0
  BY <1>1, CopiedCount DEF FactsAreAccounted
<1>7. \A f \in Facts : sink'[f] > 1 => f \in unsure'
  BY <1>1, CopiedCount DEF FactsAreAccounted, Unique, Waiting
<1>8. shut' = "ok" => buf' = <<>> /\ rows' = <<>>
  BY Zenon DEF FlushPhases
<1> QED BY <1>3, <1>4, <1>5, <1>6, <1>7, <1>8, Zenon DEF FactsAreAccounted

\* What requeueFront keeps and what it reports.
LEMMA RequeueParts ==
  ASSUME FactsAssumption, FactsInv
  PROVE  /\ Kept \in Seq(Facts)
         /\ Range(Kept) \subseteq Waiting
         /\ Waiting = Range(Kept) \cup Discarded
<1>1. Combined \in Seq(Facts) /\ Range(Combined) = Waiting
  <2>1. rows \in Seq(Facts) /\ buf \in Seq(Facts)
    BY Zenon DEF FactsInv, FactTypes
  <2>2. Combined \in Seq(Facts) /\ Range(Combined) = Range(rows) \cup Range(buf)
    BY <2>1, ElementsConcat, Zenon DEF Combined
  <2> QED BY <2>2 DEF Waiting
<1>2. Len(Combined) \in Nat
  BY <1>1
<1>3. PICK n \in 0..Len(Combined) : Kept = SubSeq(Combined, 1, n)
  <2>1. CASE Len(Combined) > MaxBufferSize
    BY <1>2, <2>1 DEF Kept, FactsAssumption
  <2>2. CASE ~(Len(Combined) > MaxBufferSize)
    BY <1>2, <2>2 DEF Kept
  <2> QED BY <2>1, <2>2, Zenon
<1>4. Kept \in Seq(Facts) /\ Range(Kept) \subseteq Range(Combined)
  BY <1>1, <1>3, ElementsPrefix
<1> QED BY <1>1, <1>4 DEF Discarded

\* The insert is reported failed, and the rows go back.
LEMMA FailedKeeps ==
  ASSUME FactsAssumption, FactsInv, InsertFailed, UNCHANGED <<closed, reply>>,
         \/ loop = "flush" /\ loop' = "idle" /\ UNCHANGED shut
         \/ shut = "flush" /\ shut' = "failed" /\ UNCHANGED loop
  PROVE  FactsInv'
<1> USE DEF FactsInv, InsertFailed, RequeueFront
<1>1. buf' = Kept /\ dropped' = dropped \cup Discarded /\ rows' = <<>>
  OBVIOUS
<1>2. \/ UNCHANGED <<sink, unsure>>
      \/ Copied /\ unsure' = unsure \cup Range(rows)
  BY Zenon DEF Copied
<1>3. Range(rows') = {} /\ rows' \in Seq(Facts)
  BY <1>1, ElementsEmpty
<1>4. FactTypes'
  <2>1. sink' \in [Facts -> Nat]
    BY <1>2, CopiedCount, Zenon DEF FactTypes
  <2> QED BY <1>1, <1>3, <2>1, RequeueParts, Zenon DEF FactTypes
<1>5. FlushPhases' /\ shut' # "ok"
  BY <1>1, Zenon DEF FlushPhases, FactTypes
<1>6. Waiting' = Range(Kept) /\ Range(rows) \subseteq Waiting
  BY <1>1, <1>3 DEF Waiting
<1>7. CASE UNCHANGED <<sink, unsure>>
  <2>1. Unique'
    BY <1>1, <1>3, <1>6, <1>7, RequeueParts DEF Unique
  <2>2. FactsAreAccounted'
    BY <1>1, <1>3, <1>5, <1>6, <1>7, RequeueParts DEF FactsAreAccounted, Waiting
  <2> QED BY <1>4, <1>5, <2>1, <2>2
<1>8. CASE Copied /\ unsure' = unsure \cup Range(rows)
  <2>1. Unique'
    BY <1>1, <1>3, <1>6, <1>8, RequeueParts, CopiedCount DEF Unique
  <2>2. \A f \in Facts : reply'[f] = "accepted" =>
          f \in Range(buf') \cup Range(rows') \cup dropped' \/ sink'[f] > 0
    BY <1>1, <1>8, RequeueParts, CopiedCount DEF FactsAreAccounted, Waiting
  <2>3. \A f \in Facts : sink'[f] > 1 => f \in unsure'
    BY <1>8, CopiedCount DEF FactsAreAccounted
  <2> QED BY <1>4, <1>5, <2>1, <2>2, <2>3 DEF FactsAreAccounted
<1> QED BY <1>2, <1>7, <1>8

\* Every step preserves the invariant.
LEMMA FactsStep == ASSUME FactsAssumption, FactsInv, [FactsNext]_factsVars PROVE FactsInv'
<1>1. CASE UNCHANGED factsVars \/ LoopEnds \/ Shutdown
  <2>1. UNCHANGED <<buf, rows, sink, reply, dropped, unsure>>
    BY <1>1 DEF factsVars, LoopEnds, Shutdown
  <2>2. FactTypes' /\ FlushPhases' /\ (shut' = "ok" => shut = "ok")
    <3>1. CASE UNCHANGED factsVars
      BY <2>1, <3>1, Zenon DEF factsVars, FactsInv, FactTypes, FlushPhases
    <3>2. CASE LoopEnds
      BY <2>1, <3>2, Zenon DEF LoopEnds, FactsInv, FactTypes, FlushPhases
    <3>3. CASE Shutdown
      BY <2>1, <3>3, Zenon DEF Shutdown, FactsInv, FactTypes, FlushPhases
    <3> QED BY <1>1, <3>1, <3>2, <3>3
  <2>3. Unique' /\ FactsAreAccounted'
    BY <2>1, <2>2 DEF FactsInv, Unique, Waiting, FactsAreAccounted
  <2> QED BY <2>2, <2>3 DEF FactsInv
<1>2. CASE LoopInsert
  BY <1>2, InsertedKeeps, FailedKeeps DEF LoopInsert
<1>3. CASE FinalInsert
  BY <1>3, InsertedKeeps, FailedKeeps DEF FinalInsert
<1> QED BY <1>1, <1>2, <1>3, WriteKeeps, TakeKeeps DEF FactsNext

\* No accepted fact disappears silently and none is counted twice unless its
\* insert was uncertain, for any number of facts, any buffer and any errors.
THEOREM FactsTheorem == ASSUME FactsAssumption PROVE FactsSpec => []FactsAreAccounted
<1>1. FactsInit => FactsInv
  <2> SUFFICES ASSUME FactsInit PROVE FactsInv
    OBVIOUS
  <2>0. buf \in Seq(Facts) /\ rows \in Seq(Facts)
    <3>1. <<>> \in Seq(Facts)
      OBVIOUS
    <3> QED BY <3>1, Zenon DEF FactsInit
  <2>1. FactTypes /\ FlushPhases
    BY <2>0, Zenon DEF FactsInit, FactTypes, FlushPhases
  <2>2. Waiting = {} /\ Range(buf) = {}
    BY ElementsEmpty, Zenon DEF FactsInit, Waiting
  <2>3. \A f \in Facts : ~(sink[f] > 0) /\ ~(sink[f] > 1) /\ reply[f] = "none"
    <3>1. \A f \in Facts : sink[f] = 0 /\ reply[f] = "none"
      BY Zenon DEF FactsInit
    <3> QED BY <3>1
  <2>4. Unique /\ FactsAreAccounted
    BY <2>2, <2>3, Zenon DEF FactsInit, Unique, FactsAreAccounted
  <2> QED BY <2>1, <2>4 DEF FactsInv
<1>2. FactsInv => FactsAreAccounted
  BY Zenon DEF FactsInv
<1> QED BY <1>1, <1>2, FactsStep, PTL DEF FactsSpec
=============================================================================
