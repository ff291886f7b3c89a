------------------------ MODULE MemoryLifecycleProofs ------------------------
(***************************************************************************)
(* Proofs about MemoryLifecycle for any commands, hashes and candidates.   *)
(*                                                                         *)
(* NoWriteAcrossForget is not inductive: that an overtaken task cannot     *)
(* commit rests on the session's revision having moved past the one it     *)
(* read.  NothingSurvivesThePurge rests on the advisory lock: no writer is *)
(* between its check of the organisation and its commit while the purge    *)
(* holds the lock, so the rows it deletes are all rows.                    *)
(***************************************************************************)
EXTENDS MemoryLifecycle, FiniteSetTheorems, FunctionTheorems, TLAPS

LockOK == \A c \in Creates : pc[c] \in {"locked", "isolated"} => c \in shared

PurgeOK ==
  /\ purge \in {"locked", "deleted", "done"} => shared = {}
  /\ purge = "deleted" => doomed = Rows
  /\ org = "cancelled" <=> purge = "done"

OvertakenOK ==
  /\ \A c \in Creates : fence[c] <= session.rev
  /\ \A c \in overtaken :
       /\ c \in FromSession /\ pc[c] # "idle"
       /\ fence[c] < session.rev

IInv ==
  /\ TypeOK /\ LockOK /\ PurgeOK /\ OvertakenOK
  /\ NoWriteAcrossForget /\ ForgottenHasNoVector /\ NothingSurvivesThePurge

\* The initial state satisfies the inductive invariant.
LEMMA InitInv == Init => IInv
BY MemoryAssumption
DEF Init, IInv, TypeOK, LockOK, PurgeOK, OvertakenOK, NoWriteAcrossForget,
    ForgottenHasNoVector, NothingSurvivesThePurge, Rows, NoRow, Statuses, Steps

\* A row and its type.
LEMMA RowType ==
  ASSUME TypeOK, NEW c \in Creates
  PROVE  /\ mem[c] \in [status : Statuses, rev : Nat, embedded : BOOLEAN]
         /\ mem[c].status \in Statuses /\ mem[c].rev \in Nat
         /\ mem[c].embedded \in BOOLEAN
         /\ fence[c] \in Nat /\ session.rev \in Nat
         /\ session \in [live : BOOLEAN, rev : Nat]
         /\ pc[c] \in Steps \cup Answers
BY Zenon DEF TypeOK

\* The steps of the pipeline before the insert change no table.
LEMMA PipelineInv ==
  ASSUME IInv, NEW c \in Creates,
         Begin(c) \/ ExactDedup(c) \/ BumpRetrieval(c) \/ Embed(c) \/ HashRace(c) \/ RaceBump(c)
  PROVE  IInv'
<1>1. /\ pc[c] \notin {"locked", "isolated"}
      /\ \E s \in (Steps \cup Answers) \ {"idle", "locked", "isolated"} :
           pc' = [pc EXCEPT ![c] = s]
  BY Zenon
     DEF Begin, ExactDedup, BumpRetrieval, Embed, HashRace, RaceBump, Goto, Steps, Answers,
         IInv, TypeOK
<1>2. UNCHANGED <<purgeVars, shared, tableVars, overtaken>>
  BY Zenon DEF Begin, ExactDedup, BumpRetrieval, Embed, HashRace, RaceBump
<1>3. fence' = fence \/ (pc[c] = "idle" /\ \E n \in {0, session.rev} : fence' = [fence EXCEPT ![c] = n])
  BY Zenon DEF Begin, ExactDedup, BumpRetrieval, Embed, HashRace, RaceBump, reqVars
<1>4. /\ seen' \in [Creates -> SUBSET (Creates \X Nat)]
      /\ dup' \in [Creates -> Creates \cup {"none"}]
      /\ faults' \in 0 .. MaxFaults
  <2>1. CASE Embed(c)
    <3>1. ASSUME NEW S \in SUBSET Candidates(c)
          PROVE  {<<m, mem[m].rev>> : m \in S} \in SUBSET (Creates \X Nat)
      BY RowType DEF IInv, Candidates, Active
    <3>2. QED
      BY <2>1, <3>1, MemoryAssumption DEF Embed, Fault, IInv, TypeOK
  <2>2. CASE ~Embed(c)
    BY <2>2
       DEF Begin, ExactDedup, BumpRetrieval, HashRace, RaceBump, reqVars, SameHash, Active,
         IInv, TypeOK
  <2>3. QED BY <2>1, <2>2, Zenon
<1>5. TypeOK'
  <2>1. pc' \in [Creates -> Steps \cup Answers]
    BY <1>1, Zenon DEF IInv, TypeOK
  <2>2. fence' \in [Creates -> Nat]
    BY <1>3, RowType DEF IInv, TypeOK
  <2>3. QED
    BY <1>2, <1>4, <2>1, <2>2, Zenon DEF IInv, TypeOK, purgeVars, tableVars
<1>6. LockOK' /\ PurgeOK'
  BY <1>1, <1>2, Zenon DEF IInv, TypeOK, LockOK, PurgeOK, Rows, purgeVars, tableVars
<1>7. OvertakenOK'
  <2>1. session' = session /\ overtaken' = overtaken /\ overtaken \subseteq Creates
    BY <1>2, Zenon DEF IInv, TypeOK, tableVars
  <2>2. \A d \in Creates : fence'[d] <= session.rev
    BY <1>3, RowType DEF IInv, TypeOK, OvertakenOK
  <2>3. \A d \in overtaken : pc'[d] # "idle" /\ fence'[d] = fence[d]
    BY <1>1, <1>3, <2>1, Zenon DEF IInv, TypeOK, OvertakenOK
  <2>4. QED BY <2>1, <2>2, <2>3, Zenon DEF IInv, OvertakenOK
<1>8. QED
  BY <1>2, <1>5, <1>6, <1>7, Zenon
  DEF IInv, NoWriteAcrossForget, ForgottenHasNoVector, NothingSurvivesThePurge, Rows,
      purgeVars, tableVars

\* A writer that gets the lock has seen the organisation active, and no
\* purge is under way.
LEMMA LockInv ==
  ASSUME IInv, NEW c \in Creates, LockOrganization(c)
  PROVE  IInv'
<1>1. UNCHANGED <<purgeVars, tableVars, reqVars, overtaken, faults>>
  BY Zenon DEF LockOrganization
<1>2. \/ /\ org = "active" /\ shared' = shared \cup {c}
         /\ \E s \in {"locked", "isolated"} : pc' = [pc EXCEPT ![c] = s]
      \/ shared' = shared /\ pc' = [pc EXCEPT ![c] = "unavailable"]
  BY Zenon DEF LockOrganization, Goto, MayWrite
<1>3. TypeOK'
  BY <1>1, <1>2 DEF IInv, TypeOK, Steps, Answers, purgeVars, tableVars, reqVars
<1>4. LockOK'
  BY <1>2, Zenon DEF IInv, TypeOK, LockOK
<1>5. PurgeOK'
  BY <1>1, <1>2, Zenon
     DEF IInv, TypeOK, PurgeOK, LockOrganization, LockFree, Rows, purgeVars, tableVars
<1>6. OvertakenOK'
  BY <1>1, <1>2, Zenon DEF IInv, TypeOK, OvertakenOK, tableVars, reqVars
<1>7. QED
  BY <1>1, <1>3, <1>4, <1>5, <1>6, Zenon
  DEF IInv, NoWriteAcrossForget, ForgottenHasNoVector, NothingSurvivesThePurge, Rows,
      purgeVars, tableVars

\* A command that holds the lock keeps the purge out, so the organisation is
\* active when it commits.
LEMMA HolderKeepsPurgeOut ==
  ASSUME IInv, NEW c \in Creates, pc[c] \in {"locked", "isolated"}
  PROVE  c \in shared /\ purge \in {"idle", "waiting"} /\ org = "active"
BY Zenon DEF IInv, TypeOK, LockOK, PurgeOK

\* What the two persisting transactions leave alone.
LEMMA UnlockedInv ==
  ASSUME IInv, NEW c \in Creates, pc[c] \in {"locked", "isolated"},
         NEW s \in (Steps \cup Answers) \ {"idle", "locked", "isolated"},
         pc' = [pc EXCEPT ![c] = s], Unlock(c),
         UNCHANGED <<purgeVars, reqVars, overtaken, session>>,
         faults' = faults \/ Fault,
         mem' \in [Creates -> [status : Statuses, rev : Nat, embedded : BOOLEAN]],
         edges' \subseteq Creates \X Creates,
         events' \subseteq Creates \X Nat \X EventTypes
  PROVE  TypeOK' /\ LockOK' /\ PurgeOK' /\ OvertakenOK' /\ NothingSurvivesThePurge'
<1>1. shared' = shared \ {c}
  BY Zenon DEF Unlock
<1>2. TypeOK'
  <2>1. faults' \in 0 .. MaxFaults
    BY MemoryAssumption DEF IInv, TypeOK, Fault
  <2>2. pc' \in [Creates -> Steps \cup Answers]
    BY Zenon DEF IInv, TypeOK
  <2>3. QED BY <1>1, <2>1, <2>2, Zenon DEF IInv, TypeOK, purgeVars, reqVars
<1>3. LockOK'
  BY <1>1, Zenon DEF IInv, TypeOK, LockOK
<1>4. PurgeOK' /\ NothingSurvivesThePurge'
  BY <1>1, HolderKeepsPurgeOut, Zenon
     DEF IInv, PurgeOK, NothingSurvivesThePurge, purgeVars
<1>5. OvertakenOK'
  BY Zenon DEF IInv, TypeOK, OvertakenOK, reqVars
<1>6. QED BY <1>2, <1>3, <1>4, <1>5, Zenon

\* An insert needs the session revision its task read, which an overtaken
\* task no longer finds.
LEMMA PersistActiveInv ==
  ASSUME IInv, NEW c \in Creates, PersistActive(c)
  PROVE  IInv'
<1>1. UNCHANGED <<purgeVars, reqVars, overtaken>> /\ Unlock(c) /\ pc[c] = "locked"
  BY Zenon DEF PersistActive
<1>2. CASE ~(FenceHolds(c) /\ SameHash(c) = {} /\ TargetsAsSeen(c))
  <2>1. /\ UNCHANGED <<tableVars, faults>>
        /\ \E s \in {"race", "stale"} : pc' = [pc EXCEPT ![c] = s]
    BY <1>2, Zenon DEF PersistActive, Goto
  <2>2. TypeOK' /\ LockOK' /\ PurgeOK' /\ OvertakenOK' /\ NothingSurvivesThePurge'
    BY <1>1, <2>1, UnlockedInv, Zenon DEF IInv, TypeOK, Steps, Answers, tableVars
  <2>3. QED
    BY <1>1, <2>1, <2>2, Zenon
       DEF IInv, NoWriteAcrossForget, ForgottenHasNoVector, tableVars
<1>3. CASE FenceHolds(c) /\ SameHash(c) = {} /\ TargetsAsSeen(c)
  <2>1. Insert(c) /\ Committed(c, "after")
    BY <1>3, Zenon DEF PersistActive
  <2>2. /\ session' = session
        /\ faults' = faults \/ Fault
        /\ \E s \in {"after", "error"} : pc' = [pc EXCEPT ![c] = s]
    BY <2>1, Zenon DEF Insert, Committed, Goto
  <2>3. \A m \in Targets(c) : m \in Creates /\ mem[m].status = "active"
    BY <1>3, Zenon DEF TargetsAsSeen, Targets, Active
  <2>4. mem' = [m \in Creates |->
          IF m = c THEN [status |-> "active", rev |-> 1, embedded |-> FALSE]
          ELSE IF m \in Targets(c) THEN Superseded(mem[m]) ELSE mem[m]]
    BY <2>1, Zenon DEF Insert
  <2>5. mem' \in [Creates -> [status : Statuses, rev : Nat, embedded : BOOLEAN]]
    <3>1. \A m \in Creates : Superseded(mem[m]) \in [status : Statuses, rev : Nat, embedded : BOOLEAN]
      BY RowType DEF IInv, Statuses, Superseded
    <3>2. QED BY <2>4, <3>1, Zenon DEF IInv, TypeOK, Statuses
  <2>6. edges' \subseteq Creates \X Creates /\ events' \subseteq Creates \X Nat \X EventTypes
    <3>1. \A m \in Targets(c) : SupersededEvent(c, m) \in Creates \X Nat \X EventTypes
      <4>1. TAKE m \in Targets(c)
      <4>2. mem[m].rev + 1 \in Nat
        BY <2>3, RowType DEF IInv
      <4>3. QED BY <2>3, <4>2, Zenon DEF SupersededEvent, EventTypes
    <3>2. <<c, 1, "created">> \in Creates \X Nat \X EventTypes
      BY Zenon DEF EventTypes
    <3>3. edges' \subseteq Creates \X Creates
      BY <2>1, <2>3 DEF Insert, IInv, TypeOK
    <3>4. QED BY <2>1, <3>1, <3>2, <3>3 DEF Insert, IInv, TypeOK
  <2>7. TypeOK' /\ LockOK' /\ PurgeOK' /\ OvertakenOK' /\ NothingSurvivesThePurge'
    <3>1. PICK s \in {"after", "error"} : pc' = [pc EXCEPT ![c] = s]
      BY <2>2, Zenon
    <3>2. s \in (Steps \cup Answers) \ {"idle", "locked", "isolated"}
      BY Zenon DEF Steps, Answers
    <3>3. UNCHANGED <<purgeVars, reqVars, overtaken, session>>
      BY <1>1, <2>2, Zenon
    <3>4. pc[c] \in {"locked", "isolated"} /\ Unlock(c) /\ (faults' = faults \/ Fault)
      BY <1>1, <2>2, Zenon
    <3>5. QED BY <2>5, <2>6, <3>1, <3>2, <3>3, <3>4, UnlockedInv, Zenon
  <2>8. c \notin overtaken
    BY <1>3, RowType DEF FenceHolds, IInv, OvertakenOK
  <2>9. NoWriteAcrossForget'
    BY <1>1, <2>3, <2>4, <2>8, Zenon DEF IInv, TypeOK, NoWriteAcrossForget, Superseded
  <2>10. ForgottenHasNoVector'
    BY <2>4, Zenon DEF IInv, TypeOK, ForgottenHasNoVector, Superseded
  <2>11. QED BY <2>7, <2>9, <2>10, Zenon DEF IInv
<1>4. QED BY <1>2, <1>3, Zenon

\* Quarantined content is fenced in the same way.
LEMMA PersistQuarantineInv ==
  ASSUME IInv, NEW c \in Creates, PersistQuarantine(c)
  PROVE  IInv'
<1>1. UNCHANGED <<purgeVars, reqVars, overtaken>> /\ Unlock(c) /\ pc[c] = "isolated"
  BY Zenon DEF PersistQuarantine
<1>2. CASE ~FenceHolds(c)
  <2>1. UNCHANGED <<tableVars, faults>> /\ pc' = [pc EXCEPT ![c] = "stale"]
    BY <1>2, Zenon DEF PersistQuarantine, Goto
  <2>2. TypeOK' /\ LockOK' /\ PurgeOK' /\ OvertakenOK' /\ NothingSurvivesThePurge'
    BY <1>1, <2>1, UnlockedInv, Zenon DEF IInv, TypeOK, Steps, Answers, tableVars
  <2>3. QED
    BY <1>1, <2>1, <2>2, Zenon
       DEF IInv, NoWriteAcrossForget, ForgottenHasNoVector, tableVars
<1>3. CASE FenceHolds(c)
  <2>1. /\ mem' = [mem EXCEPT ![c] = [status |-> "quarantined", rev |-> 1, embedded |-> FALSE]]
        /\ events' = events \cup {<<c, 1, "quarantined">>}
        /\ UNCHANGED <<session, edges>>
        /\ faults' = faults \/ Fault
        /\ \E s \in {"created", "error"} : pc' = [pc EXCEPT ![c] = s]
    BY <1>3, Zenon DEF PersistQuarantine, Committed, Goto
  <2>2. mem' \in [Creates -> [status : Statuses, rev : Nat, embedded : BOOLEAN]]
    BY <2>1, Zenon DEF IInv, TypeOK, Statuses
  <2>3. TypeOK' /\ LockOK' /\ PurgeOK' /\ OvertakenOK' /\ NothingSurvivesThePurge'
    <3>1. PICK s \in {"created", "error"} : pc' = [pc EXCEPT ![c] = s]
      BY <2>1, Zenon
    <3>2. s \in (Steps \cup Answers) \ {"idle", "locked", "isolated"}
      BY Zenon DEF Steps, Answers
    <3>3. <<c, 1, "quarantined">> \in Creates \X Nat \X EventTypes
      BY Zenon DEF EventTypes
    <3>4. /\ edges' \subseteq Creates \X Creates
          /\ events' \subseteq Creates \X Nat \X EventTypes
      BY <2>1, <3>3, Zenon DEF IInv, TypeOK
    <3>5. QED BY <1>1, <2>1, <2>2, <3>1, <3>2, <3>4, UnlockedInv, Zenon
  <2>4. c \notin overtaken
    BY <1>3, RowType DEF FenceHolds, IInv, OvertakenOK
  <2>5. NoWriteAcrossForget' /\ ForgottenHasNoVector'
    BY <1>1, <2>1, <2>4, Zenon
       DEF IInv, TypeOK, NoWriteAcrossForget, ForgottenHasNoVector
  <2>6. QED BY <2>3, <2>5, Zenon DEF IInv
<1>4. QED BY <1>2, <1>3, Zenon

\* The vector is stored only for a row that still has its first revision.
LEMMA UpsertVectorInv ==
  ASSUME IInv, NEW c \in Creates, UpsertVector(c)
  PROVE  IInv'
<1>1. /\ UNCHANGED <<purgeVars, shared, session, edges, events, reqVars, overtaken>>
      /\ pc' = [pc EXCEPT ![c] = "created"]
      /\ faults' = faults \/ Fault
      /\ mem' = mem \/ (MayEmbed(c) /\ mem' = [mem EXCEPT ![c].embedded = TRUE])
  BY Zenon DEF UpsertVector, Goto
<1>2. /\ mem' \in [Creates -> [status : Statuses, rev : Nat, embedded : BOOLEAN]]
      /\ \A m \in Creates : mem'[m].status = mem[m].status
      /\ \A m \in Creates : mem'[m].embedded =>
           mem[m].embedded \/ mem[m].status \notin {"deleted", "purged"}
  <2>1. CASE mem' = mem
    BY <2>1, Zenon DEF IInv, TypeOK
  <2>2. CASE MayEmbed(c) /\ mem' = [mem EXCEPT ![c].embedded = TRUE]
    BY <2>2, RowType, Zenon DEF IInv, TypeOK, MayEmbed
  <2>3. QED BY <1>1, <2>1, <2>2, Zenon
<1>3. TypeOK'
  <2>1. faults' \in 0 .. MaxFaults
    BY <1>1, MemoryAssumption DEF IInv, TypeOK, Fault
  <2>2. QED BY <1>1, <1>2, <2>1, Zenon DEF IInv, TypeOK, Answers, purgeVars, reqVars
<1>4. LockOK' /\ OvertakenOK'
  BY <1>1, Zenon DEF IInv, TypeOK, LockOK, OvertakenOK, reqVars
<1>5. Rows' = Rows
  BY <1>2, Zenon DEF Rows
<1>6. PurgeOK' /\ NothingSurvivesThePurge'
  BY <1>1, <1>5, Zenon DEF IInv, PurgeOK, NothingSurvivesThePurge, purgeVars
<1>7. NoWriteAcrossForget' /\ ForgottenHasNoVector'
  BY <1>1, <1>2, Zenon DEF IInv, TypeOK, NoWriteAcrossForget, ForgottenHasNoVector
<1>8. QED BY <1>3, <1>4, <1>6, <1>7, Zenon DEF IInv

\* A crash ends a command and its transaction.
LEMMA CrashInv ==
  ASSUME IInv, NEW c \in Creates, Crash(c)
  PROVE  IInv'
<1>1. /\ UNCHANGED <<purgeVars, tableVars, reqVars, overtaken>>
      /\ pc' = [pc EXCEPT ![c] = "gone"] /\ shared' = shared \ {c} /\ Fault
  BY Zenon DEF Crash, Goto, Unlock
<1>2. TypeOK'
  <2>1. faults' \in 0 .. MaxFaults
    BY <1>1, MemoryAssumption DEF IInv, TypeOK, Fault
  <2>2. QED BY <1>1, <2>1, Zenon
               DEF IInv, TypeOK, Answers, purgeVars, tableVars, reqVars
<1>3. LockOK' /\ OvertakenOK'
  BY <1>1, Zenon DEF IInv, TypeOK, LockOK, OvertakenOK, tableVars, reqVars
<1>4. QED
  BY <1>1, <1>2, <1>3, Zenon
  DEF IInv, PurgeOK, NothingSurvivesThePurge, NoWriteAcrossForget, ForgottenHasNoVector, Rows,
      purgeVars, tableVars

\* Forgetting a memory of the session moves its revision past every one that
\* was read before.
LEMMA ForgetInv ==
  ASSUME IInv, NEW m \in Creates, Forget(m)
  PROVE  IInv'
<1>1. /\ UNCHANGED <<purgeVars, shared, edges, pc, reqVars, faults>>
      /\ org = "active" /\ purge = "idle"
      /\ mem[m].status \in {"active", "quarantined", "superseded"}
      /\ mem' = [mem EXCEPT ![m] =
           [status |-> "deleted", rev |-> mem[m].rev + 1, embedded |-> FALSE]]
      /\ events' = events \cup {<<m, mem[m].rev + 1, "forgotten">>}
  BY Zenon DEF Forget, LockFree, MayWrite, IInv, PurgeOK
<1>2. /\ session' \in [live : BOOLEAN, rev : Nat]
      /\ session'.rev >= session.rev
      /\ m \in FromSession => session'.rev = session.rev + 1
  <2>1. session' = IF m \in FromSession THEN [session EXCEPT !.rev = @ + 1] ELSE session
    BY Zenon DEF Forget, AdvanceSession
  <2>2. session \in [live : BOOLEAN, rev : Nat]
    BY Zenon DEF IInv, TypeOK
  <2>3. QED BY <2>1, <2>2
<1>3. /\ overtaken' \subseteq Creates
      /\ \A c \in overtaken' : c \in overtaken \/
           (m \in FromSession /\ c \in FromSession /\ pc[c] # "idle" /\ mem[c].status = "none")
  BY Zenon DEF Forget, InFlight, IInv, TypeOK
<1>4. TypeOK'
  <2>1. mem' \in [Creates -> [status : Statuses, rev : Nat, embedded : BOOLEAN]]
    BY <1>1, RowType DEF IInv, TypeOK, Statuses
  <2>2. <<m, mem[m].rev + 1, "forgotten">> \in Creates \X Nat \X EventTypes
    BY RowType DEF IInv, EventTypes
  <2>3. QED BY <1>1, <1>2, <1>3, <2>1, <2>2, Zenon DEF IInv, TypeOK, purgeVars, reqVars
<1>5. LockOK' /\ PurgeOK' /\ NothingSurvivesThePurge'
  BY <1>1, Zenon DEF IInv, LockOK, PurgeOK, NothingSurvivesThePurge, purgeVars
<1>6. OvertakenOK'
  <2>1. \A c \in Creates : fence'[c] = fence[c] /\ fence[c] \in Nat /\ fence[c] <= session.rev
    BY <1>1, RowType, Zenon DEF IInv, OvertakenOK, reqVars
  <2>2. session.rev \in Nat /\ session'.rev \in Nat
    BY <1>2, RowType, Zenon DEF IInv
  <2>3. QED BY <1>1, <1>2, <1>3, <2>1, <2>2 DEF IInv, TypeOK, OvertakenOK
<1>7. NoWriteAcrossForget' /\ ForgottenHasNoVector'
  BY <1>1, <1>3, Zenon DEF IInv, TypeOK, NoWriteAcrossForget, ForgottenHasNoVector
<1>8. QED BY <1>4, <1>5, <1>6, <1>7, Zenon DEF IInv

\* The end of the session moves its revision too.
LEMMA SoftDeleteInv == IInv /\ SoftDeleteSession => IInv'
<1> SUFFICES ASSUME IInv, SoftDeleteSession PROVE IInv'
  OBVIOUS
<1>1. /\ UNCHANGED <<purgeVars, shared, mem, edges, events, pc, reqVars, overtaken, faults>>
      /\ session' = [live |-> FALSE, rev |-> session.rev + 1]
  BY Zenon DEF SoftDeleteSession
<1>2. TypeOK'
  BY <1>1 DEF IInv, TypeOK, purgeVars, reqVars
<1>3. OvertakenOK'
  <2>1. \A c \in Creates : fence[c] \in Nat /\ fence'[c] = fence[c]
    BY <1>1, Zenon DEF IInv, TypeOK, reqVars
  <2>2. session.rev \in Nat
    BY Zenon DEF IInv, TypeOK
  <2>3. QED BY <1>1, <2>1, <2>2 DEF IInv, TypeOK, OvertakenOK
<1>4. QED
  BY <1>1, <1>2, <1>3, Zenon
  DEF IInv, LockOK, PurgeOK, NothingSurvivesThePurge, NoWriteAcrossForget, ForgottenHasNoVector,
      Rows, purgeVars

\* The steps of the purge: it waits for the writers, deletes every row, and
\* cancels the organisation with the deletion.
LEMMA PurgeInv == IInv /\ (ClaimJob \/ Purge \/ PurgeAbort) => IInv'
<1> SUFFICES ASSUME IInv, ClaimJob \/ Purge \/ PurgeAbort PROVE IInv'
  OBVIOUS
<1>1. CASE ClaimJob \/ PurgeLock \/ PurgeRows \/ PurgeAbort
  <2>1. /\ UNCHANGED <<org, shared, tableVars, pc, reqVars, overtaken>>
        /\ faults' = faults \/ Fault
        /\ \/ purge = "idle" /\ purge' = "waiting" /\ doomed' = doomed
           \/ purge = "waiting" /\ shared = {} /\ purge' = "locked" /\ doomed' = doomed
           \/ purge = "locked" /\ purge' = "deleted" /\ doomed' = Rows
           \/ purge # "done" /\ purge' = "idle" /\ doomed' = {}
    BY <1>1, Zenon DEF ClaimJob, PurgeLock, PurgeRows, PurgeAbort, MayPurge
  <2>2. TypeOK'
    <3>1. faults' \in 0 .. MaxFaults
      BY <2>1, MemoryAssumption DEF IInv, TypeOK, Fault
    <3>2. QED BY <2>1, <3>1, Zenon DEF IInv, TypeOK, Rows, tableVars, reqVars
  <2>3. PurgeOK'
    BY <2>1, Zenon DEF IInv, PurgeOK, Rows, tableVars
  <2>4. QED
    BY <2>1, <2>2, <2>3, Zenon
    DEF IInv, LockOK, OvertakenOK, NothingSurvivesThePurge, NoWriteAcrossForget,
        ForgottenHasNoVector, Rows, tableVars, reqVars
<1>2. CASE PurgeCommit
  <2>1. /\ UNCHANGED <<shared, pc, reqVars, overtaken, faults>>
        /\ purge = "deleted" /\ purge' = "done" /\ org' = "cancelled" /\ doomed' = {}
        /\ edges' = {} /\ shared = {} /\ doomed = Rows
        /\ session' = [session EXCEPT !.live = FALSE]
    BY <1>2, Zenon DEF PurgeCommit, IInv, PurgeOK
  <2>2. mem' = [m \in Creates |-> IF m \in doomed
          THEN [status |-> "purged", rev |-> mem[m].rev + 1, embedded |-> FALSE] ELSE mem[m]]
    BY <1>2, Zenon DEF PurgeCommit
  <2>3. TypeOK'
    <3>1. mem' \in [Creates -> [status : Statuses, rev : Nat, embedded : BOOLEAN]]
      BY <2>2, RowType DEF IInv, TypeOK, Statuses
    <3>2. events' \subseteq Creates \X Nat \X EventTypes
      <4>1. \A m \in doomed : <<m, mem[m].rev + 1, "purged">> \in Creates \X Nat \X EventTypes
        BY RowType DEF IInv, TypeOK, EventTypes
      <4>2. events' = events \cup {<<m, mem[m].rev + 1, "purged">> : m \in doomed}
        BY <1>2, Zenon DEF PurgeCommit
      <4>3. QED BY <4>1, <4>2 DEF IInv, TypeOK
    <3>3. session' \in [live : BOOLEAN, rev : Nat]
      BY <2>1, Zenon DEF IInv, TypeOK
    <3>4. QED BY <2>1, <3>1, <3>2, <3>3, Zenon DEF IInv, TypeOK, reqVars
  <2>4. \A m \in Creates : mem'[m].status \in {"none", "purged"}
    BY <2>1, <2>2, Zenon DEF Rows
  <2>5. PurgeOK' /\ NothingSurvivesThePurge' /\ LockOK'
    BY <2>1, <2>4, Zenon DEF IInv, PurgeOK, NothingSurvivesThePurge, LockOK, Rows
  <2>6. OvertakenOK'
    BY <2>1, Zenon DEF IInv, TypeOK, OvertakenOK, reqVars
  <2>7. NoWriteAcrossForget' /\ ForgottenHasNoVector'
    BY <2>1, <2>2, Zenon
       DEF IInv, TypeOK, NoWriteAcrossForget, ForgottenHasNoVector, Rows
  <2>8. QED BY <2>3, <2>5, <2>6, <2>7, Zenon DEF IInv
<1>3. QED BY <1>1, <1>2, Zenon DEF Purge

\* Every step keeps the inductive invariant.
LEMMA NextInv == IInv /\ [Next]_vars => IInv'
<1> SUFFICES ASSUME IInv, [Next]_vars PROVE IInv'
  OBVIOUS
<1>1. CASE UNCHANGED vars
  BY <1>1
  DEF IInv, TypeOK, LockOK, PurgeOK, OvertakenOK, NoWriteAcrossForget, ForgottenHasNoVector,
      NothingSurvivesThePurge, Rows, vars, purgeVars, tableVars, reqVars
<1>2. ASSUME NEW c \in Creates, Begin(c) \/ CreateStep(c) \/ Crash(c) \/ Forget(c)
      PROVE  IInv'
  BY <1>2, PipelineInv, LockInv, PersistActiveInv, PersistQuarantineInv, UpsertVectorInv,
     CrashInv, ForgetInv, Zenon DEF CreateStep
<1>3. QED BY <1>1, <1>2, SoftDeleteInv, PurgeInv, Zenon DEF Next

\* The inductive invariant holds in every reachable state.
THEOREM Invariance == Spec => []IInv
BY InitInv, NextInv, PTL DEF Spec

\* A forgotten memory never has a vector: an upsert that arrives after the
\* tombstone finds another revision (pgvector_store.upsert).
THEOREM ForgottenTheorem == Spec => []ForgottenHasNoVector
<1>1. IInv => ForgottenHasNoVector
  BY Zenon DEF IInv
<1>2. QED BY <1>1, Invariance, PTL

\* No extraction task writes a memory with a session revision it read before
\* a memory of that session was forgotten (require_extraction_session).
THEOREM FenceTheorem == Spec => []NoWriteAcrossForget
<1>1. IInv => NoWriteAcrossForget
  BY Zenon DEF IInv
<1>2. QED BY <1>1, Invariance, PTL

\* A cancelled organisation has no memories: the shared and the exclusive
\* advisory lock keep a writer's check and its insert on one side of the
\* purge (lock_organization_for_memory_write).
THEOREM PurgeTheorem == Spec => []NothingSurvivesThePurge
<1>1. IInv => NothingSurvivesThePurge
  BY Zenon DEF IInv
<1>2. QED BY <1>1, Invariance, PTL
-----------------------------------------------------------------------------
(* Revisions and their events.  That a row is inserted once rests on its   *)
(* command being past the insert (Pending); then the events of a row count *)
(* its revisions (Told), and a superseded row has the edge that was        *)
(* written with it (Linked).                                               *)

Pending ==
  /\ \A c \in Creates : pc[c] \in Steps \ {"after"} => mem[c].status = "none"
  /\ \A c \in Creates : mem[c].status = "none" => mem[c].rev = 0

Told ==
  /\ \A e \in events : e[2] \in 1 .. mem[e[1]].rev
  /\ \A e, f \in events : e[1] = f[1] /\ e[2] = f[2] => e = f
  /\ \A m \in Creates : \A n \in 1 .. mem[m].rev : \E e \in events : e[1] = m /\ e[2] = n

Linked ==
  /\ \A c, m \in Creates : <<c, m>> \in edges =>
       mem[c].status # "none" /\ mem[m].status \in {"superseded", "deleted"}
  /\ \A c, d, m \in Creates : <<c, m>> \in edges /\ <<d, m>> \in edges => c = d
  /\ \A m \in Creates : mem[m].status = "superseded" => \E c \in Creates : <<c, m>> \in edges

ToldInv == Pending /\ Told /\ Linked

\* A transaction that advances the revision of some rows, with one event each.
LEMMA Tells ==
  ASSUME TypeOK, Told, NEW S \in SUBSET Creates, NEW N,
         \A m \in Creates : mem'[m].rev = IF m \in S THEN mem[m].rev + 1 ELSE mem[m].rev,
         events' = events \cup N,
         \A e \in N : e[1] \in S /\ e[2] = mem[e[1]].rev + 1,
         \A e, f \in N : e[1] = f[1] => e = f,
         \A m \in S : \E e \in N : e[1] = m
  PROVE  Told'
<1>1. \A m \in Creates : mem[m].rev \in Nat /\ mem'[m].rev \in Nat /\ mem[m].rev <= mem'[m].rev
  BY RowType
<1>2. \A e \in events : e[1] \in Creates
  BY Zenon DEF TypeOK
<1>3. \A e \in events' : e[2] \in 1 .. mem'[e[1]].rev
  <2> SUFFICES ASSUME NEW e \in events' PROVE e[2] \in 1 .. mem'[e[1]].rev
    OBVIOUS
  <2>1. CASE e \in events
    BY <1>1, <1>2, <2>1 DEF Told
  <2>2. CASE e \in N
    BY <1>1, <2>2
  <2> QED BY <2>1, <2>2, Zenon
<1>4. \A e, f \in events' : e[1] = f[1] /\ e[2] = f[2] => e = f
  <2>1. \A e \in events, f \in N : e[1] = f[1] => e[2] # f[2]
    BY <1>1, <1>2 DEF Told
  <2> QED BY <2>1 DEF Told
<1>5. ASSUME NEW m \in Creates, NEW n \in 1 .. mem'[m].rev
      PROVE  \E e \in events' : e[1] = m /\ e[2] = n
  <2>1. CASE n \in 1 .. mem[m].rev
    BY <2>1 DEF Told
  <2>2. CASE n \notin 1 .. mem[m].rev
    <3>1. m \in S /\ n = mem[m].rev + 1
      BY <1>1, <1>5, <2>2
    <3> QED BY <3>1
  <2> QED BY <2>1, <2>2, Zenon
<1> QED BY <1>3, <1>4, <1>5, Zenon DEF Told

\* A step that leaves statuses, revisions, edges and events alone.
LEMMA QuietTold ==
  ASSUME TypeOK, ToldInv, UNCHANGED <<edges, events>>,
         \A m \in Creates : mem'[m].status = mem[m].status /\ mem'[m].rev = mem[m].rev,
         \A c \in Creates : pc'[c] \in Steps \ {"after"} => pc[c] \in Steps \ {"after"}
  PROVE  ToldInv'
<1>1. \A e \in events : e[1] \in Creates
  BY Zenon DEF TypeOK
<1>2. Pending' /\ Linked'
  BY Zenon DEF ToldInv, Pending, Linked
<1>3. Told'
  BY <1>1 DEF ToldInv, Told
<1> QED BY <1>2, <1>3, Zenon DEF ToldInv

\* The insert of a memory with what it supersedes.
LEMMA InsertTold ==
  ASSUME IInv, ToldInv, NEW c \in Creates, PersistActive(c)
  PROVE  ToldInv'
<1>1. CASE ~(FenceHolds(c) /\ SameHash(c) = {} /\ TargetsAsSeen(c))
  <2>1. /\ UNCHANGED tableVars
        /\ \A d \in Creates : pc'[d] \in Steps \ {"after"} => pc[d] \in Steps \ {"after"}
    BY <1>1, Zenon DEF PersistActive, Goto, IInv, TypeOK, Steps
  <2> QED BY <2>1, QuietTold, Zenon DEF tableVars, IInv
<1>2. CASE FenceHolds(c) /\ SameHash(c) = {} /\ TargetsAsSeen(c)
  <2>1. Insert(c) /\ Committed(c, "after") /\ pc[c] = "locked"
    BY <1>2, Zenon DEF PersistActive
  <2>2. mem[c].status = "none" /\ mem[c].rev = 0
    BY <2>1, Zenon DEF ToldInv, Pending, Steps
  <2>3. \A m \in Targets(c) : m \in Creates /\ m # c /\ mem[m].status = "active"
    BY <1>2, <2>2 DEF TargetsAsSeen, Targets, Active
  <2>4. \A m \in Creates :
          /\ m = c => mem'[m].status = "active" /\ mem'[m].rev = 1
          /\ m \in Targets(c) => mem'[m].status = "superseded" /\ mem'[m].rev = mem[m].rev + 1
          /\ m # c /\ m \notin Targets(c) => mem'[m] = mem[m]
    BY <2>1, <2>3, Zenon DEF Insert, Superseded
  <2>5. Told'
    <3> DEFINE S == Targets(c) \cup {c}
               N == {SupersededEvent(c, m) : m \in Targets(c)} \cup {<<c, 1, "created">>}
    <3>1. S \in SUBSET Creates
      BY <2>3, Zenon
    <3>2. \A m \in Creates : mem'[m].rev = IF m \in S THEN mem[m].rev + 1 ELSE mem[m].rev
      BY <2>2, <2>4
    <3>3. events' = events \cup N
      BY <2>1, Zenon DEF Insert
    <3>4. \A e \in N : \/ e = <<c, 1, "created">>
                       \/ \E m \in Targets(c) : e = <<m, mem[m].rev + 1, "superseded">>
      BY Zenon DEF SupersededEvent
    <3>5. \A e \in N : e[1] \in S /\ e[2] = mem[e[1]].rev + 1
      BY <2>2, <3>4
    <3>6. \A e, f \in N : e[1] = f[1] => e = f
      BY <2>3, <3>4
    <3>7. \A m \in S : \E e \in N : e[1] = m
      <4>1. \A m \in Targets(c) : <<m, mem[m].rev + 1, "superseded">> \in N
        BY Zenon DEF SupersededEvent
      <4>2. <<c, 1, "created">> \in N
        OBVIOUS
      <4>3. \A m \in Targets(c) : \E e \in N : e[1] = m
        <5> HIDE DEF N
        <5> QED BY <4>1, Zenon
      <4>4. \E e \in N : e[1] = c
        <5> HIDE DEF N
        <5> QED BY <4>2, Zenon
      <4> QED BY <4>3, <4>4, Zenon
    <3> HIDE DEF S, N
    <3> QED BY <3>1, <3>2, <3>3, <3>5, <3>6, <3>7, Tells, Zenon DEF IInv, ToldInv
  <2>6. Linked'
    <3>1. \A d, m \in Creates : <<d, m>> \in edges' <=>
            <<d, m>> \in edges \/ (d = c /\ m \in Targets(c))
      BY <2>1, Zenon DEF Insert
    <3>2. \A d, m \in Creates : <<d, m>> \in edges => m \notin Targets(c) /\ m # c /\ d # c
      BY <2>2, <2>3, Zenon DEF ToldInv, Linked
    <3>3. \A d, m \in Creates : <<d, m>> \in edges' =>
            mem'[d].status # "none" /\ mem'[m].status \in {"superseded", "deleted"}
      BY <2>3, <2>4, <3>1, <3>2 DEF ToldInv, Linked
    <3>4. \A d, e, m \in Creates : <<d, m>> \in edges' /\ <<e, m>> \in edges' => d = e
      BY <3>1, <3>2 DEF ToldInv, Linked
    <3>5. \A m \in Creates : mem'[m].status = "superseded" => \E d \in Creates : <<d, m>> \in edges'
      BY <2>4, <3>1, Zenon DEF ToldInv, Linked
    <3> QED BY <3>3, <3>4, <3>5, Zenon DEF Linked
  <2>7. Pending'
    <3>1. \A d \in Creates : d # c => pc'[d] = pc[d]
      BY <2>1, Zenon DEF Committed, Goto, IInv, TypeOK
    <3>2. pc'[c] \notin Steps \ {"after"}
      BY <2>1 DEF Committed, Goto, IInv, TypeOK, Steps
    <3>3. \A d \in Creates : mem[d].status = "none" => d \notin Targets(c)
      BY <2>3, Zenon
    <3>4. \A d \in Creates : d # c /\ mem[d].status = "none" => mem'[d] = mem[d]
      BY <2>4, <3>3, Zenon
    <3>5. \A d \in Creates : mem'[d].status = "none" => d # c /\ mem[d].status = "none"
      BY <2>4, Zenon
    <3> QED BY <3>1, <3>2, <3>4, <3>5, Zenon DEF ToldInv, Pending
  <2> QED BY <2>5, <2>6, <2>7, Zenon DEF ToldInv
<1> QED BY <1>1, <1>2, Zenon

\* The insert of quarantined content.
LEMMA QuarantineTold ==
  ASSUME IInv, ToldInv, NEW c \in Creates, PersistQuarantine(c)
  PROVE  ToldInv'
<1>1. CASE ~FenceHolds(c)
  <2>1. /\ UNCHANGED tableVars
        /\ \A d \in Creates : pc'[d] \in Steps \ {"after"} => pc[d] \in Steps \ {"after"}
    BY <1>1, Zenon DEF PersistQuarantine, Goto, IInv, TypeOK, Steps
  <2> QED BY <2>1, QuietTold, Zenon DEF tableVars, IInv
<1>2. CASE FenceHolds(c)
  <2>1. /\ pc[c] = "isolated" /\ Committed(c, "created") /\ edges' = edges
        /\ mem' = [mem EXCEPT ![c] = [status |-> "quarantined", rev |-> 1, embedded |-> FALSE]]
        /\ events' = events \cup {<<c, 1, "quarantined">>}
    BY <1>2, Zenon DEF PersistQuarantine
  <2>2. mem[c].status = "none" /\ mem[c].rev = 0
    BY <2>1, Zenon DEF ToldInv, Pending, Steps
  <2>3. /\ mem'[c].status = "quarantined" /\ mem'[c].rev = 1
        /\ \A m \in Creates \ {c} : mem'[m] = mem[m]
    BY <2>1, Zenon DEF IInv, TypeOK
  <2>4. Told'
    <3> DEFINE S == {c}
               N == {<<c, 1, "quarantined">>}
    <3>1. S \in SUBSET Creates
      OBVIOUS
    <3>2. \A m \in Creates : mem'[m].rev = IF m \in S THEN mem[m].rev + 1 ELSE mem[m].rev
      BY <2>2, <2>3
    <3>3. /\ events' = events \cup N
          /\ \A e \in N : e[1] \in S /\ e[2] = mem[e[1]].rev + 1
          /\ \A e, f \in N : e[1] = f[1] => e = f
          /\ \A m \in S : \E e \in N : e[1] = m
      BY <2>1, <2>2
    <3> HIDE DEF S, N
    <3> QED BY <3>1, <3>2, <3>3, Tells, Zenon DEF IInv, ToldInv
  <2>5. Linked'
    BY <2>1, <2>2, <2>3 DEF ToldInv, Linked
  <2>6. Pending'
    <3>1. \A d \in Creates \ {c} : pc'[d] = pc[d]
      BY <2>1, Zenon DEF Committed, Goto, IInv, TypeOK
    <3>2. pc'[c] \notin Steps \ {"after"}
      BY <2>1, Zenon DEF Committed, Goto, IInv, TypeOK, Steps
    <3> QED BY <2>3, <3>1, <3>2 DEF ToldInv, Pending
  <2> QED BY <2>4, <2>5, <2>6, Zenon DEF ToldInv
<1> QED BY <1>1, <1>2, Zenon

\* A forget advances the revision of its row; the edges to it stay.
LEMMA ForgetTold ==
  ASSUME IInv, ToldInv, NEW m \in Creates, Forget(m)
  PROVE  ToldInv'
<1>1. /\ mem[m].status \in {"active", "quarantined", "superseded"}
      /\ mem' = [mem EXCEPT ![m] = [status |-> "deleted", rev |-> mem[m].rev + 1, embedded |-> FALSE]]
      /\ events' = events \cup {<<m, mem[m].rev + 1, "forgotten">>}
      /\ UNCHANGED <<edges, pc>>
  BY Zenon DEF Forget
<1>2. /\ mem'[m].status = "deleted" /\ mem'[m].rev = mem[m].rev + 1
      /\ \A d \in Creates \ {m} : mem'[d] = mem[d]
  BY <1>1, Zenon DEF IInv, TypeOK
<1>3. Told'
  <2> DEFINE S == {m}
             N == {<<m, mem[m].rev + 1, "forgotten">>}
  <2>1. S \in SUBSET Creates
    OBVIOUS
  <2>2. \A d \in Creates : mem'[d].rev = IF d \in S THEN mem[d].rev + 1 ELSE mem[d].rev
    BY <1>2, Zenon
  <2>3. /\ events' = events \cup N
        /\ \A e \in N : e[1] \in S /\ e[2] = mem[e[1]].rev + 1
        /\ \A e, f \in N : e[1] = f[1] => e = f
        /\ \A d \in S : \E e \in N : e[1] = d
    BY <1>1
  <2> HIDE DEF S, N
  <2> QED BY <2>1, <2>2, <2>3, Tells, Zenon DEF IInv, ToldInv
<1>4. Linked'
  BY <1>1, <1>2 DEF ToldInv, Linked
<1>5. Pending'
  BY <1>1, <1>2, Zenon DEF ToldInv, Pending
<1> QED BY <1>3, <1>4, <1>5, Zenon DEF ToldInv

\* The purge advances every row once more and removes the edges.
LEMMA PurgeTold ==
  ASSUME IInv, ToldInv, PurgeCommit
  PROVE  ToldInv'
<1>1. /\ edges' = {} /\ pc' = pc /\ doomed \in SUBSET Creates /\ doomed = Rows
      /\ events' = events \cup {<<m, mem[m].rev + 1, "purged">> : m \in doomed}
  BY Zenon DEF PurgeCommit, IInv, TypeOK, PurgeOK
<1>2. \A m \in Creates :
        /\ m \in doomed => mem'[m].status = "purged" /\ mem'[m].rev = mem[m].rev + 1
        /\ m \notin doomed => mem'[m] = mem[m]
  BY Zenon DEF PurgeCommit
<1>3. Told'
  <2> DEFINE N == {<<m, mem[m].rev + 1, "purged">> : m \in doomed}
  <2>1. \A m \in Creates : mem'[m].rev = IF m \in doomed THEN mem[m].rev + 1 ELSE mem[m].rev
    BY <1>2, Zenon
  <2>2. /\ \A e \in N : e[1] \in doomed /\ e[2] = mem[e[1]].rev + 1
        /\ \A e, f \in N : e[1] = f[1] => e = f
        /\ \A m \in doomed : \E e \in N : e[1] = m
    <3>1. \A e \in N : \E m \in doomed : e = <<m, mem[m].rev + 1, "purged">>
      OBVIOUS
    <3>2. \A m \in doomed : <<m, mem[m].rev + 1, "purged">> \in N
      OBVIOUS
    <3> HIDE DEF N
    <3>3. \A e \in N : e[1] \in doomed /\ e[2] = mem[e[1]].rev + 1
      BY <3>1
    <3>4. \A e, f \in N : e[1] = f[1] => e = f
      BY <3>1
    <3>5. \A m \in doomed : \E e \in N : e[1] = m
      BY <3>2, Zenon
    <3> QED BY <3>3, <3>4, <3>5, Zenon
  <2>3. events' = events \cup N
    BY <1>1, Zenon
  <2> HIDE DEF N
  <2>4. TypeOK /\ Told /\ doomed \in SUBSET Creates
    BY <1>1, Zenon DEF IInv, ToldInv
  <2> QED BY <2>1, <2>2, <2>3, <2>4, Tells, Zenon
<1>4. Linked'
  BY <1>1, <1>2, Zenon DEF ToldInv, Linked, Rows
<1>5. Pending'
  BY <1>1, <1>2, Zenon DEF ToldInv, Pending, Rows
<1> QED BY <1>3, <1>4, <1>5, Zenon DEF ToldInv

\* Every step keeps the accounting of revisions.
LEMMA NextTold == IInv /\ ToldInv /\ [Next]_vars => ToldInv'
<1> SUFFICES ASSUME IInv, ToldInv, [Next]_vars PROVE ToldInv'
  OBVIOUS
<1>0. TypeOK
  BY Zenon DEF IInv
<1>1. CASE UNCHANGED vars
  BY <1>0, <1>1, QuietTold, Zenon DEF vars, tableVars
<1>2. ASSUME NEW c \in Creates,
             \/ Begin(c) \/ ExactDedup(c) \/ BumpRetrieval(c) \/ Embed(c) \/ HashRace(c)
             \/ RaceBump(c) \/ LockOrganization(c) \/ Crash(c)
      PROVE  ToldInv'
  <2>1. UNCHANGED tableVars
    BY <1>2, Zenon
       DEF Begin, ExactDedup, BumpRetrieval, Embed, HashRace, RaceBump, LockOrganization, Crash
  <2>2. pc[c] \in Steps \ {"after"} \/ pc'[c] = "gone"
    BY <1>2, <1>0, Zenon
       DEF Begin, ExactDedup, BumpRetrieval, Embed, HashRace, RaceBump, LockOrganization,
       Crash, Goto, Steps, TypeOK
  <2>3. \A d \in Creates : d # c => pc'[d] = pc[d]
    BY <1>2, <1>0
       DEF Begin, ExactDedup, BumpRetrieval, Embed, HashRace, RaceBump, LockOrganization,
       Crash, Goto, TypeOK
  <2>4. \A d \in Creates : pc'[d] \in Steps \ {"after"} => pc[d] \in Steps \ {"after"}
    BY <2>2, <2>3, Zenon DEF Steps
  <2> QED BY <1>0, <2>1, <2>4, QuietTold DEF tableVars
<1>3. ASSUME NEW c \in Creates, UpsertVector(c)
      PROVE  ToldInv'
  <2>1. /\ UNCHANGED <<edges, events>> /\ pc' = [pc EXCEPT ![c] = "created"]
        /\ mem' = mem \/ mem' = [mem EXCEPT ![c].embedded = TRUE]
    BY <1>3, Zenon DEF UpsertVector, Goto
  <2>2. \A m \in Creates : mem'[m].status = mem[m].status /\ mem'[m].rev = mem[m].rev
    BY <1>0, <2>1, RowType DEF TypeOK
  <2>3. \A d \in Creates : pc'[d] \in Steps \ {"after"} => pc[d] \in Steps \ {"after"}
    BY <1>0, <2>1, Zenon DEF TypeOK, Steps
  <2> QED BY <1>0, <2>1, <2>2, <2>3, QuietTold, Zenon
<1>4. CASE SoftDeleteSession \/ ClaimJob \/ PurgeLock \/ PurgeRows \/ PurgeAbort
  <2>1. UNCHANGED <<mem, edges, events, pc>>
    BY <1>4, Zenon
       DEF SoftDeleteSession, ClaimJob, PurgeLock, PurgeRows, PurgeAbort, tableVars
  <2> QED BY <1>0, <2>1, QuietTold, Zenon
<1>5. ASSUME NEW c \in Creates, Begin(c) \/ CreateStep(c) \/ Crash(c) \/ Forget(c)
      PROVE  ToldInv'
  BY <1>2, <1>3, <1>5, InsertTold, QuarantineTold, ForgetTold, Zenon DEF CreateStep
<1> QED BY <1>1, <1>4, <1>5, PurgeTold, Zenon DEF Next, Purge

\* The events of a row are as many as its revisions, and its edges are one.
LEMMA ToldCounts ==
  ASSUME TypeOK, ToldInv
  PROVE  EveryRevisionHasItsEvent /\ OneSuccessor
<1>1. ASSUME NEW m \in Creates
      PROVE  LET own == {e \in events : e[1] = m} IN
             /\ {e[2] : e \in own} = 1 .. mem[m].rev
             /\ Cardinality(own) = mem[m].rev
  <2> DEFINE own == {e \in events : e[1] = m}
             f == [e \in own |-> e[2]]
  <2>1. mem[m].rev \in Nat
    BY RowType, Zenon
  <2>2. \A e \in own : e[2] \in 1 .. mem[m].rev
    BY Zenon DEF ToldInv, Told
  <2>3. {e[2] : e \in own} = 1 .. mem[m].rev
    <3>1. \A n \in 1 .. mem[m].rev : \E e \in own : e[2] = n
      BY DEF ToldInv, Told
    <3> QED BY <2>2, <3>1, Zenon
  <2>4. f \in Bijection(own, 1 .. mem[m].rev)
    <3>1. f \in [own -> 1 .. mem[m].rev]
      BY <2>2, Zenon
    <3>2. \A e, g \in own : f[e] = f[g] => e = g
      BY DEF ToldInv, Told
    <3>3. \A n \in 1 .. mem[m].rev : \E e \in own : f[e] = n
      BY DEF ToldInv, Told
    <3> HIDE DEF own, f
    <3> QED BY <3>1, <3>2, <3>3, Zenon DEF Bijection, Injection, Surjection, IsInjective
  <2>5. /\ IsFiniteSet(1 .. mem[m].rev)
        /\ Cardinality(1 .. mem[m].rev) = mem[m].rev
    <3>1. 1 \in Int /\ mem[m].rev \in Int
      BY <2>1
    <3>2. /\ IsFiniteSet(1 .. mem[m].rev)
          /\ Cardinality(1 .. mem[m].rev) = IF 1 > mem[m].rev THEN 0 ELSE mem[m].rev - 1 + 1
      BY <3>1, FS_Interval, Zenon
    <3> QED BY <2>1, <3>2
  <2>6. Cardinality(own) = mem[m].rev
    <3> HIDE DEF own, f
    <3>1. ExistsBijection(own, 1 .. mem[m].rev)
      BY <2>4, Zenon DEF ExistsBijection
    <3>2. ExistsBijection(1 .. mem[m].rev, own)
      BY <3>1, Fun_ExistsBijSymmetric, Zenon
    <3>3. IsFiniteSet(own) /\ Cardinality(own) = Cardinality(1 .. mem[m].rev)
      BY <2>5, <3>2, FS_Bijection, Zenon
    <3> QED BY <2>5, <3>3, Zenon
  <2> QED BY <2>3, <2>6, Zenon
<1>2. ASSUME NEW m \in Creates
      PROVE  LET newer == {c \in Creates : <<c, m>> \in edges} IN
             /\ Cardinality(newer) <= 1
             /\ \A c \in newer : mem[c].status # "none"
             /\ mem[m].status = "superseded" => newer # {}
  <2> DEFINE newer == {c \in Creates : <<c, m>> \in edges}
  <2>1. newer = {} \/ \E c \in Creates : newer = {c}
    BY DEF ToldInv, Linked
  <2>2. Cardinality(newer) <= 1
    <3> HIDE DEF newer
    <3>1. CASE newer = {}
      BY <3>1, FS_EmptySet
    <3>2. CASE \E c \in Creates : newer = {c}
      <4>1. PICK c \in Creates : newer = {c}
        BY <3>2, Zenon
      <4>2. Cardinality({c}) = 1
        BY FS_Singleton, Zenon
      <4> QED BY <4>1, <4>2
    <3> QED BY <2>1, <3>1, <3>2, Zenon
  <2>3. /\ \A c \in newer : mem[c].status # "none"
        /\ mem[m].status = "superseded" => newer # {}
    BY Zenon DEF ToldInv, Linked
  <2> QED BY <2>2, <2>3, Zenon
<1> QED BY <1>1, <1>2, Zenon DEF EveryRevisionHasItsEvent, OneSuccessor

\* Every revision a memory ever had is told by exactly one event, a memory is
\* superseded by one other that was inserted with it, and a forgotten one has
\* no vector, for any number of commands (lifecycle.py, conflict/persist.py).
THEOREM RevisionsTheorem == Spec => []RevisionsAreTold
<1>1. Init => ToldInv
  BY DEF Init, ToldInv, Pending, Told, Linked, NoRow
<1>2. IInv /\ ToldInv => RevisionsAreTold
  BY ToldCounts, Zenon DEF IInv, RevisionsAreTold
<1> QED BY <1>1, <1>2, Invariance, NextTold, PTL DEF Spec
=============================================================================
