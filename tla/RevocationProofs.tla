-------------------------- MODULE RevocationProofs --------------------------
(***************************************************************************)
(* Proofs that what was taken away stays away: the data of a deleted       *)
(* organisation (OrgDeletion), for any jobs, workers, redactions and       *)
(* stores, and revoked tokens (TokenCache), for any number of callers and  *)
(* tokens.  The two share no state.                                        *)
(***************************************************************************)
EXTENDS OrgDeletion, TokenCache, TLAPS

-----------------------------------------------------------------------------
(* The deletion of an organisation.  A certificate is computed from        *)
(* receipts, so the invariant is about receipts: whatever says "verified", *)
(* in a row or in the hands of a run, is erased, and stays so.  That needs *)
(* one run for a job (OneRun), and a purge before any other store, because *)
(* after it a redaction can only leave an archive that is doomed.          *)

\* The steps in which a run of the saga has its job, before the purge and after it, and
\* those in which it has the advisory lock.
Claimed == {"lock", "purge"}
Purged == {"publish", "stage", "erase", "wait", "delete"}
Holding == {"lock", "purge", "publish", "stage", "erase", "wait", "delete", "fail"}
Erasing == {"purge", "erase", "wait", "delete"}

\* An archive that its redaction will remove, or that was given up.
Doomed(e) == capture[e].step \in {"attach", "compensate"} \/ e \in leaked

\* The organisation is purged, and outside a set of archives only doomed ones are left.
LeftIn(set) == orgRow.deleted /\ \A e \in Events \cap objects : e \in set \/ Doomed(e)

\* What receipts call verified is erased.
TrueReceipts(m) ==
  /\ \A s \in Stores : m[s] = "verified" => s \notin old
  /\ m["postgres"] = "verified" => orgRow.deleted
  /\ m["objectstore"] = "verified" => LeftIn({})

Complete(m) == \A s \in Stores : m[s] \in {"verified", "not_applicable"}

ReceiptsOK == \A j \in Jobs : /\ TrueReceipts(job[j].receipts)
                              /\ job[j].status = "succeeded" => Complete(job[j].receipts)

\* A run and the row of its job agree, and it did what its step presupposes.
RunOK(w) ==
  /\ work[w].step # "idle" => work[w].job \in Jobs
  /\ work[w].step \in Claimed => Claimable(work[w].job)
  /\ work[w].step \in Holding \ Claimed => job[work[w].job].status = "running"
  /\ work[w].step \in {"stage", "erase", "wait", "delete"} => work[w].stage \in 1 .. 4
  /\ work[w].step \in {"erase", "wait", "delete"} => work[w].stage # 4
  /\ work[w].step \in Purged => orgRow.deleted
  /\ work[w].step = "delete" => LeftIn(work[w].listed)
  /\ work[w].step \in Erasing => advisory = w
  /\ TrueReceipts(work[w].got)

RunsOK == \A w \in Workers : RunOK(w)

\* Two runs never have the same job.
OneRun ==
  \A v, w \in Workers :
    work[v].step \in Holding /\ work[w].step \in Holding /\ work[v].job = work[w].job => v = w

\* A job whose call has not ended is on record for nobody, and of this call alone.
Underway == {"send", "commit", "undo"}
Filed ==
  /\ \A j \in Jobs : (\A c \in Callers : req[c].job # j) => job[j].status = "absent"
  /\ \A c \in Callers : req[c].step \in Underway =>
       /\ req[c].job \in Jobs /\ job[req[c].job].status = "absent"
       /\ \A d \in Callers : req[d].job = req[c].job => d = c
  /\ \A c \in Callers : req[c].step = "new" => req[c].job = 0

\* There is no hold while somebody has the advisory lock.
HoldsOut == advisory # NoWorker => holds = {}

\* What a report has read of the jobs still holds when it reads the receipts.
Reported == /\ \A j \in report.jobs : job[j].status = "succeeded"
            /\ \A m \in report.shown : Complete(m)

DeletionInv == DeletionTypeOK /\ ReceiptsOK /\ RunsOK /\ OneRun /\ Filed /\ HoldsOut /\ Reported

-----------------------------------------------------------------------------
\* What is erased stays erased.

Onward == /\ old' \subseteq old
          /\ orgRow.deleted => orgRow'.deleted
          /\ \A set \in SUBSET Events : LeftIn(set) => LeftIn(set)'

\* Steps that leave the archives and the organisation alone.
LEMMA StillOnward ==
  ASSUME old' \subseteq old, UNCHANGED <<orgRow, capture, leaked>>, objects' \subseteq objects
  PROVE  Onward
BY Zenon DEF Onward, LeftIn, Doomed

\* The organisation becomes or stays deleted.
LEMMA OrgOnward ==
  ASSUME old' \subseteq old, orgRow.deleted => orgRow'.deleted,
         UNCHANGED <<objects, capture, leaked>>
  PROVE  Onward
BY Zenon DEF Onward, LeftIn, Doomed

\* A redaction that meets a deleted organisation dooms its archive.
LEMMA CaptureOnward ==
  ASSUME DeletionTypeOK, NEW e \in Events, CaptureStep(e) \/ LoseRedaction(e)
  PROVE  Onward
<1>0. capture \in [Events -> Redactions] /\ UNCHANGED <<old, orgRow>>
  BY Zenon
     DEF DeletionTypeOK, CaptureStep, ApplyMode, PersistRedacted, PutArchiveBlob, SetArchivedTo,
         CompensateUpload, LoseRedaction
<1>1. SUFFICES ASSUME NEW set \in SUBSET Events, LeftIn(set)  PROVE LeftIn(set)'
  BY <1>0, Zenon DEF Onward
<1>2. CASE ApplyMode(e) \/ PersistRedacted(e)
  BY <1>0, <1>1, <1>2, Zenon DEF ApplyMode, PersistRedacted, Capture, LeftIn, Doomed
<1>3. CASE PutArchiveBlob(e)
  BY <1>0, <1>1, <1>3 DEF PutArchiveBlob, Capture, LeftIn, Doomed
<1>4. CASE SetArchivedTo(e)
  BY <1>0, <1>1, <1>4 DEF SetArchivedTo, Capture, LeftIn, Doomed
<1>5. CASE CompensateUpload(e)
  BY <1>0, <1>1, <1>5, Zenon DEF CompensateUpload, Capture, LeftIn, Doomed
<1>6. CASE LoseRedaction(e)
  BY <1>0, <1>1, <1>6, Zenon DEF LoseRedaction, Capture, LeftIn, Doomed
<1> QED  BY <1>2, <1>3, <1>4, <1>5, <1>6, Zenon DEF CaptureStep

\* True receipts stay true.
LEMMA TruthStays ==
  ASSUME Onward, NEW m, TrueReceipts(m)
  PROVE  TrueReceipts(m)'
BY Zenon DEF Onward, TrueReceipts

\* Rows that are not written stay as they should be.
LEMMA RowsStay ==
  ASSUME ReceiptsOK, Onward, UNCHANGED job
  PROVE  ReceiptsOK'
BY TruthStays, Zenon DEF ReceiptsOK, Complete

-----------------------------------------------------------------------------
\* A run, when a step is another process's.
LEMMA OthersStay ==
  ASSUME DeletionTypeOK, Onward, NEW v \in Workers, RunOK(v), work'[v] = work[v],
         work[v].step \in Erasing => advisory' = v,
         work[v].step \in Holding => job'[work[v].job].status = job[work[v].job].status
  PROVE  RunOK(v)'
<1>1. work[v].listed \in SUBSET Events
  BY Zenon DEF DeletionTypeOK, Runs
<1>2. TrueReceipts(work[v].got)'
  BY TruthStays, Zenon DEF RunOK
<1>3. work[v].step = "delete" => LeftIn(work[v].listed)'
  BY <1>1, Zenon DEF Onward, RunOK
<1> QED  BY <1>2, <1>3, Zenon DEF RunOK, Onward, Claimable, Claimed, Holding

\* A step that is no run's.
LEMMA RunsStay ==
  ASSUME DeletionTypeOK, RunsOK, Onward, UNCHANGED <<work, advisory>>,
         \A j \in Jobs : job[j].status # "absent" => job'[j].status = job[j].status
  PROVE  RunsOK'
<1> SUFFICES ASSUME NEW v \in Workers  PROVE RunOK(v)'
  BY Zenon DEF RunsOK
<1>1. RunOK(v)
  BY Zenon DEF RunsOK
<1>2. work[v].step \in Holding => job'[work[v].job].status = job[work[v].job].status
  BY <1>1, Zenon DEF RunOK, Holding, Claimed, Claimable
<1>3. work[v].step \in Erasing => advisory' = v
  BY <1>1, Zenon DEF RunOK
<1> QED  BY <1>1, <1>2, <1>3, OthersStay, Zenon

\* A step of the run w that leaves it as RunOK says.
LEMMA RunMoves ==
  ASSUME DeletionTypeOK, RunsOK, OneRun, Onward, NEW w \in Workers,
         \A v \in Workers \ {w} : work'[v] = work[v],
         \A v \in Workers \ {w} : advisory = v => advisory' = v,
         \A j \in Jobs : \/ job'[j].status = job[j].status
                         \/ work[w].step \in Holding /\ j = work[w].job,
         RunOK(w)'
  PROVE  RunsOK'
<1> SUFFICES ASSUME NEW v \in Workers, v # w  PROVE RunOK(v)'
  BY Zenon DEF RunsOK
<1>1. RunOK(v)
  BY Zenon DEF RunsOK
<1>2. work[v].step \in Holding => job'[work[v].job].status = job[work[v].job].status
  BY <1>1, Zenon DEF RunOK, OneRun, Holding
<1>3. work[v].step \in Erasing => advisory' = v
  BY <1>1, Zenon DEF RunOK
<1> QED  BY <1>1, <1>2, <1>3, OthersStay, Zenon

\* The run w moves: it may end, or go on with the job it has.
Moves(w) ==
  /\ \A v \in Workers \ {w} : work'[v] = work[v]
  /\ \A v \in Workers \ {w} : advisory = v => advisory' = v
  /\ work'[w].step \in Holding => work[w].step \in Holding /\ work'[w].job = work[w].job

\* A step of a run that changes no row.
LEMMA RunStep ==
  ASSUME DeletionInv, Onward, NEW w \in Workers, Moves(w), RunOK(w)',
         UNCHANGED <<job, req, report>>
  PROVE  ReceiptsOK' /\ RunsOK' /\ OneRun' /\ Filed' /\ Reported'
<1>1. RunsOK'
  BY RunMoves, Zenon DEF DeletionInv, Moves
<1>2. OneRun'
  BY DEF DeletionInv, Moves, OneRun
<1>3. Filed' /\ Reported'
  BY DEF DeletionInv, Filed, Reported, Complete
<1> QED  BY <1>1, <1>2, <1>3, RowsStay, Zenon DEF DeletionInv

\* A step of a run that changes the row of its job.
LEMMA RowStep ==
  ASSUME DeletionInv, Onward, NEW w \in Workers, Moves(w), RunOK(w)',
         work[w].step \in Holding, UNCHANGED <<req, report>>,
         NEW r \in JobRows, job' = [job EXCEPT ![work[w].job] = r],
         r.status # "absent", TrueReceipts(r.receipts)',
         r.status = "succeeded" => Complete(r.receipts)
  PROVE  ReceiptsOK' /\ RunsOK' /\ OneRun' /\ Filed' /\ Reported'
<1>1. /\ work[w].job \in Jobs /\ job[work[w].job].status \in {"pending", "failed", "running"}
      /\ job'[work[w].job] = r
      /\ \A j \in Jobs : j # work[w].job => job'[j] = job[j]
  BY DEF DeletionInv, DeletionTypeOK, RunsOK, RunOK, Holding, Claimed, Claimable
<1>2. RunsOK'
  BY <1>1, RunMoves, Zenon DEF DeletionInv, Moves
<1>3. OneRun'
  BY DEF DeletionInv, Moves, OneRun
<1>4. Filed'
  BY <1>1 DEF DeletionInv, Filed
<1>5. Reported'
  BY <1>1 DEF DeletionInv, DeletionTypeOK, Reported, Complete
<1>6. ReceiptsOK'
  <2> SUFFICES ASSUME NEW j \in Jobs
               PROVE  /\ TrueReceipts(job[j].receipts)'
                      /\ job'[j].status = "succeeded" => Complete(job'[j].receipts)
    BY Zenon DEF ReceiptsOK, Complete
  <2>1. CASE j = work[w].job
    BY <1>1, <2>1, Zenon DEF TrueReceipts
  <2>2. CASE j # work[w].job
    <3>1. TrueReceipts(job[j].receipts) /\ job'[j] = job[j]
      BY <1>1, <2>2, Zenon DEF DeletionInv, ReceiptsOK
    <3>2. TrueReceipts(job[j].receipts)'
      BY <3>1, TruthStays, Zenon DEF TrueReceipts
    <3> QED  BY <3>1, <3>2, Zenon DEF DeletionInv, ReceiptsOK
  <2> QED  BY <2>1, <2>2, Zenon
<1> QED  BY <1>2, <1>3, <1>4, <1>5, <1>6, Zenon

-----------------------------------------------------------------------------
\* The ways a run moves on.

\* A mishap stays within the bound.
LEMMA MishapTyped ==
  ASSUME DeletionAssumption, DeletionTypeOK, Mishap \/ UNCHANGED mishaps
  PROVE  mishaps' \in 0 .. MaxMishaps
BY DEF DeletionAssumption, DeletionTypeOK, Mishap

\* No receipts claim nothing.
LEMMA NoReceiptsTrue == NoReceipts \in ReceiptMaps /\ TrueReceipts(NoReceipts)'
BY Zenon DEF NoReceipts, ReceiptMaps, TrueReceipts, Stores

\* An idle worker is a run of no job.
LEMMA IdleTyped == Idle \in Runs /\ Idle.step = "idle" /\ Idle.got = NoReceipts
BY NoReceiptsTrue DEF Idle, Runs, Settings

\* A run that ends leaves the worker idle.
LEMMA Ends ==
  ASSUME DeletionTypeOK, NEW w \in Workers, work' = [work EXCEPT ![w] = Idle],
         \A v \in Workers \ {w} : advisory = v => advisory' = v
  PROVE  work' \in [Workers -> Runs] /\ Moves(w) /\ RunOK(w)'
<1>1. work \in [Workers -> Runs]
  BY Zenon DEF DeletionTypeOK
<1>2. work'[w] = Idle /\ \A v \in Workers \ {w} : work'[v] = work[v]
  BY <1>1, Zenon
<1>3. Idle \in Runs /\ Idle.step = "idle" /\ Idle.got = NoReceipts
  BY IdleTyped, Zenon
<1>4. Moves(w)
  BY <1>2, <1>3, Zenon DEF Moves, Holding
<1>5. RunOK(w)'
  BY <1>2, <1>3, NoReceiptsTrue, Zenon DEF RunOK, Holding, Claimed, Purged, Erasing, TrueReceipts
<1> QED  BY <1>1, <1>3, <1>4, <1>5, Zenon

\* A run whose transaction was rolled back still has its running job.
LEMMA RollsBack ==
  ASSUME DeletionTypeOK, RunsOK, NEW w \in Workers, NEW s \in Stores \cup {"none"},
         RollBack(w, s), work[w].step \in Holding, job'[work[w].job].status = "running"
  PROVE  work' \in [Workers -> Runs] /\ Moves(w) /\ RunOK(w)'
<1> DEFINE r == [work[w] EXCEPT !.step = "fail", !.got = NoReceipts, !.unreachable = s]
<1>1. work \in [Workers -> Runs] /\ work[w] \in Runs /\ work[w].job \in Jobs
  BY Zenon DEF DeletionTypeOK, RunsOK, RunOK, Holding
<1>2. /\ r \in Runs
      /\ r.step = "fail" /\ r.got = NoReceipts /\ r.job = work[w].job
  BY <1>1, NoReceiptsTrue, Zenon DEF Runs
<1>3. work'[w] = r /\ \A v \in Workers \ {w} : work'[v] = work[v]
  BY <1>1, Zenon DEF RollBack
<1>4. work' \in [Workers -> Runs]
  BY <1>1, <1>2, Zenon DEF RollBack
<1> HIDE DEF r
<1>5. Moves(w)
  BY <1>2, <1>3, Zenon DEF Moves, RollBack, Free, Holding
<1>6. RunOK(w)'
  BY <1>1, <1>2, <1>3, NoReceiptsTrue, Zenon
     DEF RunOK, Holding, Claimed, Purged, Erasing, TrueReceipts
<1> QED  BY <1>4, <1>5, <1>6, Zenon

\* A run that goes on to the next store has a true receipt for the one before.
LEMMA GoesOn ==
  ASSUME DeletionTypeOK, RunsOK, Onward, NEW w \in Workers, NEW s \in Stores \ {"postgres"},
         NEW r \in {"verified", "not_applicable"}, work' = NextStage(w, s, r),
         work[w].step \in {"stage", "erase", "wait", "delete"}, work[w].stage # 4,
         UNCHANGED <<job, advisory>>,
         r = "verified" => s \notin old' /\ (s = "objectstore" => LeftIn({})')
  PROVE  work' \in [Workers -> Runs] /\ Moves(w) /\ RunOK(w)'
<1>1. work \in [Workers -> Runs] /\ work[w] \in Runs /\ RunOK(w)
  BY Zenon DEF DeletionTypeOK, RunsOK
<1>2. work[w].stage \in 1 .. 3 /\ work[w].stage + 1 \in 0 .. 4 /\ work[w].got \in ReceiptMaps
  BY <1>1 DEF RunOK, Runs
<1>3. PICK g : g = work[w].got
  BY Zenon
<1>4. PICK m : m = [g EXCEPT ![s] = r]
  BY Zenon
<1>5. m \in ReceiptMaps /\ m[s] = r /\ \A t \in Stores \ {s} : m[t] = g[t]
  BY <1>2, <1>3, <1>4, Zenon DEF ReceiptMaps
<1>6. PICK q : q = [work[w] EXCEPT !.step = "stage", !.stage = work[w].stage + 1, !.got = m]
  BY Zenon
<1>7. /\ q \in Runs
      /\ q.step = "stage" /\ q.got = m /\ q.job = work[w].job /\ q.stage = work[w].stage + 1
  BY <1>1, <1>2, <1>5, <1>6, Zenon DEF Runs
<1>8. work' = [work EXCEPT ![w] = q]
  BY <1>3, <1>4, <1>6, Zenon DEF NextStage
<1>9. work' \in [Workers -> Runs] /\ work'[w] = q /\ \A v \in Workers \ {w} : work'[v] = work[v]
  BY <1>1, <1>7, <1>8, Zenon
<1>10. TrueReceipts(m)'
  <2>1. TrueReceipts(g)'
    BY <1>1, <1>3, TruthStays, Zenon DEF RunOK
  <2> QED  BY <1>5, <2>1 DEF TrueReceipts, Stores
<1>11. Moves(w)
  BY <1>7, <1>9, Zenon DEF Moves, Holding
<1>12. orgRow'.deleted /\ job'[q.job].status = "running" /\ q.job \in Jobs
  BY <1>1, <1>7, Zenon DEF RunOK, Holding, Claimed, Purged, Onward
<1>13. TrueReceipts(work[w].got)'
  BY <1>7, <1>9, <1>10, Zenon DEF TrueReceipts
<1>14. RunOK(w)'
  BY <1>2, <1>7, <1>9, <1>12, <1>13 DEF RunOK, Holding, Claimed, Purged, Erasing
<1> QED  BY <1>9, <1>11, <1>14, Zenon

\* A run that goes to another step with the job and the receipts it has.
LEMMA Proceeds ==
  ASSUME DeletionTypeOK, RunsOK, Onward, NEW w \in Workers, NEW q \in Runs,
         work' = [work EXCEPT ![w] = q], work[w].step \in Holding,
         q.job = work[w].job, q.got = work[w].got,
         \A v \in Workers \ {w} : advisory = v => advisory' = v
  PROVE  /\ work' \in [Workers -> Runs] /\ Moves(w) /\ work'[w] = q
         /\ TrueReceipts(work[w].got)' /\ q.job \in Jobs
<1>1. work \in [Workers -> Runs] /\ RunOK(w)
  BY Zenon DEF DeletionTypeOK, RunsOK
<1>2. work'[w] = q /\ \A v \in Workers \ {w} : work'[v] = work[v]
  BY <1>1, Zenon
<1>3. PICK g : g = work[w].got
  BY Zenon
<1>4. TrueReceipts(g)'
  BY <1>1, <1>3, TruthStays, Zenon DEF RunOK
<1>5. TrueReceipts(work[w].got)'
  BY <1>2, <1>3, <1>4, Zenon DEF TrueReceipts
<1> QED  BY <1>1, <1>2, <1>5, Zenon DEF Moves, RunOK, Holding

-----------------------------------------------------------------------------
\* The steps of a run.

\* A task is delivered to a worker.
LEMMA DeliverKeeps ==
  ASSUME DeletionAssumption, DeletionInv, NEW w \in Workers, DeliverTask(w)
  PROVE  DeletionInv'
<1>1. PICK j \in sent : work' = [work EXCEPT ![w] = [Idle EXCEPT !.step = "claim", !.job = j,
                                                                 !.settings = deployed]]
  BY Zenon DEF DeliverTask
<1> DEFINE q == [Idle EXCEPT !.step = "claim", !.job = j, !.settings = deployed]
<1>2. q \in Runs /\ q.step = "claim" /\ q.job = j /\ q.got = NoReceipts /\ j \in Jobs
  <2>1. j \in Jobs /\ deployed \in Settings
    BY Zenon DEF DeletionAssumption, DeletionInv, DeletionTypeOK
  <2> QED  BY <2>1, IdleTyped, Zenon DEF Runs
<1>3. PICK p : p = q
  BY Zenon
<1>4. work \in [Workers -> Runs]
  BY Zenon DEF DeletionInv, DeletionTypeOK
<1>5. /\ work' \in [Workers -> Runs] /\ work'[w] = p
      /\ \A v \in Workers \ {w} : work'[v] = work[v]
  BY <1>1, <1>2, <1>3, <1>4, Zenon
<1>6. DeletionTypeOK'
  BY <1>5, Zenon DEF DeletionInv, DeletionTypeOK, DeliverTask
<1>7. p.step = "claim" /\ p.job = j /\ p.got = NoReceipts /\ j \in Jobs
  BY <1>2, <1>3, Zenon
<1> HIDE DEF q
<1>8. Moves(w) /\ RunOK(w)'
  BY <1>5, <1>7, NoReceiptsTrue, Zenon
     DEF Moves, RunOK, Holding, Claimed, Purged, Erasing, TrueReceipts, DeliverTask
<1>9. Onward
  BY StillOnward, Zenon DEF DeliverTask
<1> QED  BY <1>6, <1>8, <1>9, RunStep, Zenon DEF DeletionInv, HoldsOut, DeliverTask

\* _claim_job: the row lock and the status let one run have the job.
LEMMA ClaimKeeps ==
  ASSUME DeletionAssumption, DeletionInv, NEW w \in Workers, ClaimDeletionJob(w)
  PROVE  DeletionInv'
<1>1. Onward /\ DeletionTypeOK /\ RunsOK /\ OneRun /\ RunOK(w)
  BY StillOnward, Zenon DEF ClaimDeletionJob, DeletionInv, RunsOK
<1>2. CASE work' = [work EXCEPT ![w] = Idle]
  <2>1. work' \in [Workers -> Runs] /\ Moves(w) /\ RunOK(w)'
    BY <1>1, <1>2, Ends, Zenon DEF ClaimDeletionJob
  <2>2. DeletionTypeOK' /\ HoldsOut'
    BY <1>1, <2>1, Zenon DEF DeletionInv, DeletionTypeOK, HoldsOut, ClaimDeletionJob
  <2> QED  BY <1>1, <2>1, <2>2, RunStep, Zenon DEF DeletionInv, ClaimDeletionJob
<1>3. CASE /\ Claimable(work[w].job)
           /\ work' = [work EXCEPT ![w].step = "lock"]
  <2>1. PICK q : q = [work[w] EXCEPT !.step = "lock"]
    BY Zenon
  <2>2. /\ work \in [Workers -> Runs] /\ q \in Runs
        /\ q.step = "lock" /\ q.job = work[w].job /\ q.got = work[w].got
    BY <1>1, <2>1 DEF DeletionTypeOK, Runs
  <2>3. /\ work' \in [Workers -> Runs] /\ work'[w] = q
        /\ \A v \in Workers \ {w} : work'[v] = work[v]
    BY <1>3, <2>1, <2>2, Zenon
  <2>4. RunOK(w)'
    BY <1>1, <1>3, <2>2, <2>3
       DEF RunOK, Holding, Claimed, Claimable, Purged, Erasing, TrueReceipts, LeftIn, Doomed,
           ClaimDeletionJob
  <2>5. OneRun'
    <3>1. ASSUME NEW v \in Workers \ {w}, work[v].step \in Holding, work[v].job = work[w].job
          PROVE  FALSE
      BY <1>1, <1>3, <3>1, Zenon
         DEF RunsOK, RunOK, Holding, Claimed, Claimable, ClaimDeletionJob, RowLocked
    <3> QED  BY <1>1, <2>2, <2>3, <3>1 DEF OneRun
  <2>6. RunsOK'
    BY <1>1, <2>3, <2>4, RunMoves, Zenon DEF ClaimDeletionJob
  <2>7. Filed' /\ Reported' /\ ReceiptsOK' /\ HoldsOut'
    BY <1>1, RowsStay DEF DeletionInv, Filed, Reported, Complete, HoldsOut, ClaimDeletionJob
  <2>8. DeletionTypeOK'
    BY <1>1, <2>3, Zenon DEF DeletionTypeOK, ClaimDeletionJob
  <2> QED  BY <2>5, <2>6, <2>7, <2>8, Zenon DEF DeletionInv
<1> QED  BY <1>2, <1>3, Zenon DEF ClaimDeletionJob

\* The check for a hold under the advisory lock.
LEMMA CheckHoldKeeps ==
  ASSUME DeletionAssumption, DeletionInv, NEW w \in Workers, CheckHold(w)
  PROVE  DeletionInv'
<1>1. /\ Onward /\ DeletionTypeOK /\ RunsOK /\ ReceiptsOK /\ RunOK(w)
      /\ work[w].step = "lock" /\ advisory = NoWorker /\ NoWorker \notin Workers
  BY StillOnward, Zenon DEF CheckHold, DeletionInv, RunsOK, DeletionAssumption
<1>2. PICK j \in Jobs : j = work[w].job
  BY <1>1, Zenon DEF RunOK
<1>3. CASE /\ job' = [job EXCEPT ![j].status = "hold_blocked"]
           /\ work' = [work EXCEPT ![w] = Idle] /\ UNCHANGED advisory
  <2>1. work' \in [Workers -> Runs] /\ Moves(w) /\ RunOK(w)'
    BY <1>1, <1>3, Ends, Zenon
  <2>2. PICK r : r = [job[j] EXCEPT !.status = "hold_blocked"]
    BY Zenon
  <2>3. /\ job \in [Jobs -> JobRows] /\ r \in JobRows
        /\ r.status = "hold_blocked" /\ r.receipts = job[j].receipts
    BY <1>1, <2>2 DEF DeletionTypeOK, JobRows
  <2>4. TrueReceipts(r.receipts)'
    BY <1>1, <2>3, TruthStays, Zenon DEF ReceiptsOK
  <2>5. job' = [job EXCEPT ![work[w].job] = r]
    BY <1>2, <1>3, <2>2, Zenon
  <2>6. ReceiptsOK' /\ RunsOK' /\ OneRun' /\ Filed' /\ Reported'
    BY <1>1, <2>1, <2>3, <2>4, <2>5, RowStep, Zenon DEF CheckHold, Holding
  <2>7. DeletionTypeOK' /\ HoldsOut'
    BY <1>1, <1>3, <2>1, <2>3, <2>5 DEF DeletionTypeOK, HoldsOut, CheckHold
  <2> QED  BY <2>6, <2>7, Zenon DEF DeletionInv
<1>4. CASE /\ holds = {} /\ advisory' = w
           /\ work' = [work EXCEPT ![w] =
                [@ EXCEPT !.step = "purge",
                          !.uris = IF job[j].snap = NoSnapshot THEN archived ELSE job[j].snap]]
           /\ UNCHANGED job
  <2>1. PICK u : u = IF job[j].snap = NoSnapshot THEN archived ELSE job[j].snap
    BY Zenon
  <2>2. u \in SUBSET Archives
    <3>1. job[j].snap \in (SUBSET Archives) \cup {NoSnapshot} /\ archived \in SUBSET Archives
      BY <1>1, Zenon DEF DeletionTypeOK, JobRows
    <3> QED  BY <2>1, <3>1, Zenon
  <2>3. PICK q : q = [work[w] EXCEPT !.step = "purge", !.uris = u]
    BY Zenon
  <2>4. /\ q \in Runs /\ q.step = "purge" /\ q.job = work[w].job /\ q.got = work[w].got
    <3>1. work[w] \in Runs
      BY <1>1, Zenon DEF DeletionTypeOK
    <3> QED  BY <2>2, <2>3, <3>1, Zenon DEF Runs
  <2>5. /\ work' \in [Workers -> Runs] /\ Moves(w) /\ work'[w] = q
        /\ TrueReceipts(work[w].got)' /\ q.job \in Jobs
    <3>1. work' = [work EXCEPT ![w] = q]
      BY <1>4, <2>1, <2>3, Zenon
    <3>2. \A v \in Workers \ {w} : advisory = v => advisory' = v
      BY <1>1, Zenon
    <3> QED  BY <1>1, <2>4, <3>1, <3>2, Proceeds, Zenon DEF Holding
  <2>6. RunOK(w)'
    BY <1>1, <1>4, <2>4, <2>5, Zenon DEF RunOK, Holding, Claimed, Claimable, Purged, Erasing
  <2>7. DeletionTypeOK' /\ HoldsOut'
    BY <1>1, <1>4, <2>5, Zenon DEF DeletionTypeOK, HoldsOut, CheckHold
  <2> QED  BY <1>1, <1>4, <2>5, <2>6, <2>7, RunStep, Zenon DEF CheckHold, DeletionInv
<1> QED  BY <1>2, <1>3, <1>4, Zenon DEF CheckHold

\* The PostgreSQL stage and its commit, answered or not.
LEMMA PurgeKeeps ==
  ASSUME DeletionAssumption, DeletionInv, NEW w \in Workers, PurgePostgres(w)
  PROVE  DeletionInv'
<1>1. /\ DeletionTypeOK /\ RunsOK /\ ReceiptsOK /\ RunOK(w)
      /\ work[w].step = "purge" /\ advisory = w /\ work[w].job \in Jobs
  BY Zenon DEF PurgePostgres, DeletionInv, RunsOK, RunOK, Erasing
<1>2. PICK j \in Jobs : j = work[w].job
  BY <1>1, Zenon
<1>3. PICK g : g = job[j].receipts
  BY Zenon
<1>4. PICK m : m = [g EXCEPT !["postgres"] = "verified"]
  BY Zenon
<1>5. /\ job \in [Jobs -> JobRows] /\ g \in ReceiptMaps /\ m \in ReceiptMaps
      /\ \A s \in Stores \ {"postgres"} : m[s] = g[s]
  BY <1>1, <1>3, <1>4 DEF DeletionTypeOK, JobRows, ReceiptMaps, Stores
<1>6. PICK r : r = [status |-> "running", snap |-> work[w].uris, receipts |-> m]
  BY Zenon
<1>7. r \in JobRows /\ r.status = "running" /\ r.receipts = m
  BY <1>1, <1>5, <1>6, Zenon DEF DeletionTypeOK, JobRows, Runs
<1>8. job' = [job EXCEPT ![work[w].job] = r]
  BY <1>2, <1>3, <1>4, <1>6, Zenon DEF PurgePostgres
<1>9. /\ old' \subseteq old /\ "postgres" \notin old' /\ archived' \subseteq Archives
      /\ orgRow' \in [status : {"active", "suspended", "cancelled"}, deleted : BOOLEAN]
      /\ orgRow'.deleted
  <2>1. CASE g["postgres"] = "verified"
    <3>1. UNCHANGED <<old, archived, orgRow>>
      BY <1>2, <1>3, <2>1, Zenon DEF PurgePostgres
    <3> QED  BY <1>1, <1>3, <2>1, <3>1, Zenon DEF ReceiptsOK, TrueReceipts, Stores, DeletionTypeOK
  <2>2. CASE g["postgres"] # "verified"
    <3>1. /\ old' = old \ {"postgres"} /\ archived' = {}
          /\ orgRow' = [status |-> "cancelled", deleted |-> TRUE]
      BY <1>2, <1>3, <2>2, Zenon DEF PurgePostgres
    <3> QED  BY <3>1, Zenon
  <2> QED  BY <2>1, <2>2, Zenon
<1>10. Onward
  BY <1>9, OrgOnward, Zenon DEF PurgePostgres
<1>11. TrueReceipts(r.receipts)'
  <2>1. TrueReceipts(g)'
    BY <1>1, <1>3, <1>10, TruthStays, Zenon DEF ReceiptsOK
  <2>2. TrueReceipts(m)'
    BY <1>5, <1>9, <2>1, Zenon DEF TrueReceipts, Stores
  <2> QED  BY <1>7, <2>2, Zenon
<1>12. job'[work[w].job].status = "running" /\ job' \in [Jobs -> JobRows]
  BY <1>1, <1>5, <1>7, <1>8, Zenon
<1>13. /\ work' \in [Workers -> Runs] /\ Moves(w) /\ RunOK(w)'
       /\ advisory' = NoWorker
  <2>1. CASE work' = [work EXCEPT ![w].step = "publish"] /\ advisory' = NoWorker
    <3>1. PICK q : q = [work[w] EXCEPT !.step = "publish"]
      BY Zenon
    <3>2. /\ q \in Runs /\ q.step = "publish" /\ q.job = work[w].job /\ q.got = work[w].got
          /\ work' = [work EXCEPT ![w] = q]
      BY <1>1, <2>1, <3>1 DEF DeletionTypeOK, Runs
    <3>3. /\ work' \in [Workers -> Runs] /\ Moves(w) /\ work'[w] = q
          /\ TrueReceipts(work[w].got)' /\ q.job \in Jobs
      BY <1>1, <1>10, <3>2, Proceeds, Zenon DEF Holding
    <3>4. RunOK(w)'
      BY <1>9, <1>12, <3>2, <3>3, Zenon DEF RunOK, Holding, Claimed, Claimable, Purged, Erasing
    <3> QED  BY <2>1, <3>3, <3>4, Zenon
  <2>2. CASE RollBack(w, "none")
    BY <1>1, <1>12, <2>2, RollsBack, Zenon DEF Holding, RollBack, Free
  <2> QED  BY <2>1, <2>2, Zenon DEF PurgePostgres
<1>14. ReceiptsOK' /\ RunsOK' /\ OneRun' /\ Filed' /\ Reported'
  BY <1>1, <1>7, <1>8, <1>10, <1>11, <1>13, RowStep, Zenon DEF Holding, PurgePostgres
<1>15. DeletionTypeOK' /\ HoldsOut'
  <2>1. mishaps' \in 0 .. MaxMishaps
    BY <1>1, MishapTyped, Zenon DEF PurgePostgres
  <2>2. /\ old' \subseteq Stores \ {"objectstore"}
        /\ UNCHANGED <<holds, sent, mutating, objects, deployed, req, capture, report, leaked>>
    BY <1>1, <1>9, Zenon DEF DeletionTypeOK, PurgePostgres
  <2> QED  BY <1>1, <1>9, <1>12, <1>13, <2>1, <2>2, Zenon DEF DeletionTypeOK, HoldsOut
<1> QED  BY <1>14, <1>15, Zenon DEF DeletionInv

\* A step of a run that changes no row and none of what other processes own.
LEMMA SagaQuiet ==
  ASSUME DeletionAssumption, DeletionInv, Onward, NEW w \in Workers,
         work' \in [Workers -> Runs], Moves(w), RunOK(w)',
         UNCHANGED <<orgRow, holds, job, archived, deployed, req, capture, report, leaked>>,
         Mishap \/ UNCHANGED mishaps, sent' \subseteq Jobs, mutating' \in BOOLEAN,
         objects' \subseteq objects,
         advisory' \in {advisory, NoWorker} \/ (advisory' = w /\ holds = {})
  PROVE  DeletionInv'
<1>1. mishaps' \in 0 .. MaxMishaps
  BY MishapTyped, Zenon DEF DeletionInv
<1>2. DeletionTypeOK' /\ HoldsOut'
  BY <1>1, Zenon DEF DeletionInv, DeletionTypeOK, HoldsOut, Onward
<1> QED  BY <1>2, RunStep, Zenon DEF DeletionInv

\* A transaction of a run is rolled back.
LEMMA RollBackKeeps ==
  ASSUME DeletionAssumption, DeletionInv, NEW w \in Workers, NEW s \in Stores \cup {"none"},
         RollBack(w, s), work[w].step \in Purged, Mishap \/ UNCHANGED mishaps,
         UNCHANGED <<orgRow, holds, job, sent, old, mutating, archived, deployed, req, capture,
                     report, leaked>>,
         objects' \subseteq objects
  PROVE  DeletionInv'
<1>1. Onward
  BY StillOnward, Zenon
<1>2. work[w].step \in Holding /\ job'[work[w].job].status = "running"
  BY Zenon DEF DeletionInv, RunsOK, RunOK, Purged, Holding, Claimed
<1>3. work' \in [Workers -> Runs] /\ Moves(w) /\ RunOK(w)'
  BY <1>2, RollsBack, Zenon DEF DeletionInv
<1>4. sent' \subseteq Jobs /\ mutating' \in BOOLEAN /\ advisory' \in {advisory, NoWorker}
  BY Zenon DEF DeletionInv, DeletionTypeOK, RollBack, Free
<1> QED  BY <1>1, <1>3, <1>4, SagaQuiet, Zenon

\* A stage ends with its receipt.
LEMMA NextStageKeeps ==
  ASSUME DeletionAssumption, DeletionInv, NEW w \in Workers, NEW s \in Stores \ {"postgres"},
         NEW r \in {"verified", "not_applicable"}, work' = NextStage(w, s, r),
         work[w].step \in {"stage", "erase", "wait", "delete"}, work[w].stage # 4,
         UNCHANGED <<orgRow, holds, job, sent, mutating, archived, deployed, req, capture,
                     report, leaked, advisory, mishaps>>,
         old' \subseteq old, objects' \subseteq objects,
         r = "verified" => s \notin old' /\ (s = "objectstore" => LeftIn({})')
  PROVE  DeletionInv'
<1>1. Onward
  BY StillOnward, Zenon
<1>2. work' \in [Workers -> Runs] /\ Moves(w) /\ RunOK(w)'
  BY <1>1, GoesOn, Zenon DEF DeletionInv
<1>3. sent' \subseteq Jobs /\ mutating' \in BOOLEAN
  BY Zenon DEF DeletionInv, DeletionTypeOK
<1> QED  BY <1>1, <1>2, <1>3, SagaQuiet, Zenon

\* The invalidation of the policies after the purge.
LEMMA PublishKeeps ==
  ASSUME DeletionAssumption, DeletionInv, NEW w \in Workers, PublishInvalidate(w)
  PROVE  DeletionInv'
<1>1. /\ DeletionTypeOK /\ RunsOK /\ RunOK(w) /\ work[w].step = "publish" /\ work[w] \in Runs
  BY Zenon DEF PublishInvalidate, DeletionInv, RunsOK, DeletionTypeOK
<1>2. CASE /\ work' = [work EXCEPT ![w] = [@ EXCEPT !.step = "stage", !.stage = 1]]
           /\ UNCHANGED <<advisory, mishaps>>
  <2>1. PICK q : q = [work[w] EXCEPT !.step = "stage", !.stage = 1]
    BY Zenon
  <2>2. /\ q \in Runs /\ q.step = "stage" /\ q.stage = 1
        /\ q.job = work[w].job /\ q.got = work[w].got
    <3>1. 1 \in 0 .. 4
      OBVIOUS
    <3> QED  BY <1>1, <2>1, <3>1, Zenon DEF Runs
  <2>3. Onward
    BY StillOnward, Zenon DEF PublishInvalidate
  <2>4. /\ work' \in [Workers -> Runs] /\ Moves(w) /\ work'[w] = q
        /\ TrueReceipts(work[w].got)' /\ q.job \in Jobs
    <3>1. work' = [work EXCEPT ![w] = q]
      BY <1>2, <2>1, Zenon
    <3> QED  BY <1>1, <1>2, <2>2, <2>3, <3>1, Proceeds, Zenon DEF Holding
  <2>5. orgRow'.deleted /\ job'[q.job].status = "running"
    BY <1>1, <2>2, Zenon DEF RunOK, Purged, Holding, Claimed, PublishInvalidate
  <2>6. RunOK(w)'
    BY <2>2, <2>4, <2>5 DEF RunOK, Holding, Claimed, Purged, Erasing
  <2>7. sent' \subseteq Jobs /\ mutating' \in BOOLEAN
    BY <1>1, Zenon DEF DeletionTypeOK, PublishInvalidate
  <2> QED  BY <1>2, <2>3, <2>4, <2>6, <2>7, SagaQuiet, Zenon DEF PublishInvalidate
<1>3. CASE Mishap /\ RollBack(w, "none")
  BY <1>1, <1>3, RollBackKeeps, Zenon DEF PublishInvalidate, Purged
<1> QED  BY <1>2, <1>3, Zenon DEF PublishInvalidate

\* _run_optional_store, up to the call of the runner.
LEMMA OptionalStoreKeeps ==
  ASSUME DeletionAssumption, DeletionInv, NEW w \in Workers, RunOptionalStore(w)
  PROVE  DeletionInv'
<1>1. /\ DeletionTypeOK /\ RunsOK /\ RunOK(w) /\ work[w].step = "stage" /\ work[w] \in Runs
      /\ work[w].stage \in 1 .. 3
  BY DEF RunOptionalStore, DeletionInv, RunsOK, RunOK, DeletionTypeOK
<1>2. PICK s : s = Optional[work[w].stage]
  BY Zenon
<1>3. s \in Stores \ {"postgres"}
  BY <1>1, <1>2 DEF Optional, Stores
<1>4. CASE work' = NextStage(w, s, "not_applicable") /\ UNCHANGED advisory
  BY <1>1, <1>3, <1>4, NextStageKeeps DEF RunOptionalStore
<1>5. CASE RollBack(w, s) \/ RollBack(w, "none")
  BY <1>1, <1>3, <1>5, RollBackKeeps, Zenon DEF RunOptionalStore, Purged
<1>6. CASE /\ advisory \in {NoWorker, w} /\ holds = {}
           /\ work' = [work EXCEPT ![w].step = "erase"] /\ advisory' = w
  <2>1. PICK q : q = [work[w] EXCEPT !.step = "erase"]
    BY Zenon
  <2>2. /\ q \in Runs /\ q.step = "erase" /\ q.stage = work[w].stage
        /\ q.job = work[w].job /\ q.got = work[w].got
    BY <1>1, <2>1, Zenon DEF Runs
  <2>3. Onward
    BY StillOnward, Zenon DEF RunOptionalStore
  <2>4. /\ work' \in [Workers -> Runs] /\ Moves(w) /\ work'[w] = q
        /\ TrueReceipts(work[w].got)' /\ q.job \in Jobs
    <3>1. work' = [work EXCEPT ![w] = q]
      BY <1>6, <2>1, Zenon
    <3>2. \A v \in Workers \ {w} : advisory = v => advisory' = v
      BY <1>6, Zenon DEF DeletionAssumption
    <3> QED  BY <1>1, <2>2, <2>3, <3>1, <3>2, Proceeds, Zenon DEF Holding
  <2>5. orgRow'.deleted /\ job'[q.job].status = "running"
    BY <1>1, <2>2, Zenon DEF RunOK, Purged, Holding, Claimed, RunOptionalStore
  <2>6. RunOK(w)'
    BY <1>1, <1>6, <2>2, <2>4, <2>5 DEF RunOK, Holding, Claimed, Purged, Erasing
  <2>7. sent' \subseteq Jobs /\ mutating' \in BOOLEAN
    BY <1>1, Zenon DEF DeletionTypeOK, RunOptionalStore
  <2> QED  BY <1>6, <2>3, <2>4, <2>6, <2>7, SagaQuiet, Zenon DEF RunOptionalStore
<1> QED  BY <1>2, <1>4, <1>5, <1>6, Zenon DEF RunOptionalStore

\* stage_clickhouse issues its mutations.
LEMMA MutateKeeps ==
  ASSUME DeletionAssumption, DeletionInv, NEW w \in Workers, MutateClickHouse(w)
  PROVE  DeletionInv'
<1>1. /\ DeletionTypeOK /\ RunsOK /\ RunOK(w) /\ work[w].step = "erase" /\ work[w] \in Runs
      /\ Onward
  BY StillOnward, Zenon DEF MutateClickHouse, DeletionInv, RunsOK, DeletionTypeOK
<1>2. PICK q : q = [work[w] EXCEPT !.step = "wait"]
  BY Zenon
<1>3. /\ q \in Runs /\ q.step = "wait" /\ q.stage = work[w].stage
      /\ q.job = work[w].job /\ q.got = work[w].got
  BY <1>1, <1>2, Zenon DEF Runs
<1>4. /\ work' \in [Workers -> Runs] /\ Moves(w) /\ work'[w] = q
      /\ TrueReceipts(work[w].got)' /\ q.job \in Jobs
  <2>1. work' = [work EXCEPT ![w] = q]
    BY <1>2, Zenon DEF MutateClickHouse
  <2> QED  BY <1>1, <1>3, <2>1, Proceeds, Zenon DEF Holding, MutateClickHouse
<1>5. /\ orgRow'.deleted /\ job'[q.job].status = "running" /\ advisory' = w
      /\ q.stage \in 1 .. 4 /\ q.stage # 4
  BY <1>1, <1>3, Zenon DEF RunOK, Purged, Holding, Claimed, Erasing, MutateClickHouse
<1>6. RunOK(w)'
  BY <1>3, <1>4, <1>5, Zenon DEF RunOK, Holding, Claimed, Purged, Erasing
<1>7. sent' \subseteq Jobs /\ mutating' \in BOOLEAN
  BY <1>1, Zenon DEF DeletionTypeOK, MutateClickHouse
<1> QED  BY <1>1, <1>4, <1>6, <1>7, SagaQuiet, Zenon DEF MutateClickHouse

\* stage_clickhouse calls the store verified once nothing is left.
LEMMA WaitAbsentKeeps ==
  ASSUME DeletionAssumption, DeletionInv, NEW w \in Workers, WaitAbsent(w)
  PROVE  DeletionInv'
<1>1. work[w].step = "wait" /\ work[w].stage # 4
  BY Zenon DEF DeletionInv, RunsOK, RunOK, WaitAbsent
<1>2. CASE work' = NextStage(w, "clickhouse", "verified") /\ "clickhouse" \notin old
           /\ UNCHANGED <<advisory, mishaps>>
  <2>1. "clickhouse" \in Stores \ {"postgres"}
    BY Zenon DEF Stores
  <2> QED  BY <1>1, <1>2, <2>1, NextStageKeeps, Zenon DEF WaitAbsent
<1>3. CASE Mishap /\ RollBack(w, "none")
  BY <1>1, <1>3, RollBackKeeps, Zenon DEF WaitAbsent, Purged
<1> QED  BY <1>2, <1>3, Zenon DEF WaitAbsent

\* stage_redis deletes what it scans.
LEMMA ScanDeleteKeeps ==
  ASSUME DeletionAssumption, DeletionInv, NEW w \in Workers, ScanDelete(w)
  PROVE  DeletionInv'
<1>1. work[w].step = "erase" /\ work[w].stage # 4
  BY Zenon DEF DeletionInv, RunsOK, RunOK, ScanDelete
<1>2. CASE work' = NextStage(w, "redis", "verified") /\ old' = old \ {"redis"}
           /\ UNCHANGED <<advisory, mishaps>>
  <2>1. "redis" \in Stores \ {"postgres"}
    BY Zenon DEF Stores
  <2> QED  BY <1>1, <1>2, <2>1, NextStageKeeps, Zenon DEF ScanDelete
<1>3. CASE Mishap /\ RollBack(w, "none") /\ UNCHANGED old
  BY <1>1, <1>3, RollBackKeeps, Zenon DEF ScanDelete, Purged
<1> QED  BY <1>2, <1>3, Zenon DEF ScanDelete

\* The list of the prefix: what it misses is uploaded after the purge, and doomed.
LEMMA ListObjectsKeeps ==
  ASSUME DeletionAssumption, DeletionInv, NEW w \in Workers, ListObjects(w)
  PROVE  DeletionInv'
<1>1. /\ DeletionTypeOK /\ RunsOK /\ RunOK(w) /\ work[w].step = "erase" /\ work[w] \in Runs
      /\ Onward /\ objects' \subseteq objects
  BY StillOnward, Zenon DEF ListObjects, DeletionInv, RunsOK, DeletionTypeOK
<1>2. PICK l \in SUBSET Events : l = objects' \cap Events
  BY Zenon
<1>3. PICK q : q = [work[w] EXCEPT !.step = "delete", !.listed = l]
  BY Zenon
<1>4. /\ q \in Runs /\ q.step = "delete" /\ q.stage = work[w].stage
      /\ q.job = work[w].job /\ q.got = work[w].got /\ q.listed = l
  BY <1>1, <1>3, Zenon DEF Runs
<1>5. /\ work' \in [Workers -> Runs] /\ Moves(w) /\ work'[w] = q
      /\ TrueReceipts(work[w].got)' /\ q.job \in Jobs
  <2>1. work' = [work EXCEPT ![w] = q]
    BY <1>2, <1>3, Zenon DEF ListObjects
  <2> QED  BY <1>1, <1>4, <2>1, Proceeds, Zenon DEF Holding, ListObjects
<1>6. /\ orgRow'.deleted /\ job'[q.job].status = "running" /\ advisory' = w
      /\ q.stage \in 1 .. 4 /\ q.stage # 4
  BY <1>1, <1>4, Zenon DEF RunOK, Purged, Holding, Claimed, Erasing, ListObjects
<1>7. LeftIn(work[w].listed)'
  BY <1>2, <1>4, <1>5, <1>6, Zenon DEF LeftIn
<1>8. RunOK(w)'
  BY <1>4, <1>5, <1>6, <1>7, Zenon DEF RunOK, Holding, Claimed, Purged, Erasing
<1>9. sent' \subseteq Jobs /\ mutating' \in BOOLEAN
  BY <1>1, Zenon DEF DeletionTypeOK, ListObjects
<1> QED  BY <1>1, <1>5, <1>8, <1>9, SagaQuiet, Zenon DEF ListObjects

\* The listed objects are deleted, or some of them.
LEMMA DeleteListedKeeps ==
  ASSUME DeletionAssumption, DeletionInv, NEW w \in Workers, DeleteListed(w)
  PROVE  DeletionInv'
<1>1. work[w].step = "delete" /\ work[w].stage # 4 /\ LeftIn(work[w].listed)
  BY Zenon DEF DeletionInv, RunsOK, RunOK, DeleteListed
<1>2. CASE work' = NextStage(w, "objectstore", "verified") /\ objects' = objects \ work[w].listed
           /\ UNCHANGED <<advisory, mishaps>>
  <2>1. "objectstore" \in Stores \ {"postgres"} /\ "objectstore" \notin old
    BY Zenon DEF Stores, DeletionInv, DeletionTypeOK
  <2>2. LeftIn({})'
    BY <1>1, <1>2, Zenon DEF LeftIn, Doomed, DeleteListed
  <2> QED  BY <1>1, <1>2, <2>1, <2>2, NextStageKeeps, Zenon DEF DeleteListed
<1>3. CASE Mishap /\ RollBack(w, "none") /\ objects' \subseteq objects
  BY <1>1, <1>3, RollBackKeeps, Zenon DEF DeleteListed, Purged
<1> QED  BY <1>2, <1>3, Zenon DEF DeleteListed

\* The process of a worker dies.
LEMMA LoseWorkerKeeps ==
  ASSUME DeletionAssumption, DeletionInv, NEW w \in Workers, LoseWorker(w)
  PROVE  DeletionInv'
<1>1. /\ DeletionTypeOK /\ RunsOK /\ RunOK(w) /\ work[w].job \in Jobs /\ Onward
  BY StillOnward, Zenon DEF LoseWorker, DeletionInv, RunsOK, RunOK
<1>2. work' \in [Workers -> Runs] /\ Moves(w) /\ RunOK(w)'
  BY <1>1, Ends, Zenon DEF LoseWorker, Free
<1>3. sent' \subseteq Jobs /\ mutating' \in BOOLEAN /\ advisory' \in {advisory, NoWorker}
  BY <1>1, Zenon DEF DeletionTypeOK, LoseWorker, Free
<1> QED  BY <1>1, <1>2, <1>3, SagaQuiet, Zenon DEF LoseWorker

\* A run ends, and its job gets a row that tells the truth.
LEMMA RowEnds ==
  ASSUME DeletionAssumption, DeletionInv, NEW w \in Workers, work[w].step \in Holding,
         work' = [work EXCEPT ![w] = Idle],
         NEW r \in JobRows, job' = [job EXCEPT ![work[w].job] = r],
         r.status # "absent", TrueReceipts(r.receipts),
         r.status = "succeeded" => Complete(r.receipts),
         advisory' \in {advisory, NoWorker},
         \A v \in Workers \ {w} : advisory = v => advisory' = v,
         UNCHANGED <<orgRow, holds, sent, old, mutating, archived, objects, deployed, req,
                     capture, report, leaked, mishaps>>
  PROVE  DeletionInv'
<1>1. DeletionTypeOK /\ Onward
  BY StillOnward, Zenon DEF DeletionInv
<1>2. work' \in [Workers -> Runs] /\ Moves(w) /\ RunOK(w)'
  BY <1>1, Ends, Zenon
<1>3. TrueReceipts(r.receipts)'
  BY <1>1, TruthStays, Zenon
<1>4. ReceiptsOK' /\ RunsOK' /\ OneRun' /\ Filed' /\ Reported'
  BY <1>1, <1>2, <1>3, RowStep, Zenon
<1>5. job' \in [Jobs -> JobRows]
  BY <1>1, Zenon DEF DeletionTypeOK
<1>6. DeletionTypeOK' /\ HoldsOut'
  BY <1>1, <1>2, <1>5, Zenon DEF DeletionInv, DeletionTypeOK, HoldsOut
<1> QED  BY <1>4, <1>6, Zenon DEF DeletionInv

\* The receipts of a run over those of its job are true, because both are.
LEMMA MergedTrue ==
  ASSUME DeletionInv, NEW w \in Workers, work[w].job \in Jobs
  PROVE  /\ Merged(w) \in ReceiptMaps /\ TrueReceipts(Merged(w))
         /\ ReceiptsSatisfied(w) => Complete(Merged(w))
<1>1. PICK g : g = work[w].got
  BY Zenon
<1>2. PICK h : h = job[work[w].job].receipts
  BY Zenon
<1>3. g \in ReceiptMaps /\ h \in ReceiptMaps
  BY <1>1, <1>2, Zenon DEF DeletionInv, DeletionTypeOK, Runs, JobRows
<1>4. TrueReceipts(g) /\ TrueReceipts(h)
  BY <1>1, <1>2, Zenon DEF DeletionInv, RunsOK, RunOK, ReceiptsOK
<1>5. \A s \in Stores : Receipt(w, s) \in {g[s], h[s]} /\ Merged(w)[s] = Receipt(w, s)
  BY <1>1, <1>2, Zenon DEF Receipt, Merged
<1>6. Merged(w) \in ReceiptMaps
  BY <1>3, <1>5, Zenon DEF ReceiptMaps, Merged
<1>7. TrueReceipts(Merged(w))
  BY <1>4, <1>5 DEF TrueReceipts, Stores
<1>8. ReceiptsSatisfied(w) => Complete(Merged(w))
  BY <1>5, Zenon DEF ReceiptsSatisfied, Complete
<1> QED  BY <1>6, <1>7, <1>8, Zenon

\* _finalize_job: the status follows from receipts that are true.
LEMMA FinalizeKeeps ==
  ASSUME DeletionAssumption, DeletionInv, NEW w \in Workers, FinalizeJob(w)
  PROVE  DeletionInv'
<1>1. /\ work[w].step = "stage" /\ work[w].job \in Jobs /\ advisory \in {NoWorker, w}
      /\ job \in [Jobs -> JobRows]
  BY Zenon DEF FinalizeJob, DeletionInv, DeletionTypeOK, RunsOK, RunOK
<1>2. PICK m : m = Merged(w)
  BY Zenon
<1>3. PICK t : t = IF ReceiptsSatisfied(w) THEN "succeeded" ELSE "failed"
  BY Zenon
<1>4. /\ m \in ReceiptMaps /\ TrueReceipts(m) /\ t \in {"succeeded", "failed"}
      /\ t = "succeeded" => Complete(m)
  BY <1>1, <1>2, <1>3, MergedTrue, Zenon
<1>5. CASE /\ job' = [job EXCEPT ![work[w].job] = [@ EXCEPT !.status = t, !.receipts = m]]
           /\ work' = [work EXCEPT ![w] = Idle] /\ advisory' = NoWorker /\ UNCHANGED mishaps
  <2>1. PICK r : r = [job[work[w].job] EXCEPT !.status = t, !.receipts = m]
    BY Zenon
  <2>2. r \in JobRows /\ r.receipts = m /\ r.status = t
    <3>1. job[work[w].job] \in JobRows /\ m \in ReceiptMaps /\ t \in {"succeeded", "failed"}
      BY <1>1, <1>4
    <3>2. PICK x \in JobRows : x = job[work[w].job]
      BY <3>1, Zenon
    <3>3. r = [x EXCEPT !.status = t, !.receipts = m]
      BY <2>1, <3>2, Zenon
    <3> QED  BY <3>1, <3>3, Zenon DEF JobRows
  <2>3. job' = [job EXCEPT ![work[w].job] = r]
    BY <1>5, <2>1, Zenon
  <2>4. \A v \in Workers \ {w} : advisory = v => advisory' = v
    BY <1>1, Zenon DEF DeletionAssumption
  <2> QED  BY <1>1, <1>4, <1>5, <2>2, <2>3, <2>4, RowEnds, Zenon DEF FinalizeJob, Holding
<1>6. CASE Mishap /\ RollBack(w, "none") /\ UNCHANGED job
  BY <1>1, <1>6, RollBackKeeps, Zenon DEF FinalizeJob, Purged
<1> QED  BY <1>2, <1>3, <1>5, <1>6, Zenon DEF FinalizeJob

\* _record_job_failed leaves true receipts.
LEMMA RecordKeeps ==
  ASSUME DeletionAssumption, DeletionInv, NEW w \in Workers, RecordJobFailed(w)
  PROVE  DeletionInv'
<1>1. /\ work[w].step = "fail" /\ work[w].job \in Jobs /\ work[w].step \in Holding
      /\ job \in [Jobs -> JobRows] /\ work[w].unreachable \in Stores \cup {"none"}
      /\ work' = [work EXCEPT ![w] = Idle] /\ UNCHANGED advisory
  BY Zenon DEF RecordJobFailed, DeletionInv, DeletionTypeOK, RunsOK, RunOK, Runs, Holding
<1>2. PICK u \in Stores \cup {"none"} : u = work[w].unreachable
  BY <1>1, Zenon
<1>3. PICK g : g = job[work[w].job].receipts
  BY Zenon
<1>4. PICK m : m = IF u = "none" THEN g ELSE [g EXCEPT ![u] = "failed"]
  BY Zenon
<1>5. m \in ReceiptMaps /\ TrueReceipts(m)
  <2>1. g \in ReceiptMaps /\ TrueReceipts(g)
    BY <1>1, <1>3, Zenon DEF DeletionInv, ReceiptsOK, JobRows
  <2>2. CASE u = "none"
    BY <1>4, <2>1, <2>2, Zenon
  <2>3. CASE u \in Stores
    <3>1. m \in ReceiptMaps /\ m[u] = "failed" /\ \A s \in Stores \ {u} : m[s] = g[s]
      BY <1>4, <2>1, <2>3, Zenon DEF ReceiptMaps, Stores
    <3> QED  BY <2>1, <3>1, Zenon DEF TrueReceipts, Stores
  <2> QED  BY <2>2, <2>3, Zenon
<1>6. CASE /\ job' = [job EXCEPT ![work[w].job] = [@ EXCEPT !.status = "failed", !.receipts = m]]
           /\ UNCHANGED <<stranded, mishaps>>
  <2>1. PICK r : r = [job[work[w].job] EXCEPT !.status = "failed", !.receipts = m]
    BY Zenon
  <2>2. r \in JobRows /\ r.receipts = m /\ r.status = "failed"
    <3>1. job[work[w].job] \in JobRows /\ m \in ReceiptMaps
      BY <1>1, <1>5
    <3>2. PICK x \in JobRows : x = job[work[w].job]
      BY <3>1, Zenon
    <3>3. r = [x EXCEPT !.status = "failed", !.receipts = m]
      BY <2>1, <3>2, Zenon
    <3> QED  BY <3>1, <3>3, Zenon DEF JobRows
  <2>3. job' = [job EXCEPT ![work[w].job] = r]
    BY <1>6, <2>1, Zenon
  <2> QED  BY <1>1, <1>5, <1>6, <2>2, <2>3, RowEnds, Zenon DEF RecordJobFailed
<1>7. CASE Mishap /\ UNCHANGED job
  <2>1. Onward /\ DeletionTypeOK
    BY StillOnward, Zenon DEF RecordJobFailed, DeletionInv
  <2>2. work' \in [Workers -> Runs] /\ Moves(w) /\ RunOK(w)'
    BY <1>1, <2>1, Ends, Zenon
  <2>3. sent' \subseteq Jobs /\ mutating' \in BOOLEAN
    BY <2>1, Zenon DEF DeletionTypeOK, RecordJobFailed
  <2> QED  BY <1>1, <1>7, <2>1, <2>2, <2>3, SagaQuiet, Zenon DEF RecordJobFailed
<1> QED  BY <1>2, <1>3, <1>4, <1>6, <1>7, Zenon DEF RecordJobFailed

-----------------------------------------------------------------------------
\* The steps of everybody else.

\* A step outside the runs that leaves the rows, the calls and the report alone.
LEMMA Aside ==
  ASSUME DeletionInv, Onward, DeletionTypeOK', UNCHANGED <<job, work, advisory, req, report>>,
         advisory # NoWorker => holds' = {}
  PROVE  DeletionInv'
<1>1. RunsOK' /\ ReceiptsOK'
  BY RunsStay, RowsStay, Zenon DEF DeletionInv
<1>2. OneRun' /\ Filed' /\ Reported' /\ HoldsOut'
  BY DEF DeletionInv, OneRun, Filed, Reported, Complete, HoldsOut
<1> QED  BY <1>1, <1>2, Zenon DEF DeletionInv

\* A call takes a new id for its job.
LEMMA CreateKeeps ==
  ASSUME DeletionAssumption, DeletionInv, NEW c \in Callers, CreateJobRow(c)
  PROVE  DeletionInv'
<1>1. /\ DeletionTypeOK /\ Onward /\ req \in [Callers -> CallRecords] /\ 0 \notin Jobs
      /\ req[c].step = "new"
  BY StillOnward, Zenon DEF DeletionInv, DeletionTypeOK, CreateJobRow, DeletionAssumption
<1>2. RunsOK' /\ ReceiptsOK' /\ OneRun' /\ Reported' /\ HoldsOut'
  BY <1>1, RunsStay, RowsStay, Zenon
     DEF DeletionInv, CreateJobRow, OneRun, Reported, Complete, HoldsOut
<1>3. CASE \E j \in Jobs \ IdsTaken : req' = [req EXCEPT ![c] = [step |-> "send", job |-> j]]
  <2>1. PICK j \in Jobs \ IdsTaken : req' = [req EXCEPT ![c] = [step |-> "send", job |-> j]]
    BY <1>3, Zenon
  <2>2. PICK q : q = [step |-> "send", job |-> j]
    BY Zenon
  <2>3. q \in CallRecords /\ q.step = "send" /\ q.job = j /\ req' = [req EXCEPT ![c] = q]
    BY <2>1, <2>2, Zenon DEF CallRecords
  <2>4. /\ req' \in [Callers -> CallRecords] /\ req'[c] = q
        /\ \A d \in Callers \ {c} : req'[d] = req[d]
    BY <1>1, <2>3, Zenon
  <2>5. \A d \in Callers : req[d].job # j
    BY Zenon DEF IdsTaken
  <2>6. job[j].status = "absent"
    BY <2>5, Zenon DEF DeletionInv, Filed
  <2>7. Filed'
    BY <1>1, <2>3, <2>4, <2>5, <2>6 DEF DeletionInv, Filed, CreateJobRow, Underway
  <2>8. DeletionTypeOK'
    BY <1>1, <2>4, Zenon DEF DeletionTypeOK, CreateJobRow
  <2> QED  BY <1>2, <2>7, <2>8, Zenon DEF DeletionInv
<1>4. CASE req' = [req EXCEPT ![c].step = "refused"]
  <2>1. PICK q : q = [req[c] EXCEPT !.step = "refused"]
    BY Zenon
  <2>2. q \in CallRecords /\ q.step = "refused" /\ q.job = req[c].job
    BY <1>1, <2>1, Zenon DEF CallRecords
  <2>3. req' = [req EXCEPT ![c] = q]
    BY <1>4, <2>1, Zenon
  <2>4. /\ req' \in [Callers -> CallRecords] /\ req'[c] = q
        /\ \A d \in Callers \ {c} : req'[d] = req[d]
    BY <1>1, <2>2, <2>3, Zenon
  <2>5. Filed'
    BY <1>1, <2>2, <2>4 DEF DeletionInv, Filed, CreateJobRow, Underway
  <2>6. DeletionTypeOK'
    BY <1>1, <2>4, Zenon DEF DeletionTypeOK, CreateJobRow
  <2> QED  BY <1>2, <2>5, <2>6, Zenon DEF DeletionInv
<1> QED  BY <1>3, <1>4, Zenon DEF CreateJobRow

\* A call in flight goes to another step with the same job.
LEMMA CallMoves ==
  ASSUME DeletionInv, NEW c \in Callers, NEW t \in {"commit", "undo", "done"},
         req[c].step \in Underway, req' = [req EXCEPT ![c].step = t]
  PROVE  /\ req' \in [Callers -> CallRecords] /\ req'[c].step = t
         /\ \A d \in Callers : req'[d].job = req[d].job
         /\ \A d \in Callers \ {c} : req'[d] = req[d]
         /\ req[c].job \in Jobs
<1>1. req \in [Callers -> CallRecords]
  BY Zenon DEF DeletionInv, DeletionTypeOK
<1>2. PICK q : q = [req[c] EXCEPT !.step = t]
  BY Zenon
<1>3. q \in CallRecords /\ q.step = t /\ q.job = req[c].job
  BY <1>1, <1>2, Zenon DEF CallRecords
<1>4. req' = [req EXCEPT ![c] = q]
  BY <1>2, Zenon
<1> QED  BY <1>1, <1>3, <1>4 DEF DeletionInv, Filed

\* The task is sent before the row is committed.
LEMMA DispatchKeeps ==
  ASSUME DeletionAssumption, DeletionInv, NEW c \in Callers, DispatchEnqueue(c)
  PROVE  DeletionInv'
<1>1. DeletionTypeOK /\ Onward /\ req[c].step = "send" /\ req[c].step \in Underway
  BY StillOnward, Zenon DEF DeletionInv, DispatchEnqueue, Underway
<1>2. PICK t \in {"commit", "undo"} : req' = [req EXCEPT ![c].step = t]
  BY Zenon DEF DispatchEnqueue
<1>3. /\ req' \in [Callers -> CallRecords] /\ req'[c].step = t
      /\ \A d \in Callers : req'[d].job = req[d].job
      /\ \A d \in Callers \ {c} : req'[d] = req[d]
      /\ req[c].job \in Jobs
  BY <1>1, <1>2, CallMoves, Zenon
<1>4. RunsOK' /\ ReceiptsOK' /\ OneRun' /\ Reported' /\ HoldsOut'
  BY <1>1, RunsStay, RowsStay, Zenon
     DEF DeletionInv, DispatchEnqueue, OneRun, Reported, Complete, HoldsOut
<1>5. Filed'
  BY <1>1, <1>3 DEF DeletionInv, Filed, DispatchEnqueue
<1>6. DeletionTypeOK'
  <2>1. sent' \subseteq Jobs /\ mishaps' \in 0 .. MaxMishaps
    BY <1>1, <1>3, MishapTyped, Zenon DEF DispatchEnqueue, DeletionTypeOK
  <2> QED  BY <1>1, <1>3, <2>1, Zenon DEF DeletionTypeOK, DispatchEnqueue
<1> QED  BY <1>4, <1>5, <1>6, Zenon DEF DeletionInv

\* The call commits its row, which nobody had before.
LEMMA FinishKeeps ==
  ASSUME DeletionAssumption, DeletionInv, NEW c \in Callers, FinishRequest(c)
  PROVE  DeletionInv'
<1>1. DeletionTypeOK /\ req[c].step \in Underway
  BY Zenon DEF DeletionInv, FinishRequest, Underway
<1>2. /\ req' \in [Callers -> CallRecords] /\ req'[c].step = "done"
      /\ \A d \in Callers : req'[d].job = req[d].job
      /\ \A d \in Callers \ {c} : req'[d] = req[d]
      /\ req[c].job \in Jobs
  BY <1>1, CallMoves, Zenon DEF FinishRequest
<1>3. CASE Mishap /\ UNCHANGED <<job, orgRow>>
  <2>1. Onward
    BY <1>3, StillOnward, Zenon DEF FinishRequest
  <2>2. RunsOK' /\ ReceiptsOK' /\ OneRun' /\ Reported' /\ HoldsOut'
    BY <1>1, <1>3, <2>1, RunsStay, RowsStay, Zenon
       DEF DeletionInv, FinishRequest, OneRun, Reported, Complete, HoldsOut
  <2>3. Filed'
    BY <1>2, <1>3 DEF DeletionInv, Filed, Underway
  <2>4. DeletionTypeOK'
    BY <1>1, <1>2, <1>3, MishapTyped, Zenon DEF DeletionTypeOK, FinishRequest
  <2> QED  BY <2>2, <2>3, <2>4, Zenon DEF DeletionInv
<1>4. CASE /\ job' = [job EXCEPT ![req[c].job].status =
                          IF req[c].step = "commit" THEN "pending" ELSE "failed"]
           /\ orgRow' = IF req[c].step = "commit" /\ ~orgRow.deleted
                        THEN [orgRow EXCEPT !.status = "cancelled"] ELSE orgRow
           /\ UNCHANGED mishaps
  <2>1. PICK j \in Jobs : j = req[c].job
    BY <1>2, Zenon
  <2>2. PICK t : t = IF req[c].step = "commit" THEN "pending" ELSE "failed"
    BY Zenon
  <2>3. PICK r : r = [job[j] EXCEPT !.status = t]
    BY Zenon
  <2>4. job \in [Jobs -> JobRows] /\ job[j].status = "absent" /\ TrueReceipts(job[j].receipts)
    BY <1>1, <2>1, Zenon DEF DeletionTypeOK, DeletionInv, Filed, ReceiptsOK
  <2>5. /\ r \in JobRows /\ r.receipts = job[j].receipts
        /\ r.status # "absent" /\ r.status # "succeeded"
    BY <2>2, <2>3, <2>4, Zenon DEF JobRows
  <2>6. job' = [job EXCEPT ![j] = r]
    <3>1. job' = [job EXCEPT ![j].status = t]
      BY <1>4, <2>1, <2>2, Zenon
    <3> QED  BY <2>3, <3>1, Zenon
  <2>7. /\ job' \in [Jobs -> JobRows] /\ job'[j] = r
        /\ \A k \in Jobs \ {j} : job'[k] = job[k]
    BY <2>4, <2>5, <2>6, Zenon
  <2>8. orgRow' \in [status : {"active", "suspended", "cancelled"}, deleted : BOOLEAN]
        /\ (orgRow.deleted => orgRow'.deleted)
    BY <1>1, <1>4, Zenon DEF DeletionTypeOK
  <2>9. Onward
    BY <2>8, OrgOnward, Zenon DEF FinishRequest
  <2>10. RunsOK'
    BY <1>1, <2>4, <2>7, <2>9, RunsStay, Zenon DEF DeletionInv, FinishRequest
  <2>11. ReceiptsOK'
    BY <2>4, <2>5, <2>7, <2>9, TruthStays DEF DeletionInv, ReceiptsOK, TrueReceipts, Complete
  <2>12. Filed'
    BY <1>2, <2>1, <2>7 DEF DeletionInv, Filed, Underway
  <2>13. OneRun' /\ Reported' /\ HoldsOut'
    BY <1>1, <2>4, <2>7
       DEF DeletionInv, DeletionTypeOK, FinishRequest, OneRun, Reported, Complete, HoldsOut
  <2>14. DeletionTypeOK'
    BY <1>1, <1>2, <1>4, <2>7, <2>8, Zenon DEF DeletionTypeOK, FinishRequest
  <2> QED  BY <2>10, <2>11, <2>12, <2>13, <2>14, Zenon DEF DeletionInv
<1> QED  BY <1>3, <1>4, Zenon DEF FinishRequest

\* The suspension of an organisation.
LEMMA SuspendKeeps ==
  ASSUME DeletionAssumption, DeletionInv, SuspendOrg
  PROVE  DeletionInv'
<1>1. DeletionTypeOK
  BY Zenon DEF DeletionInv
<1>2. orgRow' \in [status : {"active", "suspended", "cancelled"}, deleted : BOOLEAN]
      /\ (orgRow.deleted => orgRow'.deleted)
  BY <1>1, Zenon DEF DeletionTypeOK, SuspendOrg
<1>3. DeletionTypeOK'
  BY <1>1, <1>2, Zenon DEF DeletionTypeOK, SuspendOrg
<1>4. Onward
  BY <1>2, OrgOnward, Zenon DEF SuspendOrg
<1> QED  BY <1>3, <1>4, Aside, Zenon DEF SuspendOrg, DeletionInv, HoldsOut

\* A hold is set only when nobody has the advisory lock.
LEMMA HoldKeeps ==
  ASSUME DeletionAssumption, DeletionInv, NEW s \in Scopes, SetHold(s) \/ ClearHold(s)
  PROVE  DeletionInv'
<1>1. Onward
  BY StillOnward, Zenon DEF SetHold, ClearHold
<1>2. DeletionTypeOK'
  BY Zenon DEF DeletionInv, DeletionTypeOK, SetHold, ClearHold
<1>3. advisory # NoWorker => holds' = {}
  BY Zenon DEF DeletionInv, HoldsOut, SetHold, ClearHold
<1> QED  BY <1>1, <1>2, <1>3, Aside, Zenon DEF SetHold, ClearHold

\* ClickHouse, the broker and the operator.
LEMMA EnvironmentKeeps ==
  ASSUME DeletionAssumption, DeletionInv, ApplyMutation \/ RedeliverTask \/ Redeploy
  PROVE  DeletionInv'
<1>1. Onward
  BY StillOnward, Zenon DEF ApplyMutation, RedeliverTask, Redeploy
<1>2. DeletionTypeOK'
  <2>1. DeletionTypeOK /\ mishaps' \in 0 .. MaxMishaps
    BY MishapTyped, Zenon DEF DeletionInv, ApplyMutation, RedeliverTask, Redeploy
  <2>2. ApplyMutation => DeletionTypeOK'
    BY <2>1, Zenon DEF DeletionTypeOK, ApplyMutation
  <2>3. RedeliverTask => DeletionTypeOK'
    <3>1. IdsTaken \subseteq Jobs \cup {0}
      BY <2>1 DEF IdsTaken, DeletionTypeOK, CallRecords
    <3> QED  BY <2>1, <3>1, Zenon DEF DeletionTypeOK, RedeliverTask
  <2>4. Redeploy => DeletionTypeOK'
    BY <2>1, Zenon DEF DeletionTypeOK, Redeploy
  <2> QED  BY <2>2, <2>3, <2>4, Zenon
<1> QED  BY <1>1, <1>2, Aside, Zenon
         DEF ApplyMutation, RedeliverTask, Redeploy, DeletionInv, HoldsOut

\* The steps of a redaction, and its loss.
LEMMA CaptureKeeps ==
  ASSUME DeletionAssumption, DeletionInv, NEW e \in Events, CaptureStep(e) \/ LoseRedaction(e)
  PROVE  DeletionInv'
<1>1. DeletionTypeOK /\ Onward
  BY CaptureOnward, Zenon DEF DeletionInv
<1>2. mishaps' \in 0 .. MaxMishaps
  BY <1>1, MishapTyped, Zenon
     DEF CaptureStep, ApplyMode, PersistRedacted, PutArchiveBlob, SetArchivedTo,
         CompensateUpload, LoseRedaction
<1>3. capture' \in [Events -> Redactions]
  <2>1. ASSUME NEW t \in {"idle", "redact", "upload", "attach", "compensate", "done"},
               NEW r \in BOOLEAN, Capture(e, t, r)
        PROVE  capture' \in [Events -> Redactions]
    <3>1. [step |-> t, row |-> r] \in Redactions
      BY Zenon DEF Redactions
    <3> QED  BY <1>1, <2>1, <3>1, Zenon DEF DeletionTypeOK, Capture
  <2>2. (~orgRow.deleted) \in BOOLEAN /\ capture[e].row \in BOOLEAN
    BY <1>1, Zenon DEF DeletionTypeOK, Redactions
  <2>3. \E t \in {"idle", "redact", "upload", "attach", "compensate", "done"} :
          \E r \in BOOLEAN : Capture(e, t, r)
    BY <2>2, Zenon DEF CaptureStep, ApplyMode, PersistRedacted, PutArchiveBlob, SetArchivedTo,
                CompensateUpload, LoseRedaction
  <2> QED  BY <2>1, <2>3, Zenon
<1>4. objects' \subseteq Archives /\ archived' \subseteq Archives /\ leaked' \subseteq Events
  BY <1>1, Zenon
     DEF DeletionTypeOK, Archives, CaptureStep, ApplyMode, PersistRedacted, PutArchiveBlob,
         SetArchivedTo, CompensateUpload, LoseRedaction
<1>5. UNCHANGED <<orgRow, holds, job, sent, old, mutating, advisory, deployed, req, work, report>>
  BY Zenon DEF CaptureStep, ApplyMode, PersistRedacted, PutArchiveBlob, SetArchivedTo,
         CompensateUpload, LoseRedaction
<1>6. DeletionTypeOK'
  BY <1>1, <1>2, <1>3, <1>4, <1>5, Zenon DEF DeletionTypeOK
<1> QED  BY <1>1, <1>5, <1>6, Aside, Zenon DEF DeletionInv, HoldsOut

\* The two statements of the evidence report; a succeeded job is final.
LEMMA ReportKeeps ==
  ASSUME DeletionAssumption, DeletionInv, ReadJobs \/ ReadReceipts
  PROVE  DeletionInv'
<1>1. DeletionTypeOK /\ Onward
  BY StillOnward, Zenon DEF DeletionInv, ReadJobs, ReadReceipts
<1>2. RunsOK' /\ ReceiptsOK' /\ OneRun' /\ Filed' /\ HoldsOut'
  BY <1>1, RunsStay, RowsStay DEF DeletionInv, ReadJobs, ReadReceipts, OneRun, Filed, HoldsOut
<1>3. CASE ReadJobs
  <2>1. PICK p : p = [report EXCEPT !.jobs = {j \in Jobs : job[j].status = "succeeded"}]
    BY Zenon
  <2>2. /\ p \in [jobs : SUBSET Jobs, shown : SUBSET ReceiptMaps] /\ p.shown = report.shown
        /\ p.jobs = {j \in Jobs : job[j].status = "succeeded"}
    BY <1>1, <2>1, Zenon DEF DeletionTypeOK
  <2>3. report' = p
    BY <1>3, <2>1, Zenon DEF ReadJobs
  <2>4. Reported' /\ DeletionTypeOK'
    BY <1>1, <1>3, <2>2, <2>3 DEF DeletionInv, Reported, Complete, ReadJobs, DeletionTypeOK
  <2> QED  BY <1>2, <2>4, Zenon DEF DeletionInv
<1>4. CASE ReadReceipts
  <2>1. PICK m : m = {job[j].receipts : j \in report.jobs}
    BY Zenon
  <2>2. report' = [jobs |-> {}, shown |-> m]
    BY <1>4, <2>1, Zenon DEF ReadReceipts
  <2>3. report.jobs \in SUBSET Jobs /\ job \in [Jobs -> JobRows]
    BY <1>1, Zenon DEF DeletionTypeOK
  <2>4. m \in SUBSET ReceiptMaps
    BY <2>1, <2>3, Zenon DEF JobRows
  <2>5. \A x \in m : Complete(x)
    BY <2>1, <2>3, Zenon DEF DeletionInv, Reported, ReceiptsOK
  <2>6. Reported'
    BY <2>2, <2>5, Zenon DEF Reported, Complete
  <2>7. DeletionTypeOK'
    <3>1. report' \in [jobs : SUBSET Jobs, shown : SUBSET ReceiptMaps]
      BY <2>2, <2>4
    <3> QED  BY <1>1, <1>4, <3>1, Zenon DEF ReadReceipts, DeletionTypeOK
  <2> QED  BY <1>2, <2>6, <2>7, Zenon DEF DeletionInv
<1> QED  BY <1>3, <1>4, Zenon

-----------------------------------------------------------------------------
\* The invariant holds at the start.
LEMMA DeletionStarts ==
  ASSUME DeletionAssumption, DeletionInit
  PROVE  DeletionInv
<1>1. NoReceipts \in ReceiptMaps /\ TrueReceipts(NoReceipts)
  BY Zenon DEF NoReceipts, ReceiptMaps, TrueReceipts, Stores
<1>2. PICK r : r = [status |-> "absent", receipts |-> NoReceipts, snap |-> NoSnapshot]
  BY Zenon
<1>3. r \in JobRows /\ r.status = "absent" /\ r.receipts = NoReceipts
  BY <1>1, <1>2, Zenon DEF JobRows
<1>4. job \in [Jobs -> JobRows] /\ \A j \in Jobs : job[j] = r
  BY <1>2, <1>3, Zenon DEF DeletionInit
<1>5. work \in [Workers -> Runs] /\ \A w \in Workers : work[w] = Idle
  BY IdleTyped, Zenon DEF DeletionInit
<1>6. PICK active \in Scenarios :
        /\ req = [c \in Callers |-> [step |-> IF c \in active THEN "new" ELSE "none", job |-> 0]]
        /\ capture = [e \in Events |-> [step |-> IF e \in active THEN "idle" ELSE "none",
                                         row |-> FALSE]]
  BY Zenon DEF DeletionInit
<1>7. /\ req \in [Callers -> CallRecords]
      /\ \A c \in Callers : req[c].step \in {"new", "none"} /\ req[c].job = 0
  BY <1>6, Zenon DEF CallRecords
<1>8. capture \in [Events -> Redactions]
  BY <1>6, Zenon DEF Redactions
<1>9. DeletionTypeOK
  <2>1. /\ orgRow \in [status : {"active", "suspended", "cancelled"}, deleted : BOOLEAN]
        /\ report \in [jobs : SUBSET Jobs, shown : SUBSET ReceiptMaps]
        /\ mutating \in BOOLEAN
    BY Zenon DEF DeletionInit
  <2>2. mishaps \in 0 .. MaxMishaps /\ advisory \in Workers \cup {NoWorker}
    BY DEF DeletionInit, DeletionAssumption
  <2>3. /\ holds \subseteq Scopes /\ sent \subseteq Jobs /\ old \subseteq Stores \ {"objectstore"}
        /\ archived \subseteq Archives /\ objects \subseteq Archives
        /\ deployed \in Topologies /\ leaked \subseteq Events
    BY Zenon DEF DeletionInit, Archives
  <2> QED  BY <1>4, <1>5, <1>7, <1>8, <2>1, <2>2, <2>3, Zenon DEF DeletionTypeOK
<1>10. ReceiptsOK
  BY <1>1, <1>3, <1>4, Zenon DEF ReceiptsOK
<1>11. RunsOK /\ OneRun
  BY <1>1, <1>5, IdleTyped, Zenon DEF RunsOK, RunOK, OneRun, Holding, Claimed, Purged, Erasing
<1>12. Filed
  BY <1>3, <1>4, <1>7, Zenon DEF Filed, Underway
<1>13. HoldsOut /\ Reported
  BY Zenon DEF DeletionInit, HoldsOut, Reported
<1> QED  BY <1>9, <1>10, <1>11, <1>12, <1>13, Zenon DEF DeletionInv

\* Every step keeps the invariant.
LEMMA DeletionGoesOn ==
  ASSUME DeletionAssumption, DeletionInv, [DeletionNext]_deletionVars
  PROVE  DeletionInv'
<1>1. CASE UNCHANGED deletionVars
  <2>1. Onward /\ DeletionTypeOK'
    BY <1>1, StillOnward, Zenon DEF DeletionInv, DeletionTypeOK, deletionVars
  <2> QED  BY <1>1, <2>1, Aside, Zenon DEF DeletionInv, HoldsOut, deletionVars
<1>2. CASE \E c \in Callers : CreateJobRow(c) \/ DispatchEnqueue(c) \/ FinishRequest(c)
  BY <1>2, CreateKeeps, DispatchKeeps, FinishKeeps, Zenon
<1>3. CASE \E w \in Workers : DeliverTask(w) \/ SagaStep(w) \/ LoseWorker(w)
  BY <1>3, DeliverKeeps, LoseWorkerKeeps, ClaimKeeps, CheckHoldKeeps, PurgeKeeps, PublishKeeps,
     OptionalStoreKeeps, MutateKeeps, WaitAbsentKeeps, ScanDeleteKeeps, ListObjectsKeeps,
     DeleteListedKeeps, FinalizeKeeps, RecordKeeps, Zenon DEF SagaStep
<1>4. CASE \E e \in Events : CaptureStep(e) \/ LoseRedaction(e)
  BY <1>4, CaptureKeeps, Zenon
<1>5. CASE \/ SuspendOrg \/ ApplyMutation \/ RedeliverTask \/ Redeploy
           \/ ReadJobs \/ ReadReceipts \/ \E s \in Scopes : SetHold(s) \/ ClearHold(s)
  BY <1>5, SuspendKeeps, EnvironmentKeeps, ReportKeeps, HoldKeeps, Zenon
<1> QED  BY <1>1, <1>2, <1>3, <1>4, <1>5, Zenon DEF DeletionNext

\* What the certificate, the archives and the report say follows from the invariant.
LEMMA DeletionHonest ==
  ASSUME DeletionInv
  PROVE  CertificateMeansErased /\ NoArchiveOutlivesCertificate /\ ReportIsConsistent
<1>1. CertificateMeansErased
  BY Zenon DEF DeletionInv, ReceiptsOK, TrueReceipts, CertificateMeansErased
<1>2. NoArchiveOutlivesCertificate
  BY Zenon DEF DeletionInv, ReceiptsOK, TrueReceipts, LeftIn, Doomed, NoArchiveOutlivesCertificate
<1>3. ReportIsConsistent
  BY Zenon DEF DeletionInv, Reported, Complete, ReportIsConsistent
<1> QED  BY <1>1, <1>2, <1>3, Zenon

\* A step that is taken under a hold: whoever erases a store has the advisory lock, and then
\* there is no hold.
HeldStep == holds # {} => /\ old' \cap {"postgres", "redis"} = old \cap {"postgres", "redis"}
                          /\ ~mutating => ~mutating'
                          /\ \A e \in objects \ objects' :
                               e \in Events /\ capture[e].step = "compensate"

\* Every step is such a step.
LEMMA HoldIsKept ==
  ASSUME DeletionAssumption, DeletionInv, [DeletionNext]_deletionVars
  PROVE  HeldStep
<1> SUFFICES ASSUME holds # {}  PROVE HeldStep
  BY Zenon DEF HeldStep
<1>1. \A w \in Workers : work[w].step \notin Erasing
  BY Zenon DEF DeletionInv, HoldsOut, RunsOK, RunOK, DeletionAssumption
<1>2. CASE UNCHANGED <<old, mutating, objects>>
  BY <1>2, Zenon DEF HeldStep
<1>3. ASSUME NEW w \in Workers, DeliverTask(w) \/ SagaStep(w) \/ LoseWorker(w)
      PROVE  UNCHANGED <<old, mutating, objects>>
  <2>1. work[w].step \notin Erasing
    BY <1>1, Zenon
  <2>2. ~PurgePostgres(w) /\ ~MutateClickHouse(w) /\ ~WaitAbsent(w) /\ ~ScanDelete(w)
        /\ ~ListObjects(w) /\ ~DeleteListed(w)
    BY <2>1, Zenon
       DEF Erasing, PurgePostgres, MutateClickHouse, WaitAbsent, ScanDelete, ListObjects,
           DeleteListed
  <2> QED  BY <1>3, <2>2, Zenon DEF SagaStep, DeliverTask, LoseWorker, ClaimDeletionJob, CheckHold,
              PublishInvalidate, RunOptionalStore, FinalizeJob, RecordJobFailed
<1>4. CASE ApplyMutation
  BY <1>4, Zenon DEF ApplyMutation, HeldStep
<1>5. ASSUME NEW e \in Events, CaptureStep(e) \/ LoseRedaction(e)
      PROVE  HeldStep
  BY <1>5, Zenon DEF CaptureStep, ApplyMode, PersistRedacted, PutArchiveBlob, SetArchivedTo,
              CompensateUpload, LoseRedaction, HeldStep
<1>6. ASSUME \/ \E c \in Callers : CreateJobRow(c) \/ DispatchEnqueue(c) \/ FinishRequest(c)
             \/ \E s \in Scopes : SetHold(s) \/ ClearHold(s)
             \/ SuspendOrg \/ RedeliverTask \/ Redeploy \/ ReadJobs \/ ReadReceipts
             \/ UNCHANGED deletionVars
      PROVE  UNCHANGED <<old, mutating, objects>>
  BY <1>6, Zenon DEF CreateJobRow, DispatchEnqueue, FinishRequest, SetHold, ClearHold,
              SuspendOrg, RedeliverTask, Redeploy, ReadJobs, ReadReceipts, deletionVars
<1> QED  BY <1>2, <1>3, <1>4, <1>5, <1>6, Zenon DEF DeletionNext

\* For any number of jobs, workers, callers, redactions and deployed stores, a certificate of
\* deletion, the archives, the evidence report and the legal hold are what they claim to be
\* (org_deletion.py, org_deletion_stores.py, capture_redaction.py, legal_holds.py).
THEOREM DeletionTheorem ==
  ASSUME DeletionAssumption
  PROVE  DeletionSpec => DeletionIsHonest
<1>1. DeletionInit => DeletionInv
  BY DeletionStarts, Zenon
<1>2. DeletionInv /\ [DeletionNext]_deletionVars => DeletionInv'
  BY DeletionGoesOn, Zenon
<1>3. DeletionInv =>
        CertificateMeansErased /\ NoArchiveOutlivesCertificate /\ ReportIsConsistent
  BY DeletionHonest, Zenon
<1>4. DeletionInv /\ [DeletionNext]_deletionVars => [HeldStep]_deletionVars
  BY HoldIsKept, Zenon
<1>5. [][HeldStep]_deletionVars => HoldStopsErasure
  BY PTL DEF HeldStep, HoldStopsErasure
<1> QED  BY <1>1, <1>2, <1>3, <1>4, <1>5, PTL DEF DeletionSpec, DeletionIsHonest

-----------------------------------------------------------------------------
(* The token cache.  The argument does not use the indexes at all: a       *)
(* tombstone outlives what was cached (outlives) and what was running      *)
(* (mustend) when it was set, so an entry that is fresh after a revocation *)
(* was applied is covered by the tombstone, or its writer is still to      *)
(* look at the tombstone.                                                  *)

\* A call that has the answer of the auth service in its hands.
Fetched == {"index", "index_org", "add", "recheck", "undo"}
Places == {"idle", "get", "check", "again", "evict", "upstream"} \cup Fetched

CacheTypes ==
  /\ revoked \subseteq Keys /\ tomb \subseteq Keys /\ applied \subseteq revoked
  /\ lru \in [Tokens -> Entries \cup {None}]
  /\ pc \in [Readers -> Places]
  /\ left \in [Readers -> Seq(Tokens)]
  /\ \A r \in Readers : pc[r] # "idle" => left[r] # <<>>
  /\ began \in [Readers -> SUBSET Keys]
  /\ mustend \in [Readers -> SUBSET Keys]
  /\ told \in [Readers -> Answers \cup {None}]

\* What a request began after is still applied.
BeganApplied == \A r \in Readers : began[r] \subseteq applied

\* A tombstone is there as long as an entry or a call needs it.
TombsStand ==
  /\ \A t \in Tokens : lru[t] # None => lru[t].outlives \subseteq tomb
  /\ \A r \in Readers : mustend[r] \subseteq tomb

\* A call that was answered before a revocation was applied is one its
\* tombstone waits for.
FetchedMustEnd ==
  \A r \in Readers : pc[r] \in Fetched => KeysOf(Token(r)) \cap applied \subseteq mustend[r]

\* An entry that is fresh though revoked is covered, or about to be taken out.
FreshIsCovered ==
  \A t \in Tokens : \A k \in KeysOf(t) \cap applied :
    lru[t] # None /\ lru[t].fresh =>
      \/ k \in lru[t].outlives
      \/ \E r \in Readers : pc[r] \in {"recheck", "undo"} /\ Token(r) = t /\ k \in mustend[r]

\* A lookup that found an entry revoked before it began meets the tombstone.
LookupMeetsTomb ==
  \A r \in Readers : pc[r] \in {"check", "again"} => KeysOf(Token(r)) \cap began[r] \subseteq tomb

CacheInv ==
  /\ CacheTypes /\ BeganApplied /\ TombsStand /\ FetchedMustEnd /\ FreshIsCovered
  /\ LookupMeetsTomb /\ RevokedIsNotServed

\* The token of a call at work is one of Tokens.
LEMMA TokenType ==
  ASSUME CacheTypes, NEW r \in Readers, pc[r] # "idle" PROVE Token(r) \in Tokens
BY DEF CacheTypes, Token

\* The first state.
LEMMA CacheFirst == ASSUME TokenAssumption, Init PROVE CacheInv
<1> USE DEF Init, TokenAssumption
<1>1. CacheTypes
  BY Zenon DEF CacheTypes, Places
<1> QED BY <1>1, Zenon
           DEF CacheInv, BeganApplied, TombsStand, FetchedMustEnd, FreshIsCovered,
                    LookupMeetsTomb, RevokedIsNotServed, Fetched

\* A step that leaves the LRU, the tombstones, the applied keys and the calls alone.
LEMMA OutsideKeeps ==
  ASSUME CacheInv, UNCHANGED <<lru, tomb, applied, calls>>, applied \subseteq revoked', revoked' \subseteq Keys
  PROVE  CacheInv'
BY Zenon
   DEF CacheInv, CacheTypes, BeganApplied, TombsStand, FetchedMustEnd, FreshIsCovered,
       LookupMeetsTomb, RevokedIsNotServed, calls, Token, KeysOf, Keys

\* The organisation is active again.
LEMMA ReactivateKeeps == ASSUME CacheInv, Reactivate PROVE CacheInv'
<1> USE DEF Reactivate, cache, CacheInv
<1>1. CacheTypes'
  BY Zenon DEF CacheTypes
<1>2. BeganApplied' /\ TombsStand' /\ LookupMeetsTomb' /\ RevokedIsNotServed'
  BY Zenon
     DEF CacheTypes, BeganApplied, TombsStand, LookupMeetsTomb, RevokedIsNotServed, Token
<1>3. FetchedMustEnd' /\ FreshIsCovered'
  BY Zenon DEF CacheTypes, FetchedMustEnd, FreshIsCovered, Token
<1> QED BY <1>1, <1>2, <1>3, Zenon

\* The subscriber applies a revocation.
LEMMA RevokeKeeps == ASSUME TokenAssumption, CacheInv, NEW k \in Keys, Revoke(k) PROVE CacheInv'
<1> USE DEF Revoke, CacheInv
<1>1. \A t \in Tokens :
        lru'[t] = IF lru[t] # None /\ lru[t].fresh /\ k \in KeysOf(t)
                  THEN [lru[t] EXCEPT !.outlives = @ \cup {k}] ELSE lru[t]
  OBVIOUS
<1>2. \A t \in Tokens : /\ lru'[t] # None <=> lru[t] # None
                        /\ lru'[t] \in Entries \cup {None}
                        /\ lru[t] # None => /\ lru'[t].fresh = lru[t].fresh
                                            /\ lru[t].outlives \subseteq lru'[t].outlives
                                            /\ lru'[t].outlives \subseteq lru[t].outlives \cup {k}
                                            /\ lru[t].fresh /\ k \in KeysOf(t) => k \in lru'[t].outlives
  <2> TAKE t \in Tokens
  <2>1. lru[t] \in Entries \cup {None}
    BY Zenon DEF CacheTypes
  <2>2. CASE lru[t] = None
    BY <1>1, <2>2, Zenon
  <2>3. CASE lru[t] # None /\ lru[t].fresh /\ k \in KeysOf(t)
    <3>1. lru[t] \in Entries /\ lru'[t] = [lru[t] EXCEPT !.outlives = @ \cup {k}]
      BY <1>1, <2>1, <2>3, Zenon
    <3>2. /\ lru'[t] \in Entries
          /\ lru'[t].fresh = lru[t].fresh
          /\ lru'[t].outlives = lru[t].outlives \cup {k}
      BY <3>1, Zenon DEF Entries
    <3>3. lru'[t] # None
      BY <3>2, Zenon DEF TokenAssumption
    <3> QED BY <2>3, <3>2, <3>3, Zenon
  <2>4. CASE lru[t] # None /\ ~(lru[t].fresh /\ k \in KeysOf(t))
    BY <1>1, <2>1, <2>4, Zenon
  <2> QED BY <2>2, <2>3, <2>4, Zenon
<1>3. CacheTypes'
  BY <1>2 DEF CacheTypes
<1>4. BeganApplied' /\ LookupMeetsTomb' /\ RevokedIsNotServed'
  BY Zenon DEF BeganApplied, LookupMeetsTomb, RevokedIsNotServed, Token
<1>5. TombsStand'
  BY <1>2, Zenon DEF TombsStand, CacheTypes
<1>6. FetchedMustEnd'
  BY Zenon DEF FetchedMustEnd, CacheTypes, Fetched, Token
<1>7. FreshIsCovered'
  BY <1>2, ZenonT(30) DEF FreshIsCovered, CacheTypes, Token
<1> QED BY <1>3, <1>4, <1>5, <1>6, <1>7, Zenon

\* A tombstone ends.
LEMMA LapseKeeps == ASSUME CacheInv, NEW k \in Keys, LapseTomb(k) PROVE CacheInv'
<1> USE DEF LapseTomb, CacheInv, calls
<1>1. CacheTypes' /\ BeganApplied' /\ FetchedMustEnd' /\ RevokedIsNotServed'
  BY Zenon
     DEF CacheTypes, BeganApplied, FetchedMustEnd, RevokedIsNotServed, Token, store
<1>2. TombsStand' /\ LookupMeetsTomb'
  BY Zenon DEF TombsStand, LookupMeetsTomb, Token
<1>3. FreshIsCovered'
  BY Zenon DEF FreshIsCovered, Token
<1> QED BY <1>1, <1>2, <1>3, Zenon

\* An entry is no longer fresh.
LEMMA ExpireKeeps == ASSUME TokenAssumption, CacheInv, NEW t \in Tokens, Expire(t) PROVE CacheInv'
<1> USE DEF Expire, CacheInv, calls, store
<1>1. [fresh |-> FALSE, outlives |-> {}] \in Entries
  BY Zenon DEF Entries
<1>2. CacheTypes' /\ BeganApplied' /\ FetchedMustEnd' /\ LookupMeetsTomb' /\ RevokedIsNotServed'
  BY <1>1, Zenon
     DEF CacheTypes, BeganApplied, FetchedMustEnd, LookupMeetsTomb, RevokedIsNotServed, Token
<1>3. TombsStand' /\ FreshIsCovered'
  BY DEF CacheTypes, TombsStand, FreshIsCovered, Token
<1> QED BY <1>2, <1>3, Zenon

\* Entries only go.
EntriesOnlyGo ==
  /\ lru' \in [Tokens -> Entries \cup {None}]
  /\ \A t \in Tokens : lru'[t] # None => lru'[t] = lru[t]

\* An eviction takes one entry.
LEMMA EvictedGoes ==
  ASSUME CacheTypes, NEW t \in Tokens, Evicted(t) PROVE EntriesOnlyGo /\ lru'[t] = None
BY Zenon DEF CacheTypes, Evicted, EntriesOnlyGo

\* The subscriber drops an entry of the index it took.
LEMMA DropKeeps ==
  ASSUME TokenAssumption, CacheInv, NEW t \in Tokens, DropCachedHash(t) PROVE CacheInv'
<1> USE DEF DropCachedHash, CacheInv, calls, store
<1>1. EntriesOnlyGo
  BY EvictedGoes, Zenon DEF EntriesOnlyGo, CacheTypes
<1>2. CacheTypes' /\ BeganApplied' /\ FetchedMustEnd' /\ LookupMeetsTomb' /\ RevokedIsNotServed'
  BY <1>1, Zenon
     DEF EntriesOnlyGo, CacheTypes, BeganApplied, FetchedMustEnd, LookupMeetsTomb,
              RevokedIsNotServed, Token
<1>3. TombsStand' /\ FreshIsCovered'
  BY <1>1, Zenon DEF EntriesOnlyGo, TombsStand, FreshIsCovered, Token
<1> QED BY <1>2, <1>3, Zenon

\* A call goes on.  It gets an upstream answer only for keys not revoked, finds
\* an entry only under its tombstones, and goes from the second look at the
\* tombstones only to the removal.
LEMMA GotoKeeps ==
  ASSUME CacheInv, NEW r \in Readers, pc[r] # "idle", NEW at \in Places \ {"idle"}, Goto(r, at),
         UNCHANGED <<revoked, tomb, applied>>, EntriesOnlyGo,
         at \in Fetched => pc[r] \in Fetched \/ KeysOf(Token(r)) \cap applied = {},
         at \in {"check", "again"} => KeysOf(Token(r)) \cap began[r] \subseteq tomb,
         pc[r] \in {"recheck", "undo"} => at = "undo"
  PROVE  CacheInv'
<1> USE DEF Goto, CacheInv, EntriesOnlyGo
<1>1. CacheTypes' /\ BeganApplied' /\ TombsStand' /\ RevokedIsNotServed'
  BY Zenon DEF CacheTypes, BeganApplied, TombsStand, RevokedIsNotServed
<1>2. FetchedMustEnd' /\ LookupMeetsTomb'
  BY Zenon DEF CacheTypes, FetchedMustEnd, LookupMeetsTomb, Token
<1>3. FreshIsCovered'
  BY Zenon DEF CacheTypes, FreshIsCovered, Token
<1> QED BY <1>1, <1>2, <1>3, Zenon

\* A call ends.
LEMMA AnswerKeeps ==
  ASSUME TokenAssumption, CacheInv, NEW r \in Readers, pc[r] # "idle",
         NEW a \in {"cache", "upstream", "refused"}, Answer(r, a),
         UNCHANGED <<revoked, tomb, applied>>, EntriesOnlyGo,
         a = "cache" => KeysOf(Token(r)) \cap began[r] = {},
         pc[r] \in {"recheck", "undo"} =>
           lru'[Token(r)] = None \/ KeysOf(Token(r)) \cap mustend[r] = {}
  PROVE  CacheInv'
<1> USE DEF Answer, CacheInv, EntriesOnlyGo
<1>1. Token(r) \in Tokens
  BY TokenType, Zenon
<1>2. Tail(left[r]) \in Seq(Tokens)
  BY DEF CacheTypes
<1>3. CacheTypes'
  BY <1>1, <1>2, Zenon DEF CacheTypes, Places, Answers
<1>4. BeganApplied' /\ TombsStand'
  BY Zenon DEF CacheTypes, BeganApplied, TombsStand
<1>5. \A s \in Readers \ {r} : /\ pc'[s] = pc[s] /\ left'[s] = left[s] /\ told'[s] = told[s]
                               /\ began'[s] = began[s] /\ mustend'[s] = mustend[s]
  BY Zenon DEF CacheTypes
<1>6. pc'[r] = "idle"
  BY Zenon DEF CacheTypes
<1>7. FetchedMustEnd' /\ LookupMeetsTomb'
  BY <1>5, <1>6, Zenon DEF FetchedMustEnd, LookupMeetsTomb, Token, Fetched
<1>8. RevokedIsNotServed'
  BY <1>5 DEF CacheTypes, RevokedIsNotServed
<1>9. FreshIsCovered'
  <2> SUFFICES ASSUME NEW t \in Tokens, NEW k \in KeysOf(t) \cap applied, lru'[t] # None, lru'[t].fresh
               PROVE  \/ k \in lru'[t].outlives
                      \/ \E s \in Readers : pc'[s] \in {"recheck", "undo"} /\ Token(s)' = t /\ k \in mustend'[s]
    BY Zenon DEF FreshIsCovered
  <2>1. CASE k \in lru[t].outlives
    BY <2>1, Zenon
  <2>2. ASSUME NEW s \in Readers, pc[s] \in {"recheck", "undo"}, Token(s) = t, k \in mustend[s]
        PROVE  pc'[s] \in {"recheck", "undo"} /\ Token(s)' = t /\ k \in mustend'[s]
    <3>1. s # r
      BY <2>2, Zenon
    <3> QED BY <2>2, <3>1, <1>5, Zenon DEF Token
  <2> QED BY <2>1, <2>2, Zenon DEF FreshIsCovered
<1> QED BY <1>3, <1>4, <1>7, <1>8, <1>9, Zenon

\* A request begins; it begins after what is applied now.
LEMMA ValidateKeeps == ASSUME CacheInv, NEW r \in Readers, Validate(r) PROVE CacheInv'
<1> USE DEF Validate, CacheInv, cache, store
<1>1. PICK at \in {"upstream", "get"} : pc' = [pc EXCEPT ![r] = at]
  BY Zenon
<1>2. CacheTypes'
  BY <1>1, Zenon DEF CacheTypes, Places
<1>3. BeganApplied' /\ TombsStand' /\ RevokedIsNotServed'
  BY Zenon DEF CacheTypes, BeganApplied, TombsStand, RevokedIsNotServed
<1>4. FetchedMustEnd' /\ LookupMeetsTomb' /\ FreshIsCovered'
  BY <1>1
     DEF CacheTypes, FetchedMustEnd, LookupMeetsTomb, FreshIsCovered, Fetched, Token
<1> QED BY <1>2, <1>3, <1>4, Zenon

\* A fresh entry whose keys were revoked before the request began is under a tombstone.
LEMMA FreshMeetsTomb ==
  ASSUME CacheInv, NEW r \in Readers, pc[r] # "idle", lru[Token(r)] # None, lru[Token(r)].fresh
  PROVE  KeysOf(Token(r)) \cap began[r] \subseteq tomb
<1>1. Token(r) \in Tokens
  BY TokenType, Zenon DEF CacheInv
<1> SUFFICES ASSUME NEW k \in KeysOf(Token(r)) \cap began[r] PROVE k \in tomb
  OBVIOUS
<1>2. k \in applied
  BY Zenon DEF CacheInv, BeganApplied
<1> QED BY <1>1, <1>2, Zenon DEF CacheInv, FreshIsCovered, TombsStand

\* The lookup.
LEMMA LruGetKeeps == ASSUME CacheInv, NEW r \in Readers, LruGet(r) PROVE CacheInv'
<1> USE DEF LruGet, store
<1>1. EntriesOnlyGo
  BY Zenon DEF CacheInv, CacheTypes, EntriesOnlyGo
<1>2. CASE lru[Token(r)] # None /\ lru[Token(r)].fresh
  <2>1. Goto(r, "check")
    BY <1>2, Zenon
  <2> QED BY <1>1, <1>2, <2>1, FreshMeetsTomb, GotoKeeps, Zenon DEF Places, Fetched
<1>3. CASE ~(lru[Token(r)] # None /\ lru[Token(r)].fresh)
  <2>1. PICK at \in {"evict", "upstream"} : Goto(r, at)
    BY <1>3, Zenon
  <2> QED BY <1>1, <2>1, GotoKeeps, Zenon DEF Places, Fetched
<1> QED BY <1>2, <1>3, Zenon

\* The two looks at the tombstones before an answer from the cache.
LEMMA CheckKeeps == ASSUME TokenAssumption, CacheInv, NEW r \in Readers, CheckEntry(r) PROVE CacheInv'
<1> USE DEF CheckEntry, store, cache
<1>1. EntriesOnlyGo
  BY Zenon DEF CacheInv, CacheTypes, EntriesOnlyGo
<1>2. KeysOf(Token(r)) \cap began[r] \subseteq tomb
  BY Zenon DEF CacheInv, LookupMeetsTomb
<1>3. CASE \E at \in {"evict", "again"} : Goto(r, at)
  BY <1>1, <1>2, <1>3, GotoKeeps, Zenon DEF Places, Fetched
<1>4. CASE pc[r] = "again" /\ ~CacheBlocked(Token(r)) /\ Answer(r, "cache")
  <2>1. KeysOf(Token(r)) \cap began[r] = {}
    BY <1>2, <1>4, Zenon DEF CacheBlocked
  <2> QED BY <1>1, <1>4, <2>1, AnswerKeeps, Zenon
<1> QED BY <1>3, <1>4, Zenon

\* The removal, in a lookup and after an insertion.
LEMMA EvictKeeps == ASSUME TokenAssumption, CacheInv, NEW r \in Readers, EvictRevoked(r) PROVE CacheInv'
<1> USE DEF EvictRevoked, store
<1>1. Token(r) \in Tokens
  BY TokenType, Zenon DEF CacheInv
<1>2. EntriesOnlyGo /\ lru'[Token(r)] = None
  BY <1>1, EvictedGoes, Zenon DEF CacheInv
<1>3. CASE pc[r] = "evict"
  BY <1>2, <1>3, GotoKeeps, Zenon DEF Places, Fetched
<1>4. CASE pc[r] = "undo"
  BY <1>2, <1>4, AnswerKeeps, Zenon
<1> QED BY <1>3, <1>4, Zenon

\* The auth service answers.
LEMMA FetchKeeps == ASSUME TokenAssumption, CacheInv, NEW r \in Readers, FetchUpstream(r) PROVE CacheInv'
<1> USE DEF FetchUpstream, store
<1>1. EntriesOnlyGo
  BY Zenon DEF CacheInv, CacheTypes, EntriesOnlyGo
<1>2. CASE Answer(r, "refused")
  BY <1>1, <1>2, AnswerKeeps, Zenon
<1>3. CASE KeysOf(Token(r)) \cap revoked = {} /\ Goto(r, "index")
  <2>1. KeysOf(Token(r)) \cap applied = {}
    BY <1>3, Zenon DEF CacheInv, CacheTypes
  <2> QED BY <1>1, <1>3, <2>1, GotoKeeps, Zenon DEF Places, Fetched
<1> QED BY <1>2, <1>3, Zenon

\* The entries of the indexes.
LEMMA IndexKeeps ==
  ASSUME TokenAssumption, CacheInv, NEW r \in Readers, IndexToken(r) \/ IndexOrg(r) PROVE CacheInv'
<1> USE DEF IndexToken, IndexOrg, store
<1>1. EntriesOnlyGo
  BY Zenon DEF CacheInv, CacheTypes, EntriesOnlyGo
<1>2. CASE Answer(r, "upstream")
  BY <1>1, <1>2, AnswerKeeps, Zenon
<1>3. CASE \E at \in {"index_org", "add"} : Goto(r, at)
  BY <1>1, <1>3, GotoKeeps, Zenon DEF Places, Fetched
<1> QED BY <1>2, <1>3, Zenon

\* The entry itself: its writer is from then on the one who covers it.
LEMMA AddKeeps == ASSUME TokenAssumption, CacheInv, NEW r \in Readers, AddEntry(r) PROVE CacheInv'
<1> USE DEF AddEntry, Goto, CacheInv, store
<1> DEFINE t == Token(r)
           new == [fresh |-> TRUE, outlives |-> {}]
<1>1. t \in Tokens
  BY TokenType, Zenon
<1>2. new \in Entries /\ new.fresh /\ new.outlives = {}
  BY Zenon DEF Entries
<1>3. /\ lru' \in [Tokens -> Entries \cup {None}]
      /\ lru'[t] = new
      /\ \A y \in Tokens \ {t} : lru'[y] # None => lru'[y] = lru[y]
  BY <1>1, <1>2, Zenon DEF LruAdd, CacheTypes
<1> HIDE DEF new
<1>4. CacheTypes' /\ BeganApplied' /\ RevokedIsNotServed'
  BY <1>3, Zenon DEF CacheTypes, Places, Fetched, BeganApplied, RevokedIsNotServed
<1>5. TombsStand'
  BY <1>2, <1>3, Zenon DEF TombsStand
<1>6. FetchedMustEnd' /\ LookupMeetsTomb'
  BY Zenon DEF CacheTypes, FetchedMustEnd, LookupMeetsTomb, Token, Fetched
<1>7. FreshIsCovered'
  <2> SUFFICES ASSUME NEW y \in Tokens, NEW k \in KeysOf(y) \cap applied, lru'[y] # None, lru'[y].fresh
               PROVE  \/ k \in lru'[y].outlives
                      \/ \E s \in Readers : pc'[s] \in {"recheck", "undo"} /\ Token(s)' = y /\ k \in mustend'[s]
    BY Zenon DEF FreshIsCovered
  <2>1. CASE y = t
    <3>1. k \in mustend[r]
      BY <2>1, Zenon DEF FetchedMustEnd, Fetched
    <3> QED BY <2>1, <3>1, Zenon DEF CacheTypes, Token
  <2>2. CASE y # t
    <3>1. lru'[y] = lru[y]
      BY <1>3, <2>2, Zenon
    <3> QED BY <3>1, Zenon DEF FreshIsCovered, CacheTypes, Token
  <2> QED BY <2>1, <2>2, Zenon
<1> QED BY <1>4, <1>5, <1>6, <1>7, Zenon

\* The look at the tombstones after the insertion.
LEMMA RecheckKeeps == ASSUME TokenAssumption, CacheInv, NEW r \in Readers, RecheckEntry(r) PROVE CacheInv'
<1> USE DEF RecheckEntry, store, cache
<1>1. EntriesOnlyGo
  BY Zenon DEF CacheInv, CacheTypes, EntriesOnlyGo
<1>2. CASE BlockedAfterAdd(Token(r))
  BY <1>1, <1>2, GotoKeeps, Zenon DEF Places, Fetched
<1>3. CASE ~BlockedAfterAdd(Token(r))
  <2>1. KeysOf(Token(r)) \cap mustend[r] = {}
    BY <1>3, Zenon DEF BlockedAfterAdd, CacheBlocked, CacheInv, TombsStand
  <2> QED BY <1>1, <1>3, <2>1, AnswerKeeps, Zenon
<1> QED BY <1>2, <1>3, Zenon

\* Every step of the cache preserves the invariant.
LEMMA CacheStep == ASSUME TokenAssumption, CacheInv, [Next]_vars PROVE CacheInv'
<1>1. CASE UNCHANGED vars
  BY <1>1, OutsideKeeps, Zenon DEF vars, store, cache, CacheInv, CacheTypes
<1>2. CASE \/ \E t \in Tokens : RevokeToken(t) \/ RotateBloom(t)
           \/ SuspendOrganization \/ PublishOrgSuspend
           \/ \E k \in Keys : LoseMessage(k)
  <2>1. UNCHANGED <<lru, tomb, applied, calls>> /\ revoked \subseteq revoked' /\ revoked' \subseteq Keys
    BY <1>2, Zenon
       DEF RevokeToken, RotateBloom, SuspendOrganization, PublishOrgSuspend, LoseMessage,
                store, cache, calls, CacheInv, CacheTypes, Keys
  <2> QED BY <2>1, OutsideKeeps, Zenon DEF CacheInv, CacheTypes
<1> QED BY <1>1, <1>2, ReactivateKeeps, RevokeKeeps, LapseKeeps, ExpireKeeps, DropKeeps, ValidateKeeps,
           LruGetKeeps, CheckKeeps, EvictKeeps, FetchKeeps, IndexKeeps, AddKeeps, RecheckKeeps, Zenon DEF Next

\* Once a revocation was applied, no request that begins later is answered from
\* the cache, for any number of requests, tokens, faults and any capacity
\* (validator.go, revocation subscriber).
THEOREM RevokedTheorem == ASSUME TokenAssumption PROVE Spec => []RevokedIsNotServed
<1>1. CacheInv => RevokedIsNotServed
  BY Zenon DEF CacheInv
<1> QED BY <1>1, CacheFirst, CacheStep, PTL DEF Spec
=============================================================================
