----------------------------- MODULE PoolProofs -----------------------------
(***************************************************************************)
(* Proofs about the circuit breaker of the MCP servers (AuthBreaker), the  *)
(* pool that runs the proxy's work after a response (AsyncPool), and the   *)
(* way of buffered turns to an extraction task (ExtractionFlow). They      *)
(* share no state; each theorem is about one of them, for any number of    *)
(* callers, jobs, workers and processes.                                   *)
(***************************************************************************)
EXTENDS AuthBreaker, AsyncPool, ExtractionFlow, FiniteSetTheorems, TLAPS

-----------------------------------------------------------------------------
(* The breaker.  OneProbe is not inductive: a second probe is refused      *)
(* because the reservation is held, so the invariant ties the two.         *)

BreakerInv ==
  /\ BreakerTypeOK
  /\ \A c, d \in Calls : val[c] = "probing" /\ val[d] = "probing" => c = d
  /\ reserved <=> \E c \in Calls : val[c] = "probing"
  /\ CancelTrips /\ breaker = "half_open" => reserved

\* A caller that enters (_reserve_or_reject).
LEMMA ReserveKeeps ==
  ASSUME BreakerAssumption, BreakerInv, NEW c \in Calls, ReserveOrReject(c)
  PROVE  BreakerInv'
<1>1. CASE ReserveProbe(c)
  BY <1>1, Zenon
     DEF BreakerInv, BreakerTypeOK, ReserveOrReject, ReserveProbe, MayProbe, Outcomes
<1>2. CASE PassClosed(c)
  BY <1>2, Zenon DEF BreakerInv, BreakerTypeOK, ReserveOrReject, PassClosed, Outcomes
<1>3. CASE RejectCall(c)
  BY <1>3, Zenon DEF BreakerInv, BreakerTypeOK, ReserveOrReject, RejectCall, Outcomes
<1> QED BY <1>1, <1>2, <1>3, Zenon DEF ReserveOrReject

\* A call that leaves, by whatever outcome, gives its reservation back.
LEMMA LeaveKeeps ==
  ASSUME BreakerAssumption, BreakerInv, NEW c \in Calls, InFlight(c), ReleaseProbe(c),
         NEW o \in Outcomes \cup {"cancelled"}, val' = [val EXCEPT ![c] = o],
         breaker' \in {"closed", "open", "half_open"}, fails' \in 0..Threshold, cooled' \in BOOLEAN,
         CancelTrips => breaker' # "half_open"
  PROVE  BreakerInv'
<1>1. BreakerTypeOK'
  BY Zenon DEF BreakerInv, BreakerTypeOK, ReleaseProbe, Outcomes
<1>2. \A d \in Calls : val'[d] = "probing" <=> d # c /\ val[d] = "probing"
  BY Zenon DEF BreakerInv, BreakerTypeOK, Outcomes
<1>3. reserved' <=> \E d \in Calls : val'[d] = "probing"
  BY <1>2, Zenon DEF BreakerInv, ReleaseProbe
<1> QED BY <1>1, <1>2, <1>3, Zenon DEF BreakerInv

\* Every step of the breaker preserves the invariant.
LEMMA BreakerStep ==
  ASSUME BreakerAssumption, BreakerInv, [BreakerNext]_breakerVars
  PROVE  BreakerInv'
<1>1. CASE UNCHANGED breakerVars
  BY <1>1, Zenon DEF breakerVars, BreakerInv, BreakerTypeOK
<1>2. ASSUME NEW c \in Calls, ReserveOrReject(c) PROVE BreakerInv'
  BY <1>2, ReserveKeeps, Zenon
<1>3. ASSUME NEW c \in Calls, NEW o \in Outcomes, ValidateReturns(c, o) PROVE BreakerInv'
  <2>1. InFlight(c) /\ ReleaseProbe(c) /\ val' = [val EXCEPT ![c] = o]
    BY <1>3, Zenon DEF ValidateReturns
  <2>2. OnSuccess \/ OnUnavailable \/ TripOpenIfHalfOpen
    BY <1>3, Zenon DEF ValidateReturns, Outcomes
  <2>3. /\ breaker' \in {"closed", "open"}
        /\ fails' \in 0..Threshold /\ cooled' \in BOOLEAN
    <3> USE DEF BreakerAssumption, BreakerInv, BreakerTypeOK
    <3>1. CASE OnSuccess
      BY <3>1 DEF OnSuccess
    <3>2. CASE OnUnavailable
      <4>1. fails' \in 0..Threshold
        BY <3>2 DEF OnUnavailable
      <4>2. breaker' \in {"closed", "open"} /\ cooled' \in BOOLEAN
        BY <3>2, Zenon DEF OnUnavailable, TripOpen
      <4> QED BY <4>1, <4>2, Zenon
    <3>3. CASE TripOpenIfHalfOpen
      BY <3>3, Zenon DEF TripOpenIfHalfOpen, TripOpen
    <3> QED BY <2>2, <3>1, <3>2, <3>3, Zenon
  <2> QED BY <2>1, <2>3, LeaveKeeps, Zenon
<1>4. ASSUME NEW c \in Calls, ValidateCancelled(c) PROVE BreakerInv'
  BY <1>4, LeaveKeeps, Zenon
  DEF ValidateCancelled, OnCancel, TripOpenIfHalfOpen, TripOpen,
      BreakerAssumption, BreakerInv, BreakerTypeOK
<1>5. CASE CoolDown
  BY <1>5, Zenon DEF CoolDown, BreakerInv, BreakerTypeOK
<1> QED BY <1>1, <1>2, <1>3, <1>4, <1>5, Zenon DEF BreakerNext

\* At most one caller probes, and a half-open breaker that trips on a
\* cancelled probe has one, for any number of callers and any threshold.
THEOREM ProbesTheorem == ASSUME BreakerAssumption PROVE BreakerSpec => []ProbesAreSingle
<1>1. BreakerInit => BreakerInv
  <2>1. 0 \in 0..Threshold
    BY DEF BreakerAssumption
  <2> QED BY <2>1, Zenon DEF BreakerInit, BreakerInv, BreakerTypeOK
<1>2. BreakerInv => ProbesAreSingle
  <2> SUFFICES ASSUME BreakerInv PROVE ProbesAreSingle
    OBVIOUS
  <2> DEFINE probing == {c \in Calls : val[c] = "probing"}
  <2>1. CASE probing = {}
    BY <2>1, FS_EmptySet DEF ProbesAreSingle, OneProbe, HalfOpenHasProbe, BreakerInv
  <2>2. ASSUME NEW c \in probing PROVE ProbesAreSingle
    <3>1. probing = {c}
      BY <2>2, Zenon DEF BreakerInv
    <3>2. Cardinality(probing) = 1
      BY <3>1, FS_Singleton, Zenon
    <3> QED BY <2>2, <3>2 DEF ProbesAreSingle, OneProbe, HalfOpenHasProbe
  <2> QED BY <2>1, <2>2, Zenon
<1> QED BY <1>1, <1>2, BreakerStep, PTL DEF BreakerSpec

-----------------------------------------------------------------------------
(* The pool.  NoSendAfterClose needs that submitting counts the submitters *)
(* between beginSubmit and its end (Counted); AcceptedRunsOnce needs that  *)
(* a job is in at most one place (Placed); DrainedMeansDone needs both,    *)
(* and that a worker exits only after the last send (Ended).               *)

Between == {"begun", "sending", "dropping", "sent", "dropped"}
Active == {j \in Jobs : sub[j] \in Between}
Queued(j) == \E i \in 1..Len(jobs) : jobs[i] = j
With(w, j) == worker[w] = j

PoolTypes ==
  /\ jobs \in Seq(Jobs)
  /\ open \in BOOLEAN /\ closed \in BOOLEAN
  /\ sub \in [Jobs -> Between \cup {"new", "accepted", "refused"}]
  /\ runs \in [Jobs -> {0, 1}]
  /\ worker \in [Workers -> Jobs \cup {NoJob, "exited"}]
  /\ closer \in {"off", "waiting", "draining", "drained"}
  /\ caller \in [Stoppers -> {"off", "waiting", "drained", "timeout"}]

Counted == IsFiniteSet(Active) /\ submitting = Cardinality(Active)

Closing == /\ closed <=> closer # "off"
           /\ open <=> closer \in {"off", "waiting"}
           /\ ~open => Active = {}

\* A job is nowhere, or in one place of the queue, or with one worker, or run.
Placed ==
  /\ \A i, k \in 1..Len(jobs) : jobs[i] = jobs[k] => i = k
  /\ \A v, w \in Workers : worker[v] \in Jobs /\ worker[v] = worker[w] => v = w
  /\ \A j \in Jobs : Queued(j) => runs[j] = 0 /\ \A w \in Workers : ~With(w, j)
  /\ \A j \in Jobs, w \in Workers : With(w, j) => runs[j] = 0
  /\ \A j \in Jobs : sub[j] \in {"sent", "accepted"} <=>
       Queued(j) \/ (\E w \in Workers : With(w, j)) \/ runs[j] = 1

Ended == /\ \A w \in Workers : worker[w] = "exited" => ~open /\ jobs = <<>>
         /\ closer = "drained" => AllExited
         /\ \A c \in Stoppers : caller[c] = "drained" => closer = "drained"

PoolInv == PoolTypes /\ Counted /\ Closing /\ Placed /\ Ended

-----------------------------------------------------------------------------
(* The count of submitters.                                                *)

\* A submitter comes in.
LEMMA CountUp ==
  ASSUME Counted, NEW j \in Jobs, sub[j] \notin Between, sub \in [Jobs -> Between \cup {"new", "accepted", "refused"}],
         NEW to \in Between, SubGoto(j, to), submitting' = submitting + 1
  PROVE  Counted'
<1>1. j \notin Active /\ Active' = Active \cup {j}
  BY Zenon DEF Active, SubGoto
<1> QED BY <1>1, FS_AddElement, Zenon DEF Counted

\* A submitter is done.
LEMMA CountDown ==
  ASSUME Counted, NEW j \in Jobs, sub[j] \in Between, sub \in [Jobs -> Between \cup {"new", "accepted", "refused"}],
         NEW to \in {"accepted", "refused"}, SubGoto(j, to), submitting' = submitting - 1
  PROVE  Counted' /\ Active' \subseteq Active
<1>1. j \in Active /\ Active' = Active \ {j}
  BY Zenon DEF Active, SubGoto, Between
<1> QED BY <1>1, FS_RemoveElement, Zenon DEF Counted

\* A submitter goes on, or was refused at once.
LEMMA CountSame ==
  ASSUME Counted, NEW j \in Jobs, sub \in [Jobs -> Between \cup {"new", "accepted", "refused"}],
         NEW to, SubGoto(j, to), sub[j] \in Between <=> to \in Between, UNCHANGED submitting
  PROVE  Counted' /\ Active' = Active
<1>1. Active' = Active
  BY Zenon DEF Active, SubGoto
<1> QED BY <1>1, Zenon DEF Counted

-----------------------------------------------------------------------------
(* The places of a job.                                                    *)

\* A job not sent yet is nowhere.
LEMMA NotSentIsNowhere ==
  ASSUME PoolInv, NEW j \in Jobs, sub[j] \notin {"sent", "accepted"}
  PROVE  ~Queued(j) /\ runs[j] = 0 /\ \A w \in Workers : ~With(w, j)
BY DEF PoolInv, PoolTypes, Placed

\* What a send does.
LEMMA SendPlaces ==
  ASSUME PoolInv, NEW j \in Jobs, sub[j] \notin {"sent", "accepted"},
         jobs' = Append(jobs, j), NEW to \in {"sent", "accepted"}, SubGoto(j, to), UNCHANGED <<runs, worker>>
  PROVE  jobs' \in Seq(Jobs) /\ Placed'
<1>1. /\ jobs' \in Seq(Jobs) /\ Len(jobs') = Len(jobs) + 1 /\ Len(jobs) \in Nat
      /\ \A i \in 1..Len(jobs) : jobs'[i] = jobs[i]
      /\ jobs'[Len(jobs) + 1] = j
  BY SMT DEF PoolInv, PoolTypes
<1>2. \A i \in 1..Len(jobs') : i \in 1..Len(jobs) \/ i = Len(jobs) + 1
  BY <1>1
<1>3. \A x \in Jobs : Queued(x)' <=> Queued(x) \/ x = j
  BY <1>1, <1>2 DEF Queued
<1>4. \A x \in Jobs : sub'[x] = IF x = j THEN to ELSE sub[x]
  BY Zenon DEF SubGoto, PoolInv, PoolTypes
<1>5. \A i, k \in 1..Len(jobs') : jobs'[i] = jobs'[k] => i = k
  <2>1. \A i \in 1..Len(jobs) : jobs[i] # j
    BY NotSentIsNowhere, Zenon DEF Queued
  <2> QED BY <1>1, <1>2, <2>1 DEF PoolInv, Placed
<1> QED BY <1>1, <1>3, <1>4, <1>5, NotSentIsNowhere DEF PoolInv, Placed, With

\* A submitter that sends nothing.
LEMMA NoSendPlaces ==
  ASSUME PoolInv, NEW j \in Jobs, NEW to, SubGoto(j, to), UNCHANGED <<jobs, runs, worker>>,
         sub[j] \in {"sent", "accepted"} <=> to \in {"sent", "accepted"}
  PROVE  Placed'
<1>1. \A x \in Jobs : sub'[x] = IF x = j THEN to ELSE sub[x]
  BY Zenon DEF SubGoto, PoolInv, PoolTypes
<1> QED BY <1>1, Zenon DEF PoolInv, Placed, Queued, With

-----------------------------------------------------------------------------
(* One lemma per action.                                                   *)

\* beginSubmit.
LEMMA BeginKeeps == ASSUME PoolInv, NEW j \in Jobs, Begin(j) PROVE PoolInv'
<1> USE DEF PoolInv, Begin, rest
<1>1. CASE Admits
  <2>1. SubGoto(j, "begun") /\ submitting' = submitting + 1
    BY <1>1, Zenon
  <2>2. Counted'
    BY <2>1, CountUp, Zenon DEF PoolTypes, Between
  <2>3. Placed'
    BY <2>1, NoSendPlaces, Zenon
  <2>4. PoolTypes' /\ Closing' /\ Ended'
    BY <1>1, <2>1, Zenon
       DEF PoolTypes, Between, SubGoto, Admits, Closing, Ended, AllExited
  <2> QED BY <2>2, <2>3, <2>4, Zenon
<1>2. CASE ~Admits
  <2>1. SubGoto(j, "refused") /\ UNCHANGED submitting
    BY <1>2, Zenon
  <2>2. Counted' /\ Active' = Active
    BY <2>1, CountSame, Zenon DEF PoolTypes, Between
  <2>3. Placed'
    BY <2>1, NoSendPlaces, Zenon
  <2>4. PoolTypes' /\ Closing' /\ Ended'
    BY <2>1, <2>2, Zenon DEF PoolTypes, SubGoto, Closing, Ended, AllExited
  <2> QED BY <2>2, <2>3, <2>4, Zenon
<1> QED BY <1>1, <1>2, Zenon

\* The select of Submit.
LEMMA SubmitKeeps ==
  ASSUME PoolInv, NEW j \in Jobs, SubmitSends(j) \/ SubmitQuits(j) PROVE PoolInv'
<1> USE DEF PoolInv, rest
<1>1. CASE SubmitSends(j)
  <2>1. Counted' /\ Active' \subseteq Active
    BY <1>1, CountDown, Zenon DEF SubmitSends, PoolTypes, Between
  <2>2. jobs' \in Seq(Jobs) /\ Placed'
    BY <1>1, SendPlaces, Zenon DEF SubmitSends
  <2>3. PoolTypes' /\ Closing' /\ Ended'
    BY <1>1, <2>1, <2>2, Zenon
       DEF SubmitSends, SubGoto, PoolTypes, Closing, Ended, AllExited
  <2> QED BY <2>1, <2>2, <2>3, Zenon
<1>2. CASE SubmitQuits(j)
  <2>1. Counted' /\ Active' \subseteq Active
    BY <1>2, CountDown, Zenon DEF SubmitQuits, PoolTypes, Between
  <2>2. Placed'
    BY <1>2, NoSendPlaces, Zenon DEF SubmitQuits
  <2>3. PoolTypes' /\ Closing' /\ Ended'
    BY <1>2, <2>1, Zenon DEF SubmitQuits, SubGoto, PoolTypes, Closing, Ended, AllExited
  <2> QED BY <2>1, <2>2, <2>3, Zenon
<1> QED BY <1>1, <1>2, Zenon

\* The three parts of TrySubmit.
LEMMA TryLockKeeps == ASSUME PoolInv, NEW j \in Jobs, TryLock(j) PROVE PoolInv'
<1> USE DEF PoolInv, TryLock, rest
<1>1. PICK to \in {"dropping", "sending"} : SubGoto(j, to)
  OBVIOUS
<1>2. Counted' /\ Active' = Active
  BY <1>1, CountSame, Zenon DEF PoolTypes, Between
<1>3. Placed'
  BY <1>1, NoSendPlaces, Zenon
<1>4. PoolTypes' /\ Closing' /\ Ended'
  BY <1>1, <1>2, Zenon DEF SubGoto, PoolTypes, Between, Closing, Ended, AllExited
<1> QED BY <1>2, <1>3, <1>4, Zenon

LEMMA TrySendKeeps == ASSUME PoolInv, NEW j \in Jobs, TrySend(j) PROVE PoolInv'
<1> USE DEF PoolInv, TrySend, rest
<1>0. j \in Active /\ open
  BY Zenon DEF Active, Between, Closing, PoolTypes
<1>1. CASE sub[j] = "sending" /\ Room
  <2>1. jobs' = Append(jobs, j) /\ SubGoto(j, "sent")
    BY <1>1, Zenon
  <2>2. Counted' /\ Active' = Active
    BY <1>1, <2>1, CountSame, Zenon DEF PoolTypes, Between
  <2>3. jobs' \in Seq(Jobs) /\ Placed'
    BY <1>1, <2>1, SendPlaces, Zenon
  <2>4. PoolTypes' /\ Closing' /\ Ended'
    BY <1>0, <2>1, <2>2, <2>3, Zenon
       DEF SubGoto, PoolTypes, Between, Closing, Ended, AllExited
  <2> QED BY <2>2, <2>3, <2>4, Zenon
<1>2. CASE ~(sub[j] = "sending" /\ Room)
  <2>1. SubGoto(j, "dropped") /\ UNCHANGED jobs
    BY <1>2, Zenon
  <2>2. Counted' /\ Active' = Active
    BY <2>1, CountSame, Zenon DEF PoolTypes, Between
  <2>3. Placed'
    BY <2>1, NoSendPlaces, Zenon
  <2>4. PoolTypes' /\ Closing' /\ Ended'
    BY <2>1, <2>2, Zenon DEF SubGoto, PoolTypes, Between, Closing, Ended, AllExited
  <2> QED BY <2>2, <2>3, <2>4, Zenon
<1> QED BY <1>1, <1>2, Zenon

LEMMA TryDoneKeeps == ASSUME PoolInv, NEW j \in Jobs, TryDone(j) PROVE PoolInv'
<1> USE DEF PoolInv, TryDone, TryResult, CountOut, rest
<1>1. PICK to \in {"accepted", "refused"} : SubGoto(j, to) /\ (to = "accepted" <=> sub[j] = "sent")
  OBVIOUS
<1>2. Counted' /\ Active' \subseteq Active
  BY <1>1, CountDown, Zenon DEF PoolTypes, Between
<1>3. Placed'
  BY <1>1, NoSendPlaces, Zenon
<1>4. PoolTypes' /\ Closing' /\ Ended'
  BY <1>1, <1>2, Zenon DEF SubGoto, PoolTypes, Closing, Ended, AllExited
<1> QED BY <1>2, <1>3, <1>4, Zenon

\* A worker takes the head of the queue.
LEMMA ReceiveKeeps == ASSUME PoolAssumption, PoolInv, NEW w \in Workers, TakeJob(w) PROVE PoolInv'
<1> USE DEF PoolInv, TakeJob
<1> DEFINE h == Head(jobs)
<1>1. /\ Len(jobs) \in Nat \ {0} /\ h = jobs[1] /\ h \in Jobs
      /\ jobs' \in Seq(Jobs) /\ Len(jobs') = Len(jobs) - 1
      /\ \A i \in 1..Len(jobs') : jobs'[i] = jobs[i + 1]
  BY SMT DEF PoolTypes
<1>2. \A v \in Workers : worker'[v] = IF v = w THEN h ELSE worker[v]
  BY Zenon DEF PoolTypes
<1>3. \A x \in Jobs : Queued(x)' <=> Queued(x) /\ x # h
  <2> TAKE x \in Jobs
  <2>1. ASSUME Queued(x)' PROVE Queued(x) /\ x # h
    <3>1. PICK i \in 1..Len(jobs') : jobs'[i] = x
      BY <2>1, Zenon DEF Queued
    <3>2. i + 1 \in 1..Len(jobs) /\ jobs[i + 1] = x /\ 1 \in 1..Len(jobs) /\ i + 1 # 1
      BY <1>1, <3>1
    <3> QED BY <1>1, <3>2 DEF Queued, Placed
  <2>2. ASSUME Queued(x), x # h PROVE Queued(x)'
    <3>1. PICK i \in 1..Len(jobs) : jobs[i] = x
      BY <2>2, Zenon DEF Queued
    <3>2. i # 1
      BY <1>1, <2>2, <3>1, Zenon
    <3>3. i - 1 \in 1..Len(jobs') /\ jobs'[i - 1] = jobs[(i - 1) + 1] /\ (i - 1) + 1 = i
      BY <1>1, <3>1, <3>2
    <3> QED BY <3>1, <3>3, Zenon DEF Queued
  <2> QED BY <2>1, <2>2, Zenon
<1>4. Queued(h) /\ runs[h] = 0 /\ \A v \in Workers : ~With(v, h)
  BY <1>1 DEF Queued, Placed
<1>5. \A i, k \in 1..Len(jobs') : jobs'[i] = jobs'[k] => i = k
  <2> TAKE i, k \in 1..Len(jobs')
  <2>1. i + 1 \in 1..Len(jobs) /\ k + 1 \in 1..Len(jobs)
    BY <1>1
  <2> QED BY <1>1, <2>1 DEF Placed
<1> HIDE DEF h
<1>6. Placed'
  <2>1. \A x \in Jobs : (\E v \in Workers : With(v, x)') <=> (\E v \in Workers : With(v, x)) \/ x = h
    BY <1>1, <1>2, Zenon DEF With, PoolAssumption
  <2>2. \A u, v \in Workers : worker'[u] \in Jobs /\ worker'[u] = worker'[v] => u = v
    BY <1>2, <1>4 DEF With, Placed
  <2>3. \A x \in Jobs : Queued(x)' => runs'[x] = 0 /\ \A v \in Workers : ~With(v, x)'
    BY <1>2, <1>3 DEF With, Placed
  <2>4. \A x \in Jobs, v \in Workers : With(v, x)' => runs'[x] = 0
    BY <1>2, <1>4 DEF With, Placed
  <2>5. \A x \in Jobs : sub'[x] \in {"sent", "accepted"} <=>
          Queued(x)' \/ (\E v \in Workers : With(v, x)') \/ runs'[x] = 1
    BY <1>3, <1>4, <2>1, Zenon DEF Placed
  <2> QED BY <1>5, <2>2, <2>3, <2>4, <2>5, Zenon DEF Placed
<1>7. PoolTypes' /\ Counted' /\ Closing'
  BY <1>1, <1>2 DEF h, PoolTypes, Counted, Closing, Active
<1>8. Ended'
  <2>1. \A v \in Workers : worker[v] # "exited"
    BY Zenon DEF Ended
  <2>2. h # "exited"
    BY <1>1, Zenon DEF PoolAssumption
  <2>3. ~AllExited
    BY <2>1, Zenon DEF AllExited
  <2> QED BY <1>2, <2>1, <2>2, <2>3, Zenon DEF Ended, AllExited
<1> QED BY <1>6, <1>7, <1>8, Zenon

\* A worker has run its job.
LEMMA RunKeeps == ASSUME PoolAssumption, PoolInv, NEW w \in Workers, Run(w) PROVE PoolInv'
<1> USE DEF PoolInv, Run
<1> DEFINE j == worker[w]
<1>1. j \in Jobs /\ runs[j] = 0 /\ ~Queued(j)
  BY Zenon DEF Placed, With
<1>2. \A v \in Workers : worker'[v] = IF v = w THEN NoJob ELSE worker[v]
  BY Zenon DEF PoolTypes
<1>3. \A x \in Jobs : runs'[x] = IF x = j THEN 1 ELSE runs[x]
  BY <1>1 DEF PoolTypes
<1>4. \A x \in Jobs : Queued(x)' <=> Queued(x)
  BY Zenon DEF Queued
<1>5. \A x \in Jobs, v \in Workers : With(v, x)' <=> With(v, x) /\ v # w
  BY <1>2, Zenon DEF With, PoolAssumption
<1>6. \A v \in Workers : v # w => worker[v] # j
  BY <1>1, Zenon DEF Placed
<1>7. Placed'
  <2>1. \A u, v \in Workers : worker'[u] \in Jobs /\ worker'[u] = worker'[v] => u = v
    BY <1>2 DEF Placed, PoolAssumption
  <2>2. \A x \in Jobs : Queued(x)' => runs'[x] = 0 /\ \A v \in Workers : ~With(v, x)'
    BY <1>1, <1>3, <1>4, <1>5 DEF Placed
  <2>3. \A x \in Jobs, v \in Workers : With(v, x)' => runs'[x] = 0
    BY <1>3, <1>5, <1>6 DEF Placed, With
  <2>4. \A x \in Jobs : sub'[x] \in {"sent", "accepted"} <=>
          Queued(x)' \/ (\E v \in Workers : With(v, x)') \/ runs'[x] = 1
    <3>1. With(w, j)
      BY Zenon DEF With
    <3>2. \A x \in Jobs : x # j => ~With(w, x)
      BY Zenon DEF With
    <3> QED BY <1>1, <1>3, <1>4, <1>5, <3>1, <3>2 DEF Placed
  <2> QED BY <2>1, <2>2, <2>3, <2>4, Zenon DEF Placed
<1>8. PoolTypes' /\ Counted' /\ Closing'
  BY <1>1, <1>2, <1>3, Zenon DEF PoolTypes, Counted, Closing, Active
<1>9. Ended'
  BY <1>1, <1>2 DEF Ended, AllExited, PoolAssumption
<1> QED BY <1>7, <1>8, <1>9

\* A worker exits.
LEMMA ExitKeeps == ASSUME PoolAssumption, PoolInv, NEW w \in Workers, Exit(w) PROVE PoolInv'
<1> USE DEF PoolInv, Exit, Leaves
<1>1. \A v \in Workers : worker'[v] = IF v = w THEN "exited" ELSE worker[v]
  BY Zenon DEF PoolTypes
<1>2. \A x \in Jobs, v \in Workers : With(v, x)' <=> With(v, x)
  BY <1>1, Zenon DEF With, PoolAssumption
<1>3. Placed'
  BY <1>1, <1>2 DEF Placed, Queued, PoolAssumption
<1>4. PoolTypes' /\ Counted' /\ Closing' /\ Ended'
  BY <1>1, Zenon DEF PoolTypes, Counted, Closing, Active, Ended, AllExited
<1> QED BY <1>3, <1>4, Zenon

\* Shutdown and its goroutine.
LEMMA ShutdownKeeps ==
  ASSUME PoolInv, (\E c \in Stoppers : Shutdown(c) \/ Return(c)) \/ CloseJobs \/ Drained
  PROVE  PoolInv'
<1> USE DEF PoolInv
<1>1. UNCHANGED <<jobs, submitting, sub, runs, worker>>
  BY Zenon DEF Shutdown, Return, CloseJobs, Drained
<1>2. Counted' /\ Placed' /\ Active' = Active
  BY <1>1 DEF Counted, Active, Placed, Queued, With
<1>3. ASSUME NEW c \in Stoppers, Shutdown(c) PROVE PoolTypes' /\ Closing' /\ Ended'
  BY <1>1, <1>2, <1>3, Zenon DEF Shutdown, PoolTypes, Closing, Ended, AllExited
<1>4. ASSUME NEW c \in Stoppers, Return(c) PROVE PoolTypes' /\ Closing' /\ Ended'
  BY <1>1, <1>2, <1>4 DEF Return, PoolTypes, Closing, Ended, AllExited
<1>5. CASE CloseJobs
  <2>1. Active = {}
    BY <1>5, FS_EmptySet, Zenon DEF CloseJobs, MayClose, Counted
  <2> QED BY <1>1, <1>2, <1>5, <2>1, Zenon
             DEF CloseJobs, PoolTypes, Closing, Ended, AllExited
<1>6. CASE Drained
  BY <1>1, <1>2, <1>6, Zenon DEF Drained, PoolTypes, Closing, Ended, AllExited
<1> QED BY <1>2, <1>3, <1>4, <1>5, <1>6, Zenon

\* Every step preserves the invariant.
LEMMA PoolStep == ASSUME PoolAssumption, PoolInv, [PoolNext]_poolVars PROVE PoolInv'
<1>1. CASE UNCHANGED poolVars
  BY <1>1
     DEF poolVars, PoolInv, PoolTypes, Counted, Active, Closing, Placed, Queued, With, Ended, AllExited
<1> QED BY <1>1, BeginKeeps, SubmitKeeps, TryLockKeeps, TrySendKeeps, TryDoneKeeps, ReceiveKeeps,
           RunKeeps, ExitKeeps, ShutdownKeeps DEF PoolNext, SubmitterStep, WorkerStep

-----------------------------------------------------------------------------
\* The invariant says where each job is; the property counts the places.
LEMMA PlacedOnce == ASSUME PoolAssumption, PoolInv PROVE AcceptedRunsOnce
<1> SUFFICES ASSUME NEW j \in Jobs
             PROVE  Cardinality({i \in 1..Len(jobs) : jobs[i] = j})
                      + Cardinality({w \in Workers : worker[w] = j}) + runs[j]
                    = IF sub[j] \in {"sent", "accepted"} THEN 1 ELSE 0
  BY Zenon DEF AcceptedRunsOnce
<1> DEFINE q == {i \in 1..Len(jobs) : jobs[i] = j}
           h == {w \in Workers : worker[w] = j}
<1>1. Cardinality(q) = IF Queued(j) THEN 1 ELSE 0
  <2>1. CASE Queued(j)
    <3>1. PICK i \in 1..Len(jobs) : jobs[i] = j
      BY <2>1, Zenon DEF Queued
    <3>2. q = {i}
      BY <3>1 DEF PoolInv, Placed
    <3> QED BY <2>1, <3>2, FS_Singleton, Zenon
  <2>2. CASE ~Queued(j)
    <3>1. q = {}
      BY <2>2, Zenon DEF Queued
    <3> QED BY <2>2, <3>1, FS_EmptySet, Zenon
  <2> QED BY <2>1, <2>2, Zenon
<1>2. Cardinality(h) = IF \E w \in Workers : With(w, j) THEN 1 ELSE 0
  <2>1. ASSUME NEW w \in Workers, With(w, j) PROVE Cardinality(h) = 1
    <3>1. h = {w}
      BY <2>1 DEF With, PoolInv, Placed
    <3> QED BY <3>1, FS_Singleton, Zenon
  <2>2. CASE \A w \in Workers : ~With(w, j)
    <3>1. h = {}
      BY <2>2, Zenon DEF With
    <3> QED BY <2>2, <3>1, FS_EmptySet, Zenon
  <2> QED BY <2>1, <2>2, Zenon
<1> HIDE DEF q, h
<1>3. Cardinality(q) + Cardinality(h) + runs[j] = IF sub[j] \in {"sent", "accepted"} THEN 1 ELSE 0
  BY <1>1, <1>2 DEF PoolInv, PoolTypes, Placed
<1> QED BY <1>3, Zenon DEF q, h

\* A drained pool has run what it accepted.
LEMMA DrainedIsDone == ASSUME PoolAssumption, PoolInv PROVE DrainedMeansDone
<1> SUFFICES ASSUME closer = "drained", NEW j \in Jobs, sub[j] = "accepted" PROVE runs[j] = 1
  BY Zenon DEF DrainedMeansDone, PoolInv, Ended
<1>1. jobs = <<>> /\ \A w \in Workers : worker[w] = "exited"
  BY Zenon DEF PoolInv, Ended, AllExited, PoolAssumption
<1>2. ~Queued(j) /\ \A w \in Workers : ~With(w, j)
  BY <1>1 DEF Queued, With, PoolAssumption
<1> QED BY <1>2, Zenon DEF PoolInv, Placed

\* No send meets a closed queue, an accepted job is run exactly once and a
\* refused one never, and a Shutdown that returned nil left nothing behind, for
\* any number of submitters, workers and callers (asyncpool.go).
THEOREM PoolTheorem == ASSUME PoolAssumption PROVE PoolSpec => []PoolIsSafe
<1>1. PoolInit => PoolInv
  <2> SUFFICES ASSUME PoolInit PROVE PoolInv
    OBVIOUS
  <2>1. Active = {} /\ Len(jobs) = 0
    BY Zenon DEF PoolInit, Active, Between
  <2>2. PoolTypes
    <3>1. jobs \in Seq(Jobs) /\ runs \in [Jobs -> {0, 1}]
      BY DEF PoolInit
    <3> QED BY <3>1, Zenon DEF PoolInit, PoolTypes
  <2>3. Counted /\ Closing
    BY <2>1, FS_EmptySet, Zenon DEF PoolInit, Counted, Closing
  <2>4. Placed /\ Ended
    BY <2>1 DEF PoolInit, Placed, Queued, With, Ended, AllExited, PoolAssumption
  <2> QED BY <2>2, <2>3, <2>4, Zenon DEF PoolInv
<1>2. PoolInv => PoolIsSafe
  <2>1. PoolInv => NoSendAfterClose
    BY Zenon DEF PoolInv, Closing, Active, Between, NoSendAfterClose
  <2> QED BY <2>1, PlacedOnce, DrainedIsDone, Zenon DEF PoolIsSafe
<1> QED BY <1>1, <1>2, PoolStep, PTL DEF PoolSpec

-----------------------------------------------------------------------------
(* From turns to one task.  A turn leaves the buffer only with the ack of  *)
(* a call that was accepted, so the invariant follows the snapshot of a    *)
(* call through the worker (Trail); as long as no lease lapsed, whoever is *)
(* at work owns the claim, and a task stands behind a claim (OneWorker).   *)

ChatSteps == {"asked", "answered", "writing", "buffered", "capped", "dropped"}
CallSteps == {"new", "waiting", "peek", "posting", "posted", "acking", "leaving", "done"}
WorkSteps == {"none", "arrived", "claimed", "dispatched", "releasing",
              "accepted", "conflict", "busy", "unavailable"}
ClaimRows == [state : {"absent", "claimed", "finalized"}, hash : Seq(Chats),
              by : Terminations \cup {NoCall}, live : BOOLEAN]
FlowTypes ==
  /\ buf \in Seq(Chats) /\ expected \in [Chats -> Seq(Chats)]
  /\ apc \in [Chats -> ChatSteps]
  /\ tpc \in [Terminations -> CallSteps] /\ snap \in [Terminations -> Seq(Chats)]
  /\ wpc \in [Terminations -> WorkSteps] /\ claim \in ClaimRows

\* A task carries the turns s.
Published(s) == \E k \in tasks : k.turns = s

\* A call peeks before it reaches the worker; a claim has the snapshot of its
\* owner; what was dispatched, finalized, accepted or is being acked is published.
Trail ==
  /\ \A t \in Terminations :
       tpc[t] \in {"new", "waiting", "peek", "posting"} => wpc[t] = "none"
  /\ claim.state # "absent" =>
       /\ claim.by \in Terminations /\ wpc[claim.by] \notin {"none", "arrived"}
       /\ claim.hash = snap[claim.by]
  /\ claim.state = "finalized" => Published(claim.hash)
  /\ \A t \in Terminations :
       wpc[t] \in {"dispatched", "accepted"} \/ tpc[t] = "acking" => Published(snap[t])

\* While no lease lapsed: who is at work owns the claim, which is live, and
\* nothing is published before the owner dispatches.
OneWorker ==
  /\ claim.state = "claimed" => claim.live
  /\ \A t \in Terminations : InWorker(t) => Owns(t)
  /\ \A t \in Terminations : wpc[t] \in {"claimed", "releasing"} => tasks = {}
  /\ tasks # {} => claim.state # "absent"
  /\ \A j, k \in tasks : j = k

FlowInv == FlowTypes /\ Trail /\ BufferedIsKept /\ (~excused => OneWorker)

LEMMA TurnsOfAppend ==
  ASSUME NEW s \in Seq(Chats), NEW q \in Chats
  PROVE  Append(s, q) \in Seq(Chats) /\ Turns(Append(s, q)) = Turns(s) \cup {q}
  BY DEF Turns

\* A document grows by the turn of a request, or is full and stays as it is.
LEMMA MergeKeeps ==
  ASSUME NEW s \in Seq(Chats), NEW q \in Chats
  PROVE  /\ MergeTurns(s, q) \in Seq(Chats)
         /\ Turns(s) \subseteq Turns(MergeTurns(s, q))
         /\ ~Full(s) => q \in Turns(MergeTurns(s, q))
  BY TurnsOfAppend, Zenon DEF MergeTurns

\* Steps of a chat request (Append).
LEMMA ChatKeeps ==
  ASSUME FlowInv, NEW q \in Chats, Chat(q) \/ AppendFails(q)
  PROVE  FlowInv'
<1>1. UNCHANGED <<tpc, snap, wpc, claim, tasks, excused, expired>>
  BY Zenon DEF Chat, Answer, ReadExpected, AppendCAS, AppendFails, callVars, workVars
<1>2. Trail' /\ (~excused' => OneWorker') /\ Dispatched' = Dispatched
  BY <1>1, Zenon DEF FlowInv, Trail, Published, OneWorker, InWorker, Owns, Dispatched
<1>3. CASE Answer(q) \/ ReadExpected(q)
  <2>1. buf' = buf /\ FlowTypes'
    BY <1>1, <1>3, Zenon DEF FlowInv, FlowTypes, Answer, ReadExpected, Step, ChatSteps
  <2>2. BufferedIsKept'
    BY <1>1, <1>2, <1>3, <2>1, Zenon
       DEF FlowInv, FlowTypes, BufferedIsKept, Answer, ReadExpected, Step, ChatSteps
  <2> QED
    BY <1>2, <2>1, <2>2, Zenon DEF FlowInv
<1>4. CASE AppendCAS(q) \/ AppendFails(q)
  <2> DEFINE grown == MergeTurns(expected[q], q)
  <2>1. expected[q] \in Seq(Chats)
    BY Zenon DEF FlowInv, FlowTypes
  <2>2. /\ grown \in Seq(Chats) /\ Turns(expected[q]) \subseteq Turns(grown)
        /\ ~Full(expected[q]) => q \in Turns(grown)
    BY <2>1, MergeKeeps, Zenon
  <2>3. \/ buf' = buf /\ apc'[q] # "buffered"
        \/ buf = expected[q] /\ buf' = grown /\ (apc'[q] = "buffered" => ~Full(expected[q]))
    BY <1>4, Zenon DEF AppendCAS, AppendFails, SameDocument, Step, FlowInv, FlowTypes
  <2>4. FlowTypes' /\ \A p \in Chats : p # q => apc'[p] = apc[p]
    BY <1>1, <1>4, <2>2, <2>3, Zenon
       DEF FlowInv, FlowTypes, AppendCAS, AppendFails, Step, ChatSteps
  <2> HIDE DEF grown
  <2>5. Turns(buf) \subseteq Turns(buf') /\ (apc'[q] = "buffered" => q \in Turns(buf'))
    BY <2>2, <2>3, Zenon
  <2>6. BufferedIsKept'
    BY <1>1, <1>2, <2>4, <2>5, Zenon DEF FlowInv, BufferedIsKept
  <2> QED
    BY <1>2, <2>4, <2>6, Zenon DEF FlowInv
<1> QED
  BY <1>3, <1>4, Zenon DEF Chat

LEMMA ExpireKeeps == ASSUME FlowInv, Expire PROVE FlowInv'
<1>1. UNCHANGED <<apc, expected, tpc, snap, wpc, claim, tasks, excused>>
  BY Zenon DEF Expire, chatVars, callVars, workVars
<1>2. buf' = <<>> /\ expired' = expired \cup Turns(buf)
  BY Zenon DEF Expire
<1>3. Trail' /\ (~excused' => OneWorker') /\ Dispatched' = Dispatched
  BY <1>1, Zenon DEF FlowInv, Trail, Published, OneWorker, InWorker, Owns, Dispatched
<1>4. FlowTypes' /\ BufferedIsKept'
  BY <1>1, <1>2, <1>3 DEF FlowInv, FlowTypes, BufferedIsKept
<1> QED
  BY <1>3, <1>4, Zenon DEF FlowInv

\* Steps of a terminate call, up to the worker and after it.
LEMMA CallKeeps ==
  ASSUME FlowInv, NEW t \in Terminations, Terminate(t) \/ Enqueue(t)
  PROVE  FlowInv'
<1>1. UNCHANGED <<apc, expected, claim, tasks, excused, expired>>
  BY Zenon
     DEF Terminate, Enqueue, EnterFlight, Peek, PostEnqueue, Receive, AckSnapshot, Leave,
         chatVars, workVars
<1>2. \A u \in Terminations : u # t =>
        tpc'[u] = tpc[u] /\ snap'[u] = snap[u] /\ wpc'[u] = wpc[u]
  BY Zenon
     DEF Terminate, Enqueue, EnterFlight, Peek, PostEnqueue, Receive, AckSnapshot, Leave,
         workVars, Go, Work, FlowInv, FlowTypes
<1>3. FlowTypes'
  <2>1. buf' \in {buf, <<>>} /\ snap' \in {snap, [snap EXCEPT ![t] = buf]}
    BY Zenon
       DEF Terminate, Enqueue, EnterFlight, Peek, PostEnqueue, Receive, AckSnapshot, Leave
  <2>2. wpc' \in {wpc, [wpc EXCEPT ![t] = "arrived"]}
    BY Zenon
       DEF Terminate, Enqueue, EnterFlight, Peek, PostEnqueue, Receive, AckSnapshot, Leave,
           workVars, Work
  <2>3. \E to \in CallSteps : Go(t, to)
    BY Zenon
       DEF Terminate, Enqueue, EnterFlight, Peek, PostEnqueue, Receive, AckSnapshot, Leave, CallSteps
  <2>4. tpc' \in [Terminations -> CallSteps]
    BY <2>3, Zenon DEF Go, FlowInv, FlowTypes
  <2>5. buf' \in Seq(Chats) /\ snap' \in [Terminations -> Seq(Chats)]
    <3>1. <<>> \in Seq(Chats) /\ buf \in Seq(Chats) /\ snap \in [Terminations -> Seq(Chats)]
      BY DEF FlowInv, FlowTypes
    <3> QED
      BY <2>1, <3>1, Zenon
  <2>6. wpc' \in [Terminations -> WorkSteps]
    BY <2>2, Zenon DEF FlowInv, FlowTypes, WorkSteps
  <2> QED
    BY <1>1, <2>4, <2>5, <2>6, Zenon DEF FlowInv, FlowTypes
<1>4. \/ wpc' = wpc
      \/ wpc[t] = "none" /\ wpc'[t] = "arrived" /\ tpc'[t] = "posted"
  BY Zenon
     DEF Terminate, Enqueue, EnterFlight, Peek, PostEnqueue, Receive, AckSnapshot, Leave,
         workVars, Work, Go, FlowInv, FlowTypes, Trail
<1>5. snap'[t] = snap[t] \/ (tpc[t] = "peek" /\ tpc'[t] # "acking" /\ wpc' = wpc)
  BY Zenon
     DEF Terminate, Enqueue, EnterFlight, Peek, PostEnqueue, Receive, AckSnapshot, Leave,
         workVars, Go, FlowInv, FlowTypes
<1>6. /\ tpc'[t] = "acking" => wpc[t] = "accepted" /\ wpc' = wpc
      /\ tpc'[t] \in {"new", "waiting", "peek", "posting"} =>
           tpc[t] \in {"new", "waiting", "peek", "posting"} /\ wpc' = wpc
  BY Zenon
     DEF Terminate, Enqueue, EnterFlight, Peek, PostEnqueue, Receive, AckSnapshot, Leave,
         workVars, Go, FlowInv, FlowTypes
<1>7. Trail'
  <2>1. \A u \in Terminations :
          tpc'[u] \in {"new", "waiting", "peek", "posting"} => wpc'[u] = "none"
    BY <1>2, <1>6, Zenon DEF FlowInv, Trail
  <2>2. claim'.state # "absent" =>
          /\ claim'.by \in Terminations /\ wpc'[claim'.by] \notin {"none", "arrived"}
          /\ claim'.hash = snap'[claim'.by]
    BY <1>1, <1>2, <1>4, <1>5, Zenon DEF FlowInv, Trail
  <2>3. \A s : Published(s)' <=> Published(s)
    BY <1>1, Zenon DEF Published
  <2>4. claim'.state = "finalized" => Published(claim.hash)'
    BY <1>1, <2>3, Zenon DEF FlowInv, Trail
  <2>5. \A u \in Terminations :
          wpc'[u] \in {"dispatched", "accepted"} \/ tpc'[u] = "acking" => Published(snap[u])'
    BY <1>2, <1>4, <1>5, <1>6, <2>3, Zenon DEF FlowInv, Trail
  <2> QED
    BY <2>1, <2>2, <2>4, <2>5, Zenon DEF Trail
<1>8. ASSUME ~excused' PROVE OneWorker'
  BY <1>1, <1>2, <1>4, <1>8, Zenon DEF FlowInv, OneWorker, InWorker, Owns
<1>9. BufferedIsKept'
  <2>1. CASE buf' = buf
    BY <1>1, <2>1, Zenon DEF FlowInv, BufferedIsKept, Dispatched
  <2>2. CASE buf' # buf
    <3>1. tpc[t] = "acking" /\ buf = snap[t]
      BY <2>2, Zenon
         DEF Terminate, Enqueue, EnterFlight, Peek, PostEnqueue, Receive, AckSnapshot, Leave,
                  SameDocument
    <3>2. PICK k \in tasks : k.turns = snap[t]
      BY <3>1, Zenon DEF FlowInv, Trail, Published
    <3>3. Turns(buf) \subseteq Dispatched
      BY <3>1, <3>2, Zenon DEF Dispatched
    <3> QED
      BY <1>1, <3>3, Zenon DEF FlowInv, BufferedIsKept, Dispatched
  <2> QED
    BY <2>1, <2>2, Zenon
<1> QED
  BY <1>1, <1>3, <1>7, <1>8, <1>9, Zenon DEF FlowInv

\* A proxy process stops.
LEMMA CrashKeeps == ASSUME FlowInv, NEW p \in Procs, Crash(p) PROVE FlowInv'
<1>1. UNCHANGED <<buf, apc, expected, snap, wpc, claim, tasks, excused, expired>>
  BY Zenon DEF Crash, chatVars, workVars
<1>2. \A t \in Terminations : tpc'[t] \in {tpc[t], "done"}
  BY Zenon DEF Crash
<1>3. FlowTypes'
  BY <1>1, Zenon DEF FlowInv, FlowTypes, Crash, CallSteps
<1>4. Trail'
  BY <1>1, <1>2, Zenon DEF FlowInv, Trail, Published
<1>5. BufferedIsKept' /\ (~excused' => OneWorker')
  BY <1>1, Zenon DEF FlowInv, BufferedIsKept, Dispatched, OneWorker, InWorker, Owns
<1> QED
  BY <1>3, <1>4, <1>5, Zenon DEF FlowInv

\* The lease of a claim lapses; from then on a second task is excused.
LEMMA LapseKeeps == ASSUME FlowInv, Lapse PROVE FlowInv'
<1>1. UNCHANGED <<buf, apc, expected, tpc, snap, wpc, tasks, expired>> /\ excused'
  BY Zenon DEF Lapse, chatVars, callVars
<1>2. claim' = [claim EXCEPT !.live = FALSE] /\ claim \in ClaimRows
  BY Zenon DEF Lapse, FlowInv, FlowTypes
<1>3. /\ claim' \in ClaimRows /\ claim'.state = claim.state
      /\ claim'.hash = claim.hash /\ claim'.by = claim.by
  BY <1>2, Zenon DEF ClaimRows
<1>4. FlowTypes'
  BY <1>1, <1>3, Zenon DEF FlowInv, FlowTypes
<1>5. Trail'
  BY <1>1, <1>3, Zenon DEF FlowInv, Trail, Published
<1>6. BufferedIsKept'
  BY <1>1, Zenon DEF FlowInv, BufferedIsKept, Dispatched
<1> QED
  BY <1>1, <1>4, <1>5, <1>6, Zenon DEF FlowInv

\* The worker claims the session (claim_or_response).
LEMMA ClaimKeeps ==
  ASSUME FlowInv, NEW t \in Terminations, ClaimSession(t)
  PROVE  FlowInv'
<1>1. UNCHANGED <<buf, apc, expected, tpc, snap, tasks, excused, expired>>
  BY Zenon DEF ClaimSession, chatVars, callVars
<1>2. wpc[t] = "arrived" /\ \A u \in Terminations : u # t => wpc'[u] = wpc[u]
  BY Zenon DEF ClaimSession, Work, FlowInv, FlowTypes
<1>3. /\ wpc' \in [Terminations -> WorkSteps]
      /\ wpc'[t] \in {Outcome(t), "unavailable"}
      /\ \/ claim' = claim /\ (Outcome(t) = "claimed" => wpc'[t] = "unavailable")
         \/ Outcome(t) = "claimed" /\ claim' = Claimed(t)
  BY Zenon DEF ClaimSession, Work, FlowInv, FlowTypes, Outcome, WorkSteps
<1>4. /\ Outcome(t) \in {"conflict", "accepted", "busy", "claimed"}
      /\ Outcome(t) = "accepted" => claim.state = "finalized" /\ claim.hash = snap[t]
      /\ Outcome(t) = "claimed" =>
           claim.state = "absent" \/ (claim.state = "claimed" /\ ~claim.live)
  BY Zenon DEF Outcome, FlowInv, FlowTypes, ClaimRows
<1>5. /\ Claimed(t) \in ClaimRows /\ Claimed(t).state = "claimed" /\ Claimed(t).live
      /\ Claimed(t).by = t /\ Claimed(t).hash = snap[t]
  BY Zenon DEF Claimed, ClaimRows, FlowInv, FlowTypes
<1>6. FlowTypes'
  BY <1>1, <1>3, <1>5, Zenon DEF FlowInv, FlowTypes
<1>7. Trail'
  <2>1. \A u \in Terminations :
          tpc'[u] \in {"new", "waiting", "peek", "posting"} => wpc'[u] = "none"
    BY <1>1, <1>2, Zenon DEF FlowInv, Trail
  <2>2. claim'.state # "absent" =>
          /\ claim'.by \in Terminations /\ wpc'[claim'.by] \notin {"none", "arrived"}
          /\ claim'.hash = snap'[claim'.by]
    BY <1>1, <1>2, <1>3, <1>4, <1>5 DEF FlowInv, Trail
  <2>3. \A s : Published(s)' <=> Published(s)
    BY <1>1, Zenon DEF Published
  <2>4. claim'.state = "finalized" => Published(claim.hash)'
    BY <1>3, <1>5, <2>3, Zenon DEF FlowInv, Trail
  <2>5. \A u \in Terminations :
          wpc'[u] \in {"dispatched", "accepted"} \/ tpc'[u] = "acking" => Published(snap[u])'
    BY <1>1, <1>2, <1>3, <1>4, <2>3, Zenon DEF FlowInv, Trail
  <2> QED
    BY <2>1, <2>2, <2>4, <2>5, Zenon DEF Trail
<1>8. ASSUME ~excused' PROVE OneWorker'
  <2>1. OneWorker
    BY <1>1, <1>8, Zenon DEF FlowInv
  <2>2. CASE claim' = Claimed(t) /\ Outcome(t) = "claimed"
    <3>1. claim.state = "absent"
      BY <1>4, <2>1, <2>2, Zenon DEF OneWorker
    <3>2. tasks = {} /\ \A u \in Terminations : ~InWorker(u)
      BY <2>1, <3>1, Zenon DEF OneWorker, Owns
    <3> QED
      BY <1>1, <1>2, <1>5, <2>2, <3>2, Zenon DEF OneWorker, InWorker, Owns
  <2>3. CASE claim' = claim /\ wpc'[t] \notin {"claimed", "dispatched", "releasing"}
    BY <1>1, <1>2, <2>1, <2>3, Zenon DEF OneWorker, InWorker, Owns
  <2> QED
    BY <1>3, <1>4, <2>2, <2>3, Zenon
<1>9. BufferedIsKept'
  BY <1>1, Zenon DEF FlowInv, BufferedIsKept, Dispatched
<1> QED
  BY <1>6, <1>7, <1>8, <1>9, Zenon DEF FlowInv

\* It publishes the task; the publish may be held failed all the same.
LEMMA DispatchKeeps ==
  ASSUME FlowInv, NEW t \in Terminations, Dispatch(t)
  PROVE  FlowInv'
<1> DEFINE task == [by |-> t, turns |-> snap[t]]
<1>1. UNCHANGED <<buf, apc, expected, tpc, snap, claim, expired>>
  BY Zenon DEF Dispatch, chatVars, callVars
<1>2. /\ wpc[t] = "claimed" /\ \A u \in Terminations : u # t => wpc'[u] = wpc[u]
      /\ wpc' \in [Terminations -> WorkSteps]
  BY Zenon DEF Dispatch, Work, FlowInv, FlowTypes, WorkSteps
<1>3. \/ tasks' = tasks \cup {task} /\ wpc'[t] = "dispatched" /\ excused' = excused
      \/ tasks' = tasks /\ wpc'[t] = "releasing" /\ excused' = excused
      \/ tasks' = tasks \cup {task} /\ wpc'[t] = "releasing" /\ excused'
  BY Zenon DEF Dispatch, Publish, Work, FlowInv, FlowTypes
<1>4. task.turns = snap[t]
  OBVIOUS
<1> HIDE DEF task
<1>5. tasks \subseteq tasks' /\ Dispatched \subseteq Dispatched'
  BY <1>3, Zenon DEF Dispatched
<1>6. \A s : Published(s) => Published(s)'
  BY <1>5, Zenon DEF Published
<1>7. wpc'[t] = "dispatched" => Published(snap[t])'
  BY <1>1, <1>3, <1>4, Zenon DEF Published
<1>8. FlowTypes'
  BY <1>1, <1>2, Zenon DEF FlowInv, FlowTypes
<1>9. Trail'
  <2>1. \A u \in Terminations :
          tpc'[u] \in {"new", "waiting", "peek", "posting"} => wpc'[u] = "none"
    BY <1>1, <1>2, Zenon DEF FlowInv, Trail
  <2>2. claim'.state # "absent" =>
          /\ claim'.by \in Terminations /\ wpc'[claim'.by] \notin {"none", "arrived"}
          /\ claim'.hash = snap'[claim'.by]
    BY <1>1, <1>2, <1>3, Zenon DEF FlowInv, Trail
  <2>3. claim'.state = "finalized" => Published(claim.hash)'
    BY <1>1, <1>6, Zenon DEF FlowInv, Trail
  <2>4. \A u \in Terminations :
          wpc'[u] \in {"dispatched", "accepted"} \/ tpc'[u] = "acking" => Published(snap[u])'
    BY <1>1, <1>2, <1>3, <1>6, <1>7, Zenon DEF FlowInv, Trail
  <2> QED
    BY <2>1, <2>2, <2>3, <2>4, Zenon DEF Trail
<1>10. ASSUME ~excused' PROVE OneWorker'
  <2>1. OneWorker /\ tasks = {} /\ Owns(t)
    BY <1>2, <1>3, <1>10, Zenon DEF FlowInv, OneWorker, InWorker
  <2>2. \A u \in Terminations : u # t => ~InWorker(u)
    BY <2>1, Zenon DEF OneWorker, Owns
  <2> QED
    BY <1>1, <1>2, <1>3, <1>10, <2>1, <2>2, Zenon DEF OneWorker, InWorker, Owns
<1>11. BufferedIsKept'
  BY <1>1, <1>5, Zenon DEF FlowInv, BufferedIsKept
<1> QED
  BY <1>8, <1>9, <1>10, <1>11, Zenon DEF FlowInv

\* The end of a request in the worker: the claim is finalized, released or left.
LEMMA WorkEndKeeps ==
  ASSUME FlowInv, NEW t \in Terminations, Finalize(t) \/ Release(t) \/ WorkerStops(t)
  PROVE  FlowInv'
<1> DEFINE done == [claim EXCEPT !.state = "finalized"]
<1>1. UNCHANGED <<buf, apc, expected, tpc, snap, tasks, excused, expired>>
  BY Zenon DEF Finalize, Release, WorkerStops, chatVars, callVars
<1>2. /\ InWorker(t) /\ \A u \in Terminations : u # t => wpc'[u] = wpc[u]
      /\ wpc' \in [Terminations -> WorkSteps]
  BY Zenon
     DEF Finalize, Release, WorkerStops, InWorker, Work, FlowInv, FlowTypes, WorkSteps
<1>3. \/ claim' = claim /\ wpc'[t] = "unavailable"
      \/ wpc[t] = "dispatched" /\ Owns(t) /\ claim' = done /\ wpc'[t] \in {"accepted", "unavailable"}
      \/ wpc[t] = "releasing" /\ Owns(t) /\ claim' = NoRow /\ wpc'[t] = "unavailable"
  BY Zenon DEF Finalize, Release, WorkerStops, Work, FlowInv, FlowTypes
<1>4. /\ done \in ClaimRows /\ done.state = "finalized" /\ done.hash = claim.hash
      /\ done.by = claim.by /\ NoRow \in ClaimRows /\ NoRow.state = "absent"
  <2>1. <<>> \in Seq(Chats)
    OBVIOUS
  <2> QED
    BY <2>1, Zenon DEF NoRow, ClaimRows, FlowInv, FlowTypes
<1> HIDE DEF done
<1>5. FlowTypes'
  BY <1>1, <1>2, <1>3, <1>4, Zenon DEF FlowInv, FlowTypes
<1>6. \A s : Published(s)' <=> Published(s)
  BY <1>1, Zenon DEF Published
<1>7. Owns(t) => claim.hash = snap[t]
  BY Zenon DEF FlowInv, Trail, Owns
<1>8. Trail'
  <2>1. \A u \in Terminations :
          tpc'[u] \in {"new", "waiting", "peek", "posting"} => wpc'[u] = "none"
    BY <1>1, <1>2, Zenon DEF FlowInv, Trail, InWorker
  <2>2. claim'.state # "absent" =>
          /\ claim'.by \in Terminations /\ wpc'[claim'.by] \notin {"none", "arrived"}
          /\ claim'.hash = snap'[claim'.by]
    BY <1>1, <1>2, <1>3, <1>4 DEF FlowInv, Trail, Owns
  <2>3. claim'.state = "finalized" => Published(claim.hash)'
    BY <1>3, <1>4, <1>6, <1>7, Zenon DEF FlowInv, Trail
  <2>4. \A u \in Terminations :
          wpc'[u] \in {"dispatched", "accepted"} \/ tpc'[u] = "acking" => Published(snap[u])'
    BY <1>1, <1>2, <1>3, <1>6, Zenon DEF FlowInv, Trail
  <2> QED
    BY <2>1, <2>2, <2>3, <2>4, Zenon DEF Trail
<1>9. ASSUME ~excused' PROVE OneWorker'
  <2>1. OneWorker /\ Owns(t)
    BY <1>1, <1>2, <1>9, Zenon DEF FlowInv, OneWorker
  <2>2. \A u \in Terminations : u # t => ~InWorker(u)
    BY <2>1, Zenon DEF OneWorker, Owns
  <2>3. \A u \in Terminations : ~InWorker(u)'
    BY <1>2, <1>3, <2>2, Zenon DEF InWorker
  <2>4. wpc[t] = "releasing" => tasks = {}
    BY <2>1, Zenon DEF OneWorker
  <2> QED
    BY <1>1, <1>3, <1>4, <2>1, <2>3, <2>4, Zenon DEF OneWorker, InWorker
<1>10. BufferedIsKept'
  BY <1>1, Zenon DEF FlowInv, BufferedIsKept, Dispatched
<1> QED
  BY <1>5, <1>8, <1>9, <1>10, Zenon DEF FlowInv

LEMMA FlowInitially == FlowInit => FlowInv
<1> SUFFICES ASSUME FlowInit PROVE FlowInv
  OBVIOUS
<1>1. FlowTypes
  <2>1. <<>> \in Seq(Chats)
    OBVIOUS
  <2>2. NoRow \in ClaimRows
    BY <2>1, Zenon DEF NoRow, ClaimRows
  <2> QED
    BY <2>1, <2>2, Zenon DEF FlowInit, FlowTypes, ChatSteps, CallSteps, WorkSteps
<1>2. Trail /\ OneWorker
  BY Zenon DEF FlowInit, Trail, OneWorker, NoRow, InWorker
<1>3. BufferedIsKept
  BY Zenon DEF FlowInit, BufferedIsKept
<1> QED
  BY <1>1, <1>2, <1>3, Zenon DEF FlowInv

LEMMA FlowStep == FlowInv /\ [FlowNext]_flowVars => FlowInv'
<1> SUFFICES ASSUME FlowInv, [FlowNext]_flowVars PROVE FlowInv'
  OBVIOUS
<1>1. ASSUME NEW t \in Terminations, Worker(t) \/ WorkerStops(t) PROVE FlowInv'
  BY <1>1, ClaimKeeps, DispatchKeeps, WorkEndKeeps, Zenon DEF Worker
<1>2. CASE UNCHANGED flowVars
  <2>1. UNCHANGED <<buf, apc, expected, tpc, snap, wpc, claim, tasks, excused, expired>>
    BY <1>2, Zenon DEF flowVars, chatVars, callVars, workVars
  <2> QED
    BY <2>1, Zenon
       DEF FlowInv, FlowTypes, Trail, Published, BufferedIsKept, Dispatched, OneWorker,
                       InWorker, Owns
<1> QED
  BY <1>1, <1>2, ChatKeeps, CallKeeps, CrashKeeps, LapseKeeps, ExpireKeeps, Zenon
     DEF FlowNext

\* A turn whose append succeeded is in the buffer until a published task has it
\* (or its document expired), and unless a lease lapsed or a publish was wrongly
\* held failed, one task is published for the session, however many chats,
\* terminate calls, proxy processes and faults there are (buffer.go,
\* session_terminate.go, enqueue_http.py).
THEOREM FlowTheorem == FlowSpec => []TurnsReachOneTask
<1>1. FlowInv => TurnsReachOneTask
  <2> SUFFICES ASSUME FlowInv, ~excused PROVE Cardinality(tasks) <= 1
    BY Zenon DEF FlowInv, TurnsReachOneTask, OneTaskPerSession
  <2>1. tasks = {} \/ \E k \in tasks : tasks = {k}
    BY Zenon DEF FlowInv, OneWorker
  <2>2. Cardinality(tasks) \in {0, 1}
    BY <2>1, FS_EmptySet, FS_Singleton, Zenon
  <2> QED
    BY <2>2
<1> QED
  BY <1>1, FlowInitially, FlowStep, PTL DEF FlowSpec
=============================================================================
