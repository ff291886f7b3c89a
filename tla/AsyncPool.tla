----------------------------- MODULE AsyncPool ------------------------------
(***************************************************************************)
(* The worker pool that runs post-response work of the proxy               *)
(* (services/proxy/internal/asyncpool): blocking and non-blocking          *)
(* submitters, workers, and Shutdown, which closes the queue while         *)
(* submitters may be about to send to it.  A send to a closed channel      *)
(* would end the process.                                                  *)
(***************************************************************************)
EXTENDS Naturals, Sequences, FiniteSets

CONSTANTS Jobs, NoJob,
          Trying,     \* the jobs handed to TrySubmit, the others go to Submit
          Workers, Stoppers,   \* goroutines that run jobs, that call Shutdown
          QueueSize

PoolAssumption ==
  /\ Trying \subseteq Jobs /\ NoJob \notin Jobs /\ "exited" \notin Jobs \cup {NoJob}
  /\ QueueSize \in Nat \ {0} /\ Workers # {} /\ IsFiniteSet(Workers)

VARIABLES jobs, open,    \* the channel, and whether it is open
          closed,        \* the flag and the quit channel, set under the gate
          submitting,    \* submitWG
          sendMu,        \* who holds it
          sub,           \* where a submitter is
          runs,          \* how often a job was run
          worker,        \* the job a worker is at, NoJob, or "exited"
          closer,        \* the goroutine Shutdown starts
          caller         \* the callers of Shutdown
poolVars == <<jobs, open, closed, submitting, sendMu, sub, runs, worker, closer, caller>>

PoolInit ==
  /\ jobs = <<>> /\ open = TRUE /\ closed = FALSE
  /\ submitting = 0 /\ sendMu = "free"
  /\ sub = [j \in Jobs |-> "new"]
  /\ runs = [j \in Jobs |-> 0]
  /\ worker = [w \in Workers |-> NoJob]
  /\ closer = "off"
  /\ caller = [c \in Stoppers |-> "off"]

SubGoto(j, to) == sub' = [sub EXCEPT ![j] = to]
rest == <<runs, worker, closer, caller>>

-----------------------------------------------------------------------------
(* Submit and TrySubmit                                                    *)

\* Faulty variant: a submit is accepted after the pool was closed.
AdmitsAlways == TRUE

Admits == ~closed

\* beginSubmit, under the gate.
Begin(j) ==
  /\ sub[j] = "new"
  /\ IF Admits THEN SubGoto(j, "begun") /\ submitting' = submitting + 1
               ELSE SubGoto(j, "refused") /\ UNCHANGED submitting
  /\ UNCHANGED <<jobs, open, closed, sendMu, rest>>

Room == Len(jobs) < QueueSize

\* The select of Submit: a free place or quit, and either when both are there.
SubmitSends(j) ==
  /\ j \notin Trying /\ sub[j] = "begun" /\ Room /\ open
  /\ jobs' = Append(jobs, j) /\ SubGoto(j, "accepted")
  /\ submitting' = submitting - 1
  /\ UNCHANGED <<open, closed, sendMu, rest>>

SubmitQuits(j) ==
  /\ j \notin Trying /\ sub[j] = "begun" /\ closed
  /\ SubGoto(j, "refused") /\ submitting' = submitting - 1
  /\ UNCHANGED <<jobs, open, closed, sendMu, rest>>

TryLock(j) ==
  /\ j \in Trying /\ sub[j] = "begun" /\ sendMu = "free"
  /\ sendMu' = "held"
  /\ SubGoto(j, IF closed THEN "dropping" ELSE "sending")
  /\ UNCHANGED <<jobs, open, closed, submitting, rest>>

\* Faulty variant: the early return keeps the lock.
UnlockIfSending(j) == IF sub[j] = "dropping" THEN "held" ELSE "free"

Unlock(j) == "free"

\* The send that does not block, and the unlock.
TrySend(j) ==
  /\ sub[j] \in {"sending", "dropping"}
  /\ IF sub[j] = "sending" /\ Room
     THEN jobs' = Append(jobs, j) /\ SubGoto(j, "sent")
     ELSE SubGoto(j, "dropped") /\ UNCHANGED jobs
  /\ sendMu' = Unlock(j)
  /\ UNCHANGED <<open, closed, submitting, rest>>

\* Faulty variant: the result looks at the flag again.
TryResultIfOpen(j) == IF sub[j] = "sent" /\ ~closed THEN "accepted" ELSE "refused"

TryResult(j) == IF sub[j] = "sent" THEN "accepted" ELSE "refused"

\* Faulty variant: only a send counts the submitter out.
CountOutIfSent(j) == IF sub[j] = "sent" THEN submitting - 1 ELSE submitting

CountOut(j) == submitting - 1

TryDone(j) ==
  /\ sub[j] \in {"sent", "dropped"}
  /\ SubGoto(j, TryResult(j)) /\ submitting' = CountOut(j)
  /\ UNCHANGED <<jobs, open, closed, sendMu, rest>>

-----------------------------------------------------------------------------
(* Workers                                                                 *)

TakeJob(w) ==
  /\ worker[w] = NoJob /\ jobs # <<>>
  /\ worker' = [worker EXCEPT ![w] = Head(jobs)]
  /\ jobs' = Tail(jobs)
  /\ UNCHANGED <<open, closed, submitting, sendMu, sub, runs, closer, caller>>

Run(w) ==
  /\ worker[w] \in Jobs
  /\ runs' = [runs EXCEPT ![worker[w]] = @ + 1]
  /\ worker' = [worker EXCEPT ![w] = NoJob]
  /\ UNCHANGED <<jobs, open, closed, submitting, sendMu, sub, closer, caller>>

\* The end of the range over the channel: closed and empty.
Leaves(w) == worker[w] = NoJob /\ ~open /\ jobs = <<>>

Exit(w) ==
  /\ Leaves(w)
  /\ worker' = [worker EXCEPT ![w] = "exited"]
  /\ UNCHANGED <<jobs, open, closed, submitting, sendMu, sub, runs, closer, caller>>

-----------------------------------------------------------------------------
(* Shutdown                                                                *)

Shutdown(c) ==
  /\ caller[c] = "off"
  /\ caller' = [caller EXCEPT ![c] = "waiting"]
  /\ IF closer = "off" THEN closed' = TRUE /\ closer' = "waiting"
                       ELSE UNCHANGED <<closed, closer>>
  /\ UNCHANGED <<jobs, open, submitting, sendMu, sub, runs, worker>>

\* Faulty variant: the queue is closed without waiting for submitters.
MayCloseAtOnce == sendMu = "free"

MayClose == submitting = 0 /\ sendMu = "free"

CloseJobs ==
  /\ closer = "waiting" /\ MayClose
  /\ open' = FALSE /\ closer' = "draining"
  /\ UNCHANGED <<jobs, closed, submitting, sendMu, sub, runs, worker, caller>>

\* Faulty variant: the workers are not waited for.
IdleIsDrained == jobs = <<>>

AllExited == \A w \in Workers : worker[w] = "exited"

Drained ==
  /\ closer = "draining" /\ AllExited
  /\ closer' = "drained"
  /\ UNCHANGED <<jobs, open, closed, submitting, sendMu, sub, runs, worker, caller>>

\* A caller returns nil, or its deadline passes first.
Return(c) ==
  /\ caller[c] = "waiting"
  /\ \/ closer = "drained" /\ caller' = [caller EXCEPT ![c] = "drained"]
     \/ caller' = [caller EXCEPT ![c] = "timeout"]
  /\ UNCHANGED <<jobs, open, closed, submitting, sendMu, sub, runs, worker, closer>>

SubmitterStep(j) ==
  \/ Begin(j) \/ SubmitSends(j) \/ SubmitQuits(j)
  \/ TryLock(j) \/ TrySend(j) \/ TryDone(j)
WorkerStep(w) == TakeJob(w) \/ Run(w) \/ Exit(w)

PoolNext ==
  \/ \E j \in Jobs : SubmitterStep(j)
  \/ \E w \in Workers : WorkerStep(w)
  \/ \E c \in Stoppers : Shutdown(c) \/ Return(c)
  \/ CloseJobs \/ Drained

PoolSpec == PoolInit /\ [][PoolNext]_poolVars

\* The Go scheduler runs every goroutine that can run; jobs end.  Nobody has to
\* call Shutdown.
PoolFairSpec ==
  /\ PoolSpec
  /\ \A j \in Jobs : WF_poolVars(SubmitterStep(j))
  /\ \A w \in Workers : WF_poolVars(WorkerStep(w))
  /\ WF_poolVars(CloseJobs) /\ WF_poolVars(Drained)
  /\ \A c \in Stoppers : WF_poolVars(Return(c))

-----------------------------------------------------------------------------
(* Properties                                                              *)

Sending == {"sending", "sent", "accepted"}

\* Every variable has its type, and the queue never exceeds its buffer.
PoolTypeOK ==
  /\ jobs \in Seq(Jobs) /\ Len(jobs) <= QueueSize
  /\ open \in BOOLEAN /\ closed \in BOOLEAN
  /\ submitting \in 0..Cardinality(Jobs) /\ sendMu \in {"free", "held"}
  /\ sub \in [Jobs -> {"new", "begun", "dropping", "dropped", "refused"} \cup Sending]
  /\ runs \in [Jobs -> Nat]
  /\ worker \in [Workers -> Jobs \cup {NoJob, "exited"}]
  /\ closer \in {"off", "waiting", "draining", "drained"}
  /\ caller \in [Stoppers -> {"off", "waiting", "drained", "timeout"}]

\* Nobody is about to send once the queue is closed, so no send panics; this
\* is what the gate, submitWG and sendMu are for.
NoSendAfterClose == ~open => \A j \in Jobs : sub[j] \notin {"begun", "sending"}

\* A job is run once if its submit returned true and never if it returned
\* false; until then it is in the queue or with one worker.
AcceptedRunsOnce ==
  \A j \in Jobs :
    LET queued == Cardinality({i \in 1..Len(jobs) : jobs[i] = j})
        held == Cardinality({w \in Workers : worker[w] = j})
    IN queued + held + runs[j] = IF sub[j] \in {"sent", "accepted"} THEN 1 ELSE 0

\* A Shutdown that returned nil left nothing behind: every accepted job was run.
DrainedMeansDone ==
  \A c \in Stoppers :
    caller[c] = "drained" => \A j \in Jobs : sub[j] = "accepted" => runs[j] = 1

\* The three, whatever Submit, TrySubmit, workers and Shutdown do at once
\* (asyncpool.go).
PoolIsSafe == NoSendAfterClose /\ AcceptedRunsOnce /\ DrainedMeansDone

\* Every submit returns, and what it accepted is run, with Shutdown called or
\* not: nobody waits for a place that never comes.
SubmitReturnsAndRuns ==
  \A j \in Jobs : <>(sub[j] = "refused" \/ (sub[j] = "accepted" /\ runs[j] = 1))

\* A Shutdown once begun drains the pool.
ShutdownDrains == closed ~> closer = "drained"

=============================================================================
