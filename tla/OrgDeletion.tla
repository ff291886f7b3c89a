---------------------------- MODULE OrgDeletion ----------------------------
(***************************************************************************)
(* The deletion of one organisation: the API call that creates a job and   *)
(* sends its Celery task, the worker's saga over PostgreSQL, ClickHouse,   *)
(* Redis and the object store with its receipts and certificate, legal     *)
(* holds, the capture-redaction tasks that archive events while the saga   *)
(* runs, and the operator's report over jobs and receipts.                 *)
(*                                                                         *)
(* A transaction is one step, except where it waits for the advisory lock  *)
(* of the organisation, which legal holds, purge and stages share, or      *)
(* calls another store before it commits.                                  *)
(***************************************************************************)
EXTENDS Naturals, FiniteSets

CONSTANTS Callers,     \* DELETE requests for the organisation
          Jobs,        \* ids of deletion jobs, in the order of created_at
          Workers,     \* Celery worker processes
          Events,      \* session events with an archive object under the org prefix
          Foreign,     \* archived objects whose key is outside the org prefix
          Scopes,      \* scopes of legal holds
          Topologies,  \* settings: the deployed stores, and those configured in the worker
          Scenarios,   \* the sets of calls and redactions that may take place together
          MaxMishaps   \* bound on crashes, failures and duplicate deliveries

Optional == <<"clickhouse", "redis", "objectstore">>
Stores == {"postgres", "clickhouse", "redis", "objectstore"}
NoWorker == "nobody"
NoSnapshot == {"unset"}
Settings == [stores : SUBSET Stores, reach : SUBSET Stores]

DeletionAssumption ==
  /\ Jobs \subseteq Nat \ {0} /\ MaxMishaps \in Nat
  /\ Topologies \subseteq Settings /\ \A t \in Topologies : "postgres" \in t.stores
  /\ NoWorker \notin Workers
  /\ Events \cap Foreign = {}

VARIABLES
  orgRow,     \* organizations row: [status, deleted]
  holds,      \* scopes with an active legal hold
  job,        \* org_deletion_jobs with their receipts
  sent,       \* tasks in the maintenance queue, by job
  old,        \* stores that still hold data from before the purge
  mutating,   \* an ALTER TABLE ... DELETE is under way in ClickHouse
  archived,   \* objects named by session_events.archived_to
  objects,    \* objects in the object store
  advisory,   \* holder of the organisation's advisory lock
  deployed,   \* the settings in force
  req,        \* API calls
  work,       \* worker runs
  capture,    \* capture-redaction tasks
  report,     \* the operator's evidence report
  stranded,   \* history: jobs nobody will finish
  leaked,     \* history: archives whose compensation did not happen
  mishaps     \* faults so far

deletionVars == <<orgRow, holds, job, sent, old, mutating, archived, objects, advisory,
                  deployed, req, work, capture, report, stranded, leaked, mishaps>>

NoReceipts == [s \in Stores |-> "none"]
Idle == [step |-> "idle", job |-> 0, settings |-> [stores |-> {}, reach |-> {}], stage |-> 0,
         got |-> NoReceipts, uris |-> {}, listed |-> {}, unreachable |-> "none"]

ReceiptMaps == [Stores -> {"none", "verified", "not_applicable", "failed"}]
Archives == Events \cup Foreign
JobRows == [status : {"absent", "pending", "running", "succeeded", "failed", "hold_blocked"},
            receipts : ReceiptMaps, snap : (SUBSET Archives) \cup {NoSnapshot}]
CallRecords == [step : {"none", "new", "send", "commit", "undo", "refused", "done"},
                job : Jobs \cup {0}]
Runs == [step : {"idle", "claim", "lock", "purge", "publish", "stage", "erase", "wait", "delete",
                 "fail"},
         job : Jobs \cup {0}, settings : Settings, stage : 0 .. 4, got : ReceiptMaps,
         uris : SUBSET Archives, listed : SUBSET Events, unreachable : Stores \cup {"none"}]
Redactions == [step : {"none", "idle", "redact", "upload", "attach", "compensate", "done"},
               row : BOOLEAN]

DeletionTypeOK ==
  /\ orgRow \in [status : {"active", "suspended", "cancelled"}, deleted : BOOLEAN]
  /\ holds \subseteq Scopes
  /\ job \in [Jobs -> JobRows]
  /\ sent \subseteq Jobs
  /\ old \subseteq Stores \ {"objectstore"} /\ mutating \in BOOLEAN
  /\ archived \subseteq Archives /\ objects \subseteq Archives
  /\ advisory \in Workers \cup {NoWorker}
  /\ deployed \in Topologies
  /\ req \in [Callers -> CallRecords]
  /\ work \in [Workers -> Runs]
  /\ capture \in [Events -> Redactions]
  /\ report \in [jobs : SUBSET Jobs, shown : SUBSET ReceiptMaps]
  /\ leaked \subseteq Events /\ mishaps \in 0 .. MaxMishaps

DeletionInit ==
  /\ orgRow = [status |-> "active", deleted |-> FALSE]
  /\ holds = {}
  /\ job = [j \in Jobs |-> [status |-> "absent", receipts |-> NoReceipts, snap |-> NoSnapshot]]
  /\ sent = {} /\ old = Stores \ {"objectstore"} /\ mutating = FALSE
  /\ archived = Foreign /\ objects = Foreign
  /\ advisory = NoWorker
  /\ deployed \in Topologies
  /\ \E active \in Scenarios :
       /\ req = [c \in Callers |-> [step |-> IF c \in active THEN "new" ELSE "none", job |-> 0]]
       /\ capture = [e \in Events |-> [step |-> IF e \in active THEN "idle" ELSE "none",
                                        row |-> FALSE]]
  /\ work = [w \in Workers |-> Idle]
  /\ report = [jobs |-> {}, shown |-> {}]
  /\ stranded = {} /\ leaked = {} /\ mishaps = 0

Mishap == mishaps < MaxMishaps /\ mishaps' = mishaps + 1

(*-------------------------- the API: organisations ------------------------*)

\* get_organization does not find an organisation that was purged.
Present == ~orgRow.deleted

\* Ids of jobs that some call has already taken.
IdsTaken == {req[c].job : c \in Callers}

\* _latest_deletion_job_status: the newest committed job, if there is one.
LatestStatus ==
  LET made == {j \in Jobs : job[j].status # "absent"}
  IN  IF made = {} THEN "none" ELSE job[CHOOSE j \in made : \A k \in made : k <= j].status

\* get_organization and _assert_deletion_allowed: not for a deleted organisation, not under
\* a hold, and for a cancelled one only when its latest job failed.
DeletionAllowed ==
  /\ Present /\ holds = {}
  /\ orgRow.status = "cancelled" => LatestStatus = "failed"

\* The row is inserted and flushed; nobody sees it before the commit.
CreateJobRow(c) ==
  /\ req[c].step = "new"
  /\ \/ /\ DeletionAllowed
        /\ \E j \in Jobs \ IdsTaken :
             /\ \A k \in Jobs \ IdsTaken : j <= k
             /\ req' = [req EXCEPT ![c] = [step |-> "send", job |-> j]]
     \/ /\ ~DeletionAllowed
        /\ req' = [req EXCEPT ![c].step = "refused"]
  /\ UNCHANGED <<orgRow, holds, job, sent, old, mutating, archived, objects, advisory, deployed,
                 work, capture, report, stranded, leaked, mishaps>>

\* send_task in a thread under a timeout: when the wait ends first the call takes it for a
\* failure, whether or not the task goes out.
DispatchEnqueue(c) ==
  /\ req[c].step = "send"
  /\ \/ sent' = sent \cup {req[c].job} /\ UNCHANGED mishaps
        /\ req' = [req EXCEPT ![c].step = "commit"]
     \/ Mishap /\ sent' \in {sent, sent \cup {req[c].job}}
        /\ req' = [req EXCEPT ![c].step = "undo"]
  /\ UNCHANGED <<orgRow, holds, job, old, mutating, archived, objects, advisory, deployed,
                 work, capture, report, stranded, leaked>>

\* Cancel the organisation and commit; or commit the job as failed; or die before either.
FinishRequest(c) ==
  /\ req[c].step \in {"commit", "undo"}
  /\ \/ /\ job' = [job EXCEPT ![req[c].job].status =
                     IF req[c].step = "commit" THEN "pending" ELSE "failed"]
        /\ orgRow' = IF req[c].step = "commit" /\ ~orgRow.deleted
                    THEN [orgRow EXCEPT !.status = "cancelled"] ELSE orgRow
        /\ UNCHANGED mishaps
     \/ Mishap /\ UNCHANGED <<job, orgRow>>
  /\ req' = [req EXCEPT ![c].step = "done"]
  /\ UNCHANGED <<holds, sent, old, mutating, archived, objects, advisory, deployed,
                 work, capture, report, stranded, leaked>>

SuspendOrg ==
  /\ ~orgRow.deleted /\ orgRow.status # "suspended"
  /\ orgRow' = [orgRow EXCEPT !.status = "suspended"]
  /\ UNCHANGED <<holds, job, sent, old, mutating, archived, objects, advisory, deployed, req,
                 work, capture, report, stranded, leaked, mishaps>>

(*------------------------------ legal holds ------------------------------*)

\* Faulty variant: a hold is inserted without the advisory lock.
UnlockedHold(s) ==
  /\ s \notin holds
  /\ holds' = holds \cup {s}
  /\ UNCHANGED <<orgRow, job, sent, old, mutating, archived, objects, advisory, deployed, req,
                 work, capture, report, stranded, leaked, mishaps>>

\* set_hold: one active hold for a scope, inserted under the advisory lock.
SetHold(s) ==
  /\ s \notin holds /\ advisory = NoWorker
  /\ holds' = holds \cup {s}
  /\ UNCHANGED <<orgRow, job, sent, old, mutating, archived, objects, advisory, deployed, req,
                 work, capture, report, stranded, leaked, mishaps>>

\* clear_hold takes no lock.
ClearHold(s) ==
  /\ s \in holds
  /\ holds' = holds \ {s}
  /\ UNCHANGED <<orgRow, job, sent, old, mutating, archived, objects, advisory, deployed, req,
                 work, capture, report, stranded, leaked, mishaps>>

(*--------------------------- the worker's saga ---------------------------*)

\* Receipts as the running transaction sees them: its own writes over committed ones.
Receipt(w, s) == IF work[w].got[s] # "none" THEN work[w].got[s]
                 ELSE job[work[w].job].receipts[s]
Merged(w) == [s \in Stores |-> Receipt(w, s)]

Free(w) == IF advisory = w THEN NoWorker ELSE advisory

\* An exception of either transaction: it is rolled back, its locks and receipts are gone.
RollBack(w, store) ==
  /\ work' = [work EXCEPT ![w] = [@ EXCEPT !.step = "fail", !.got = NoReceipts,
                                           !.unreachable = store]]
  /\ advisory' = Free(w)

\* A task is delivered; get_settings is read once for the run.
DeliverTask(w) ==
  /\ work[w].step = "idle"
  /\ \E j \in sent :
       /\ sent' = sent \ {j}
       /\ work' = [work EXCEPT ![w] = [Idle EXCEPT !.step = "claim", !.job = j,
                                                   !.settings = deployed]]
  /\ UNCHANGED <<orgRow, holds, job, old, mutating, archived, objects, advisory, deployed, req,
                 capture, report, stranded, leaked, mishaps>>

RowLocked(w) == \E v \in Workers \ {w} : /\ work[v].job = work[w].job
                                          /\ work[v].step \in {"lock", "purge"}

Claimable(j) == job[j].status \in {"pending", "failed"}

\* _claim_job: the update waits for another claim of the row. A task whose job is not
\* committed yet, or is running or ended, is skipped and acknowledged.
ClaimDeletionJob(w) ==
  /\ work[w].step = "claim" /\ ~RowLocked(w)
  /\ LET j == work[w].job
     IN  \/ /\ Claimable(j)
            /\ work' = [work EXCEPT ![w].step = "lock"] /\ UNCHANGED stranded
         \/ /\ ~Claimable(j)
            /\ work' = [work EXCEPT ![w] = Idle]
            /\ stranded' = IF job[j].status = "absent" THEN stranded \cup {j} ELSE stranded
  /\ UNCHANGED <<orgRow, holds, job, sent, old, mutating, archived, objects, advisory, deployed,
                 req, capture, report, leaked, mishaps>>

\* _finish_if_hold_blocked and _resolve_archived_uris.
CheckHold(w) ==
  /\ work[w].step = "lock" /\ advisory = NoWorker
  /\ LET j == work[w].job
     IN  \/ /\ holds # {}
            /\ job' = [job EXCEPT ![j].status = "hold_blocked"]
            /\ work' = [work EXCEPT ![w] = Idle] /\ UNCHANGED advisory
         \/ /\ holds = {}
            /\ advisory' = w
            /\ work' = [work EXCEPT ![w] =
                  [@ EXCEPT !.step = "purge",
                            !.uris = IF job[j].snap = NoSnapshot THEN archived ELSE job[j].snap]]
            /\ UNCHANGED job
  /\ UNCHANGED <<orgRow, holds, sent, old, mutating, archived, objects, deployed, req,
                 capture, report, stranded, leaked, mishaps>>

\* The PostgreSQL stage and the commit of the first transaction; the delete waits for a
\* redaction that has updated an event. The answer of the commit may be lost.
PurgePostgres(w) ==
  /\ work[w].step = "purge"
  /\ \A e \in Events : ~capture[e].row
  /\ LET j == work[w].job
         again == job[j].receipts["postgres"] = "verified"
     IN  /\ job' = [job EXCEPT ![j] = [status |-> "running", snap |-> work[w].uris,
                                       receipts |-> [@.receipts EXCEPT !["postgres"] = "verified"]]]
         /\ IF again THEN UNCHANGED <<old, archived, orgRow>>
            ELSE /\ old' = old \ {"postgres"} /\ archived' = {}
                 /\ orgRow' = [status |-> "cancelled", deleted |-> TRUE]
  /\ \/ /\ work' = [work EXCEPT ![w].step = "publish"] /\ advisory' = NoWorker
        /\ UNCHANGED mishaps
     \/ Mishap /\ RollBack(w, "none")
  /\ UNCHANGED <<holds, sent, mutating, objects, deployed, req, capture, report, stranded, leaked>>

\* The invalidation of cached model policies must go out before the other stores.
PublishInvalidate(w) ==
  /\ work[w].step = "publish"
  /\ \/ /\ work' = [work EXCEPT ![w] = [@ EXCEPT !.step = "stage", !.stage = 1]]
        /\ UNCHANGED <<advisory, mishaps>>
     \/ Mishap /\ RollBack(w, "none")
  /\ UNCHANGED <<orgRow, holds, job, sent, old, mutating, archived, objects, deployed, req,
                 capture, report, stranded, leaked>>

NextStage(w, s, r) ==
  LET run == work[w]
  IN  [work EXCEPT ![w] = [run EXCEPT !.step = "stage", !.stage = run.stage + 1,
                                      !.got = [run.got EXCEPT ![s] = r]]]

\* parse_deployed_stores and the checks of the stores' settings, as read by this run.
Deployed(w, s) == s \in work[w].settings.stores
Reachable(w, s) == s \in work[w].settings.reach

\* _run_optional_store up to the call of its runner: record an omitted store, fail on an
\* unreachable one, and require that there is no hold. The code also skips a store whose
\* receipt is terminal. The receipts of these stores are committed together with the final
\* status, so a job that can be claimed has none.
RunOptionalStore(w) ==
  /\ work[w].step = "stage" /\ work[w].stage <= 3
  /\ LET s == Optional[work[w].stage]
     IN  \/ /\ ~Deployed(w, s)
            /\ work' = NextStage(w, s, "not_applicable") /\ UNCHANGED advisory
         \/ /\ Deployed(w, s) /\ ~Reachable(w, s)
            /\ RollBack(w, s)
         \/ /\ Deployed(w, s) /\ Reachable(w, s)
            /\ advisory \in {NoWorker, w}
            /\ IF holds # {} THEN RollBack(w, "none")
               ELSE work' = [work EXCEPT ![w].step = "erase"] /\ advisory' = w
  /\ UNCHANGED <<orgRow, holds, job, sent, old, mutating, archived, objects, deployed, req,
                 capture, report, stranded, leaked, mishaps>>

\* stage_clickhouse: the mutations are issued, then the counts are polled to zero or to the
\* deadline. A mutation applies some time after it was accepted.
MutateClickHouse(w) ==
  /\ work[w].step = "erase" /\ Optional[work[w].stage] = "clickhouse"
  /\ mutating' = TRUE
  /\ work' = [work EXCEPT ![w].step = "wait"]
  /\ UNCHANGED <<orgRow, holds, job, sent, old, archived, objects, advisory, deployed, req,
                 capture, report, stranded, leaked, mishaps>>

ApplyMutation ==
  /\ mutating /\ mutating' = FALSE
  /\ old' = old \ {"clickhouse"}
  /\ UNCHANGED <<orgRow, holds, job, sent, archived, objects, advisory, deployed, req, work,
                 capture, report, stranded, leaked, mishaps>>

\* Faulty variant: the stage ends once the mutations are accepted.
DoNotWait(w) ==
  /\ work[w].step = "wait"
  /\ work' = NextStage(w, "clickhouse", "verified")
  /\ UNCHANGED <<orgRow, holds, job, sent, old, mutating, archived, objects, advisory, deployed,
                 req, capture, report, stranded, leaked, mishaps>>

WaitAbsent(w) ==
  /\ work[w].step = "wait"
  /\ \/ /\ "clickhouse" \notin old
        /\ work' = NextStage(w, "clickhouse", "verified") /\ UNCHANGED <<advisory, mishaps>>
     \/ Mishap /\ RollBack(w, "none")
  /\ UNCHANGED <<orgRow, holds, job, sent, old, mutating, archived, objects, deployed, req,
                 capture, report, stranded, leaked>>

\* stage_redis: a scan returns every key that exists throughout it.
ScanDelete(w) ==
  /\ work[w].step = "erase" /\ Optional[work[w].stage] = "redis"
  /\ \/ /\ old' = old \ {"redis"}
        /\ work' = NextStage(w, "redis", "verified") /\ UNCHANGED <<advisory, mishaps>>
     \/ Mishap /\ RollBack(w, "none") /\ UNCHANGED old
  /\ UNCHANGED <<orgRow, holds, job, sent, mutating, archived, objects, deployed, req,
                 capture, report, stranded, leaked>>

\* delete_objectstore_sync: the archived URIs, then all keys under the prefix are listed ...
ListObjects(w) ==
  /\ work[w].step = "erase" /\ Optional[work[w].stage] = "objectstore"
  /\ objects' = objects \ work[w].uris
  /\ work' = [work EXCEPT ![w] = [@ EXCEPT !.step = "delete", !.listed = objects' \cap Events]]
  /\ UNCHANGED <<orgRow, holds, job, sent, old, mutating, archived, advisory, deployed, req,
                 capture, report, stranded, leaked, mishaps>>

\* ... and deleted one by one; a failure leaves some of them.
DeleteListed(w) ==
  /\ work[w].step = "delete"
  /\ \/ /\ objects' = objects \ work[w].listed
        /\ work' = NextStage(w, "objectstore", "verified") /\ UNCHANGED <<advisory, mishaps>>
     \/ Mishap /\ RollBack(w, "none")
        /\ \E some \in SUBSET work[w].listed : objects' = objects \ some
  /\ UNCHANGED <<orgRow, holds, job, sent, old, mutating, archived, deployed, req,
                 capture, report, stranded, leaked>>

\* _all_receipts_satisfied: deployed stores verified, all others not applicable.
ReceiptsSatisfied(w) ==
  \A s \in Stores : Receipt(w, s) = IF Deployed(w, s) THEN "verified" ELSE "not_applicable"

\* Faulty variant: the certificate is committed before the receipts.
CertifyFirst(w) ==
  /\ work[w].step = "stage" /\ work[w].stage = 4
  /\ advisory \in {NoWorker, w}
  /\ job' = [job EXCEPT ![work[w].job].status =
                IF ReceiptsSatisfied(w) THEN "succeeded" ELSE "failed"]
  /\ work' = [work EXCEPT ![w] = Idle] /\ advisory' = NoWorker
  /\ UNCHANGED <<orgRow, holds, sent, old, mutating, archived, objects, deployed, req,
                 capture, report, stranded, leaked, mishaps>>

\* _finalize_job and the commit of the second transaction.
FinalizeJob(w) ==
  /\ work[w].step = "stage" /\ work[w].stage = 4
  /\ advisory \in {NoWorker, w}
  /\ \/ /\ job' = [job EXCEPT ![work[w].job] =
              [@ EXCEPT !.status = IF ReceiptsSatisfied(w) THEN "succeeded" ELSE "failed",
                        !.receipts = Merged(w)]]
        /\ work' = [work EXCEPT ![w] = Idle] /\ advisory' = NoWorker
        /\ UNCHANGED mishaps
     \/ Mishap /\ RollBack(w, "none") /\ UNCHANGED job
  /\ UNCHANGED <<orgRow, holds, sent, old, mutating, archived, objects, deployed, req,
                 capture, report, stranded, leaked>>

\* Faulty variant: the failure of a run is only logged.
LogJobFailed(w) ==
  /\ work[w].step = "fail"
  /\ work' = [work EXCEPT ![w] = Idle]
  /\ UNCHANGED <<orgRow, holds, job, sent, old, mutating, archived, objects, advisory, deployed,
                 req, capture, report, stranded, leaked, mishaps>>

\* _record_job_failed, in a transaction of its own; when it fails too, the job stays as it is.
RecordJobFailed(w) ==
  /\ work[w].step = "fail"
  /\ LET j == work[w].job
         u == work[w].unreachable
         receipts == IF u = "none" THEN job[j].receipts
                     ELSE [job[j].receipts EXCEPT ![u] = "failed"]
     IN  \/ /\ job' = [job EXCEPT ![j] = [@ EXCEPT !.status = "failed", !.receipts = receipts]]
            /\ UNCHANGED <<stranded, mishaps>>
         \/ Mishap /\ stranded' = stranded \cup {j} /\ UNCHANGED job
  /\ work' = [work EXCEPT ![w] = Idle]
  /\ UNCHANGED <<orgRow, holds, sent, old, mutating, archived, objects, advisory, deployed, req,
                 capture, report, leaked>>

\* The process dies: reject_on_worker_lost gives the task back to the queue.
LoseWorker(w) ==
  /\ work[w].step # "idle" /\ Mishap
  /\ sent' = sent \cup {work[w].job}
  /\ stranded' = IF job[work[w].job].status = "running" THEN stranded \cup {work[w].job}
                 ELSE stranded
  /\ work' = [work EXCEPT ![w] = Idle] /\ advisory' = Free(w)
  /\ UNCHANGED <<orgRow, holds, job, old, mutating, archived, objects, deployed, req, capture,
                 report, leaked>>

\* The broker delivers a task again while it runs, or after it ended.
RedeliverTask ==
  /\ Mishap
  /\ \E j \in IdsTaken \ {0} : j \notin sent /\ sent' = sent \cup {j}
  /\ UNCHANGED <<orgRow, holds, job, old, mutating, archived, objects, advisory, deployed, req,
                 work, capture, report, stranded, leaked>>

\* The operator changes the deployed topology.
Redeploy ==
  /\ \E t \in Topologies : t # deployed /\ deployed' = t
  /\ Mishap
  /\ UNCHANGED <<orgRow, holds, job, sent, old, mutating, archived, objects, advisory, req,
                 work, capture, report, stranded, leaked>>

(*--------------------------- capture redaction ---------------------------*)

Capture(e, s, r) == capture' = [capture EXCEPT ![e] = [step |-> s, row |-> r]]

\* resolve_capture_mode: the purge removed the policies, which leaves the default mode
\* (nothing to store). In mode "redacted" the event is updated first, and stays locked.
ApplyMode(e) ==
  /\ capture[e].step = "idle"
  /\ \/ Capture(e, "done", FALSE)
     \/ ~orgRow.deleted /\ Capture(e, "redact", FALSE)
     \/ ~orgRow.deleted /\ Capture(e, "upload", FALSE)
  /\ UNCHANGED <<orgRow, holds, job, sent, old, mutating, archived, objects, advisory, deployed,
                 req, work, report, stranded, leaked, mishaps>>

PersistRedacted(e) ==
  /\ capture[e].step = "redact"
  /\ Capture(e, "upload", ~orgRow.deleted)
  /\ UNCHANGED <<orgRow, holds, job, sent, old, mutating, archived, objects, advisory, deployed,
                 req, work, report, stranded, leaked, mishaps>>

PutArchiveBlob(e) ==
  /\ capture[e].step = "upload"
  /\ \/ objects' = objects \cup {e} /\ Capture(e, "attach", capture[e].row) /\ UNCHANGED mishaps
     \/ Mishap /\ UNCHANGED objects /\ Capture(e, "done", FALSE)
  /\ UNCHANGED <<orgRow, holds, job, sent, old, mutating, archived, advisory, deployed,
                 req, work, report, stranded, leaked>>

\* Faulty variant: an update that matches no row is not an error.
AttachAnyway(e) ==
  /\ capture[e].step = "attach"
  /\ archived' = IF orgRow.deleted THEN archived ELSE archived \cup {e}
  /\ Capture(e, "done", FALSE)
  /\ UNCHANGED <<orgRow, holds, job, sent, old, mutating, objects, advisory, deployed,
                 req, work, report, stranded, leaked, mishaps>>

\* _set_archived_to and the commit: an update that matches no row, or a commit that fails
\* or loses its answer, leads to the compensation.
SetArchivedTo(e) ==
  /\ capture[e].step = "attach"
  /\ \/ /\ ~orgRow.deleted
        /\ archived' = archived \cup {e}
        /\ \/ Capture(e, "done", FALSE) /\ UNCHANGED mishaps
           \/ Mishap /\ Capture(e, "compensate", FALSE)
     \/ /\ orgRow.deleted
        /\ Capture(e, "compensate", FALSE) /\ UNCHANGED <<archived, mishaps>>
     \/ Mishap /\ Capture(e, "compensate", FALSE) /\ UNCHANGED archived
  /\ UNCHANGED <<orgRow, holds, job, sent, old, mutating, objects, advisory, deployed,
                 req, work, report, stranded, leaked>>

\* _compensate_upload is best effort.
CompensateUpload(e) ==
  /\ capture[e].step = "compensate"
  /\ \/ objects' = objects \ {e} /\ UNCHANGED <<leaked, mishaps>>
     \/ Mishap /\ leaked' = leaked \cup {e} /\ UNCHANGED objects
  /\ Capture(e, "done", FALSE)
  /\ UNCHANGED <<orgRow, holds, job, sent, old, mutating, archived, advisory, deployed,
                 req, work, report, stranded>>

\* The process dies after the upload; the task is delivered again and starts over.
LoseRedaction(e) ==
  /\ capture[e].step \in {"redact", "upload", "attach", "compensate"} /\ Mishap
  /\ Capture(e, "idle", FALSE)
  /\ leaked' = IF e \in objects THEN leaked \cup {e} ELSE leaked
  /\ UNCHANGED <<orgRow, holds, job, sent, old, mutating, archived, objects, advisory, deployed,
                 req, work, report, stranded>>

(*--------------------------- the evidence report -------------------------*)

\* get_evidence_deletions: the jobs are one statement (what matters of their rows is which
\* ones are shown as succeeded) ...
ReadJobs ==
  /\ report' = [report EXCEPT !.jobs = {j \in Jobs : job[j].status = "succeeded"}]
  /\ UNCHANGED <<orgRow, holds, job, sent, old, mutating, archived, objects, advisory, deployed,
                 req, work, capture, stranded, leaked, mishaps>>

\* ... and the receipts of these jobs a later one.
ReadReceipts ==
  /\ report' = [jobs |-> {}, shown |-> {job[j].receipts : j \in report.jobs}]
  /\ UNCHANGED <<orgRow, holds, job, sent, old, mutating, archived, objects, advisory, deployed,
                 req, work, capture, stranded, leaked, mishaps>>

(*------------------------------- the system ------------------------------*)

SagaStep(w) ==
  \/ ClaimDeletionJob(w) \/ CheckHold(w) \/ PurgePostgres(w) \/ PublishInvalidate(w)
  \/ RunOptionalStore(w) \/ MutateClickHouse(w) \/ WaitAbsent(w) \/ ScanDelete(w)
  \/ ListObjects(w) \/ DeleteListed(w) \/ FinalizeJob(w) \/ RecordJobFailed(w)

CaptureStep(e) == \/ ApplyMode(e) \/ PersistRedacted(e) \/ PutArchiveBlob(e)
                  \/ SetArchivedTo(e) \/ CompensateUpload(e)

DeletionNext ==
  \/ \E c \in Callers : CreateJobRow(c) \/ DispatchEnqueue(c) \/ FinishRequest(c)
  \/ SuspendOrg
  \/ \E s \in Scopes : SetHold(s) \/ ClearHold(s)
  \/ \E w \in Workers : DeliverTask(w) \/ SagaStep(w) \/ LoseWorker(w)
  \/ ApplyMutation \/ RedeliverTask \/ Redeploy
  \/ \E e \in Events : CaptureStep(e) \/ LoseRedaction(e)
  \/ ReadJobs \/ ReadReceipts

\* Calls and tasks that were started go on, queued tasks are delivered, ClickHouse applies
\* its mutations, and a redaction that has locked an event ends.
DeletionFairness ==
  /\ \A c \in Callers : WF_deletionVars(DispatchEnqueue(c) \/ FinishRequest(c))
  /\ \A w \in Workers : WF_deletionVars(DeliverTask(w)) /\ SF_deletionVars(SagaStep(w))
  /\ WF_deletionVars(ApplyMutation)
  /\ \A e \in Events : WF_deletionVars(PersistRedacted(e) \/ PutArchiveBlob(e) \/ SetArchivedTo(e))

DeletionSpec == DeletionInit /\ [][DeletionNext]_deletionVars /\ DeletionFairness

(*------------------------------- properties ------------------------------*)

\* A job succeeds only for erased stores: wherever its receipts say "verified", no data from
\* before the purge is left, whichever worker erased it and however often the saga was
\* restarted (_finalize_job reads the receipts, not the stores).
CertificateMeansErased ==
  \A j \in Jobs : job[j].status = "succeeded" =>
    \A s \in Stores : job[j].receipts[s] = "verified" => s \notin old

\* No archive outlives the certificate: an object under the prefix that is still there after
\* a verified object-store receipt belongs to a redaction that has yet to notice that its
\* event is gone, or to one whose compensation failed or never ran.
NoArchiveOutlivesCertificate ==
  \A j \in Jobs : job[j].status = "succeeded" /\ job[j].receipts["objectstore"] = "verified" =>
    \A e \in Events \cap objects : capture[e].step \in {"attach", "compensate"} \/ e \in leaked

\* No store is erased while a legal hold is active: set_hold and the stages share the
\* advisory lock. (A ClickHouse mutation accepted before may still apply.)
HoldStopsErasure ==
  [][holds # {} => /\ old' \cap {"postgres", "redis"} = old \cap {"postgres", "redis"}
                   /\ ~mutating => ~mutating'
                   /\ \A e \in objects \ objects' :
                        e \in Events /\ capture[e].step = "compensate"]_deletionVars

\* The report never shows a succeeded job with a store that is neither verified nor omitted,
\* although it reads jobs and receipts in two statements.
ReportIsConsistent ==
  \A r \in report.shown : \A s \in Stores : r[s] \in {"verified", "not_applicable"}

\* The deletion is honest: the three invariants, and the hold, for overlapping and restarted
\* sagas of every job (org_deletion.py, org_deletion_stores.py, capture_redaction.py,
\* legal_holds.py).
DeletionIsHonest ==
  /\ [](CertificateMeansErased /\ NoArchiveOutlivesCertificate /\ ReportIsConsistent)
  /\ HoldStopsErasure

\* A job that was accepted ends as succeeded, failed or hold_blocked, unless its task was
\* taken before the API committed the row, its worker died after the purge, or the failure
\* could not be recorded.
EveryJobEnds ==
  \A j \in Jobs : (job[j].status \in {"pending", "running"}) ~>
                    (job[j].status \in {"succeeded", "failed", "hold_blocked"} \/ j \in stranded)

\* "Persist URIs before purge so object-store retries still see non-prefix archives"
\* (org_deletion.py:231): a certificate covers the archives outside the prefix too.
ForeignArchivesErased ==
  \A j \in Jobs : job[j].status = "succeeded" /\ job[j].receipts["objectstore"] = "verified" =>
    Foreign \cap objects = {}
=============================================================================
