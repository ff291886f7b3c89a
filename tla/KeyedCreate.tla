----------------------------- MODULE KeyedCreate -----------------------------
(***************************************************************************)
(* POST /v1/memories as one handler: the idempotency claim, the pipeline    *)
(* (validation, personal data, exact duplicates, near duplicates, temporal  *)
(* conflicts), the insert, the vector after the commit, and the record of   *)
(* the response.  A client repeats a request whose answer it did not get,   *)
(* so several attempts with one key and one body may run at once.           *)
(***************************************************************************)
EXTENDS Integers, Sequences, FiniteSets, SequencesExt, FiniteSetsExt

CONSTANTS
  Attempts,         \* HTTP requests
  Scenarios,        \* attempt -> its key (0: none, -1: too long) and its body
  Redacted,         \* text -> text with the personal data replaced
  FinalizeAttempts,
  MaxFaults         \* bound on faults

VARIABLES
  bodyOf,  \* what the attempts send
  led,     \* ledger: key -> [st, by, body, mem, lapsed]
  rows,    \* memories in the order of their inserts
  pend,    \* pending escalations: sets of two rows
  kpc,     \* step of an attempt
  seen,    \* candidates an attempt loaded: row -> lifecycle revision
  made,    \* the row an attempt inserted, 0 for none
  tries,   \* finalize calls of an attempt
  reply,   \* what an attempt answers or answered: [code, mem]
  faults

kVars == <<bodyOf, led, rows, pend, kpc, seen, made, tries, reply, faults>>

Keys == {bodyOf[a].key : a \in Attempts} \ {0, -1}

NoClaim == [st |-> "none", by |-> 0, body |-> <<>>, mem |-> 0, lapsed |-> FALSE]

CreateInit ==
  /\ bodyOf \in Scenarios
  /\ led = [k \in Keys |-> NoClaim]
  /\ rows = <<>>
  /\ pend = {}
  /\ kpc = [a \in Attempts |-> "start"]
  /\ seen = [a \in Attempts |-> <<>>]
  /\ made = [a \in Attempts |-> 0]
  /\ tries = [a \in Attempts |-> 0]
  /\ reply = [a \in Attempts |-> [code |-> "none", mem |-> 0]]
  /\ faults = 0

Fault == faults < MaxFaults /\ faults' = faults + 1

Step(a, to) == kpc' = [kpc EXCEPT ![a] = to]

Reply(a, code, m) == reply' = [reply EXCEPT ![a] = [code |-> code, mem |-> m]]

(* The answer of an attempt that has no claim to give back. *)
Answer(a, code, m) == Step(a, "done") /\ Reply(a, code, m)

(* http_error_for_write after release_idempotency. *)
Fail(a, code, m) == Step(a, "release") /\ Reply(a, code, m)

-----------------------------------------------------------------------------
(* The request. *)

(* validate_tags, validate_memory_metadata, the session pair *)
FieldsValid(b) == b.fields

(* resolve_write_labels *)
LabelsValid(b) == b.labels

(* parse_idempotency_key: at most MAX_IDEMPOTENCY_KEY_LENGTH characters. *)
KeyValid(b) == b.key # -1

(* _validate_metadata_and_interval: nothing to compare when the start is    *)
(* omitted; it is the time of the request then.                             *)
IntervalValid(b) == b.omitted \/ b.until > b.from

(* The pydantic model and the header are checked before the claim. *)
Reject(a) ==
  /\ kpc[a] = "start"
  /\ ~(FieldsValid(bodyOf[a]) /\ IntervalValid(bodyOf[a]) /\ KeyValid(bodyOf[a]))
  /\ Answer(a, "invalid", 0)
  /\ UNCHANGED <<led, rows, pend, seen, made, tries, faults>>

Claimable(k) == led[k].st = "none" \/ (led[k].st = "held" /\ led[k].lapsed)

(* _reject_idempotency_conflict *)
ClaimRefused(a, k) ==
  CASE led[k].body # bodyOf[a] -> Answer(a, "conflict", 0)
    [] led[k].body = bodyOf[a] /\ led[k].st = "held" -> Answer(a, "in_progress", 0)
    [] OTHER -> Answer(a, "success", led[k].mem)   \* _replay_cached_response

(* begin_idempotency *)
BeginIdempotency(a) ==
  LET k == bodyOf[a].key
  IN  /\ kpc[a] = "start"
      /\ FieldsValid(bodyOf[a]) /\ IntervalValid(bodyOf[a]) /\ KeyValid(bodyOf[a])
      /\ \/ k = 0 /\ Step(a, "command") /\ UNCHANGED <<led, reply, faults>>
         \/ /\ k # 0
            /\ \/ Fault /\ Answer(a, "unavailable", 0) /\ led' = led
               \/ /\ led[k].body \in {<<>>, bodyOf[a]} /\ Claimable(k)
                  /\ led' = [led EXCEPT ![k] =
                       [st |-> "held", by |-> a, body |-> bodyOf[a], mem |-> 0, lapsed |-> FALSE]]
                  /\ Step(a, "command") /\ UNCHANGED <<reply, faults>>
               \/ /\ ~(led[k].body \in {<<>>, bodyOf[a]} /\ Claimable(k))
                  /\ ClaimRefused(a, k)
                  /\ UNCHANGED <<led, faults>>
      /\ UNCHANGED <<rows, pend, seen, made, tries>>

-----------------------------------------------------------------------------
(* The pipeline. *)

(* ValidateStage *)
ContentValid(b) == b.text # "blank"

(* PiiService.process: unsure findings quarantine, sure ones are redacted. *)
Screened(b) ==
  IF b.pii = "unsure" THEN [st |-> "quarantined", text |-> b.text]
  ELSE [st |-> "active", text |-> IF b.pii = "sure" THEN Redacted[b.text] ELSE b.text]

ActiveRows == {i \in DOMAIN rows : rows[i].st = "active"}

SameHash(b) == {i \in ActiveRows : rows[i].text = Screened(b).text}

(* memory_command_from_request stands between the claim and the try block:  *)
(* refused labels end in a 500 and the claim is kept until its lease lapses.*)
Command(a) ==
  /\ kpc[a] = "command"
  /\ IF LabelsValid(bodyOf[a]) THEN Step(a, "screen") /\ reply' = reply
     ELSE Answer(a, "internal", 0)
  /\ UNCHANGED <<led, rows, pend, seen, made, tries, faults>>

(* Validation, personal data and ExactDedupStage, which bumps the counter   *)
(* of the memory it finds.                                                  *)
Screen(a) ==
  LET b == bodyOf[a]
  IN  /\ kpc[a] = "screen"
      /\ \/ ~ContentValid(b) /\ Fail(a, "invalid", 0)
         \/ /\ ContentValid(b)
            /\ IF Screened(b).st = "quarantined" THEN Step(a, "quarantine") /\ reply' = reply
               ELSE \/ \E i \in SameHash(b) : Fail(a, "duplicate", i)
                    \/ SameHash(b) = {} /\ Step(a, "near") /\ reply' = reply
      /\ UNCHANGED <<led, rows, pend, seen, made, tries, faults>>

(* DedupService.find_near_duplicates over the vectors that were stored. *)
NearDuplicates(b) == {i \in ActiveRows : rows[i].vec /\ rows[i].topic = b.topic}

(* EmbedStage, NearDedupStage and the load of the candidates.  An interval  *)
(* that is empty once the start is filled in is an unexpected error.        *)
LoadCandidates(a) ==
  /\ kpc[a] = "near"
  /\ \/ /\ seen' = [seen EXCEPT ![a] = [i \in NearDuplicates(bodyOf[a]) |-> rows[i].rev]]
        /\ IF bodyOf[a].until > bodyOf[a].from THEN Step(a, "insert") /\ reply' = reply
           ELSE Fail(a, "internal", 0)
        /\ faults' = faults
     \/ Fault /\ Fail(a, "embedding", 0) /\ seen' = seen
  /\ UNCHANGED <<led, rows, pend, made, tries>>

(* Faulty variant: an interval that ends when the other starts overlaps it. *)
IntervalsOverlapClosed(x, y) == x.from =< y.until /\ y.from =< x.until

(* Half-open intervals. *)
IntervalsOverlap(x, y) == x.from < y.until /\ y.from < x.until

(* subjects_match: the empty key matches nothing. *)
SubjectsMatch(x, y) == x.subject # "" /\ x.subject = y.subject

(* _decide_one with the default classifier. *)
Decide(x, y) ==
  CASE IntervalsOverlap(x, y) -> "escalate"
    [] ~IntervalsOverlap(x, y) /\ SubjectsMatch(x, y) /\ x.from > y.from -> "supersedes"
    [] OTHER -> "none"

Decided(a, d) == {i \in DOMAIN seen[a] : Decide(bodyOf[a], rows[i]) = d}

-----------------------------------------------------------------------------
(* The transaction. *)

NewRow(a, st) ==
  LET b == bodyOf[a]
  IN  [st |-> st, text |-> Screened(b).text, topic |-> b.topic, subject |-> b.subject,
       from |-> b.from, until |-> b.until, rev |-> 1, vec |-> FALSE, key |-> b.key,
       saw |-> DOMAIN seen[a]]

TargetsAsObserved(a) ==
  \A i \in Decided(a, "supersedes") : rows[i].st = "active" /\ rows[i].rev = seen[a][i]

(* Faulty variant: no unique index on the hash of active memories. *)
HashFreeAlways(a) == TRUE

(* memories_active_content_hash *)
HashFree(a) == SameHash(bodyOf[a]) = {}

Supersede(a) ==
  [i \in DOMAIN rows |->
     IF i \in Decided(a, "supersedes")
     THEN [rows[i] EXCEPT !.st = "superseded", !.rev = @ + 1] ELSE rows[i]]

(* _insert_active_memory_tx: insert, supersessions and escalations commit   *)
(* together; when the answer of the commit is lost the handler fails.       *)
InsertActive(a) ==
  /\ kpc[a] = "insert"
  /\ \/ /\ ~HashFree(a) /\ \E i \in SameHash(bodyOf[a]) : Fail(a, "duplicate", i)
        /\ UNCHANGED <<rows, pend, made, faults>>
     \/ /\ HashFree(a) /\ ~TargetsAsObserved(a)
        /\ Fail(a, "stale", 0)
        /\ UNCHANGED <<rows, pend, made, faults>>
     \/ /\ HashFree(a) /\ TargetsAsObserved(a)
        /\ rows' = Append(Supersede(a), NewRow(a, "active"))
        /\ pend' = pend \cup {{i, Len(rows) + 1} : i \in Decided(a, "escalate")}
        /\ made' = [made EXCEPT ![a] = Len(rows) + 1]
        /\ \/ Step(a, "vector") /\ UNCHANGED <<reply, faults>>
           \/ Fault /\ Fail(a, "internal", 0)
     \/ Fault /\ Fail(a, "internal", 0) /\ UNCHANGED <<rows, pend, made>>
  /\ UNCHANGED <<led, seen, tries>>

(* _persist_quarantine: no hash, no vector, no conflicts. *)
InsertQuarantined(a) ==
  /\ kpc[a] = "quarantine"
  /\ \/ /\ rows' = Append(rows, NewRow(a, "quarantined"))
        /\ made' = [made EXCEPT ![a] = Len(rows) + 1]
        /\ \/ Step(a, "finalize") /\ UNCHANGED <<reply, faults>>
           \/ Fault /\ Fail(a, "internal", 0)
     \/ Fault /\ Fail(a, "internal", 0) /\ UNCHANGED <<rows, made>>
  /\ UNCHANGED <<led, pend, seen, tries>>

(* The vector is best effort; it is refused for a row that is not active. *)
AfterCommit(a) ==
  /\ kpc[a] = "vector"
  /\ \/ /\ rows' = IF rows[made[a]].st = "active" THEN [rows EXCEPT ![made[a]].vec = TRUE] ELSE rows
        /\ faults' = faults
     \/ Fault /\ rows' = rows
  /\ Step(a, "finalize")
  /\ UNCHANGED <<led, pend, seen, made, tries, reply>>

-----------------------------------------------------------------------------
OwnsClaim(a) == LET k == bodyOf[a].key IN k # 0 /\ led[k].st = "held" /\ led[k].by = a

(* Faulty variant: the failure to record the response is only logged. *)
AfterFinalizeFailedOpen(a) ==
  IF tries[a] + 1 < FinalizeAttempts THEN UNCHANGED <<kpc, reply>> ELSE Answer(a, "success", made[a])

(* The last failed attempt ends in a 503, never in a success. *)
AfterFinalizeFailed(a) ==
  IF tries[a] + 1 < FinalizeAttempts THEN UNCHANGED <<kpc, reply>> ELSE Answer(a, "unavailable", 0)

(* commit_idempotency_fail_closed: one call of finalize.  It may have taken *)
(* effect although it failed; a lost claim ends the loop at once.           *)
Finalize(a) ==
  LET k == bodyOf[a].key
      record == [led EXCEPT ![k].st = "done", ![k].mem = made[a]]
  IN  /\ kpc[a] = "finalize"
      /\ tries' = [tries EXCEPT ![a] = @ + 1]
      /\ \/ k = 0 /\ Answer(a, "success", made[a]) /\ UNCHANGED <<led, faults>>
         \/ /\ OwnsClaim(a)
            /\ led' = record
            /\ \/ Answer(a, "success", made[a]) /\ faults' = faults
               \/ Fault /\ AfterFinalizeFailed(a)
         \/ /\ k # 0 /\ ~OwnsClaim(a)
            /\ Answer(a, "unavailable", 0)
            /\ UNCHANGED <<led, faults>>
         \/ k # 0 /\ Fault /\ AfterFinalizeFailed(a) /\ led' = led
      /\ UNCHANGED <<rows, pend, seen, made>>

(* release_idempotency: only the own claim, errors ignored. *)
Release(a) ==
  LET k == bodyOf[a].key
  IN  /\ kpc[a] = "release"
      /\ Step(a, "done")
      /\ \/ /\ OwnsClaim(a)
            /\ led' = [led EXCEPT ![k] = NoClaim] /\ faults' = faults
         \/ ~OwnsClaim(a) /\ UNCHANGED <<led, faults>>
         \/ k # 0 /\ Fault /\ led' = led
      /\ UNCHANGED <<rows, pend, seen, made, tries, reply>>

(* The process of a handler ends. *)
Dies(a) ==
  /\ kpc[a] \notin {"start", "done", "dead"}
  /\ Fault
  /\ Step(a, "dead")
  /\ UNCHANGED <<led, rows, pend, seen, made, tries, reply>>

LeaseLapses(k) ==
  /\ led[k].st = "held" /\ ~led[k].lapsed
  /\ Fault
  /\ led' = [led EXCEPT ![k].lapsed = TRUE]
  /\ UNCHANGED <<rows, pend, kpc, seen, made, tries, reply>>

CreateNext ==
  /\ \/ \E a \in Attempts :
          \/ Reject(a) \/ BeginIdempotency(a) \/ Command(a) \/ Screen(a) \/ LoadCandidates(a)
          \/ InsertActive(a) \/ InsertQuarantined(a) \/ AfterCommit(a)
          \/ Finalize(a) \/ Release(a) \/ Dies(a)
     \/ \E k \in Keys : LeaseLapses(k)
  /\ UNCHANGED bodyOf

CreateSpec == CreateInit /\ [][CreateNext]_kVars

-----------------------------------------------------------------------------
(* Every success under one key, first answer or replay, names one and the   *)
(* same memory, and that success is on record so that the next retry gets   *)
(* it too: a response that could not be recorded is never a success.        *)
OneMemoryPerKey ==
  \A a \in Attempts :
    LET k == bodyOf[a].key
    IN  kpc[a] = "done" /\ reply[a].code = "success" /\ k # 0 =>
          /\ led[k].st = "done" /\ led[k].mem = reply[a].mem
          /\ rows[reply[a].mem].key = k

(* A retry after a lost commit answer, a lapsed lease or a released claim   *)
(* finds the memory it wrote the first time: a key has at most one active   *)
(* memory, and a "duplicate" names a memory with the submitted content.     *)
RetryFindsItsMemory ==
  /\ \A k \in Keys : Cardinality({i \in ActiveRows : rows[i].key = k}) =< 1
  /\ \A a \in Attempts : reply[a].code = "duplicate" =>
       rows[reply[a].mem].text = Screened(bodyOf[a]).text

(* Two active memories whose validity shares an instant are on record as a  *)
(* conflict, and of two on one subject that follow each other the older is  *)
(* out of use -- provided the later create could see the vector of the      *)
(* earlier memory.                                                          *)
ContradictionsMeet ==
  \A i, j \in ActiveRows :
    i \in rows[j].saw =>
      LET share == \E t \in rows[i].from..(rows[i].until - 1) : rows[j].from =< t /\ t < rows[j].until
      IN  /\ share => {i, j} \in pend
          /\ rows[i].subject # "" /\ rows[i].subject = rows[j].subject => rows[j].from < rows[i].until
=============================================================================
