---------------------------- MODULE RerankBatches ----------------------------
(***************************************************************************)
(* RerankClient.rerank: a window of documents scored by a cross-encoder in *)
(* concurrent batches that succeed together or not at all, under the       *)
(* deadline of the search.  A document is a natural and is its own score.  *)
(***************************************************************************)
EXTENDS Integers, Sequences, FiniteSets, SequencesExt, FiniteSetsExt

CONSTANTS
  Windows,    \* the windows of documents to score
  BatchSize,  \* client_batch_size
  MaxDocs,    \* _MAX_DOCUMENTS
  Retries,    \* max_retries
  BadDoc      \* a document the request validation refuses

VARIABLES
  window,   \* the documents
  rcall,    \* "start", "open", "cancelling", "scored" or "degraded"
  task,     \* batch -> [st, try, scores]
  scores    \* the result

bVars == <<window, rcall, task, scores>>

RerankInit ==
  /\ window \in Windows
  /\ rcall = "start"
  /\ task = <<>>
  /\ scores = <<>>

(* _split_batches *)
SplitBatches(docs) ==
  [b \in 1..((Len(docs) + BatchSize - 1) \div BatchSize) |->
     SubSeq(docs, (b - 1) * BatchSize + 1, Min({b * BatchSize, Len(docs)}))]

(* _validate_request *)
RequestValid(docs) == docs # <<>> /\ Len(docs) =< MaxDocs /\ BadDoc \notin ToSet(docs)

Begin ==
  /\ rcall = "start"
  /\ IF RequestValid(window)
     THEN /\ rcall' = "open"
          /\ task' = [b \in DOMAIN SplitBatches(window) |-> [st |-> "run", try |-> 0, scores |-> <<>>]]
     ELSE rcall' = "degraded" /\ task' = task
  /\ UNCHANGED <<window, scores>>

(* Faulty variant: scores are taken in the order of the entries. *)
ParsedInOrderOfArrival(docs, order) ==
  IF Len(order) = Len(docs) THEN [i \in DOMAIN docs |-> docs[order[i]]] ELSE <<>>

(* _parse_scores: entries come best first and carry the index of their      *)
(* document; anything but one entry per index is refused.                   *)
Parsed(docs, order) ==
  IF Len(order) = Len(docs) /\ ToSet(order) = DOMAIN docs
  THEN [i \in DOMAIN docs |-> docs[i]] ELSE <<>>

(* The entries of an answer: a ranking, a short one, one with a repetition. *)
Entries(docs) == [1..Len(docs) -> DOMAIN docs] \cup [1..(Len(docs) - 1) -> DOMAIN docs]

SetTask(b, st, try, ss) == task' = [task EXCEPT ![b] = [st |-> st, try |-> try, scores |-> ss]]

(* _attempt_post with an answer of status 200. *)
Answered(b) ==
  /\ rcall = "open" /\ task[b].st = "run"
  /\ \E order \in Entries(SplitBatches(window)[b]) :
       LET got == Parsed(SplitBatches(window)[b], order)
       IN  SetTask(b, IF got = <<>> THEN "failed" ELSE "done", task[b].try, got)
  /\ UNCHANGED <<window, rcall, scores>>

(* _may_retry after a timeout or a status; rejections end the task. *)
Refused(b) ==
  /\ rcall = "open" /\ task[b].st = "run"
  /\ \E retryable \in BOOLEAN :
       IF retryable /\ task[b].try < Retries
       THEN SetTask(b, "run", task[b].try + 1, <<>>)
       ELSE SetTask(b, "failed", task[b].try, <<>>)
  /\ UNCHANGED <<window, rcall, scores>>

(* asyncio.gather: all results in the order of the batches, or the first    *)
(* failure.                                                                 *)
Gathered ==
  /\ rcall = "open"
  /\ \A b \in DOMAIN task : task[b].st = "done"
  /\ rcall' = "scored"
  /\ scores' = FlattenSeq([b \in DOMAIN task |-> task[b].scores])
  /\ UNCHANGED <<window, task>>

(* The first failure, or the deadline of the stage, starts the cleanup. *)
GiveUp ==
  /\ rcall = "open"
  /\ rcall' = "cancelling"
  /\ UNCHANGED <<window, task, scores>>

(* Faulty variant: a doomed call returns at once. *)
SiblingsEndedAlways == TRUE

SiblingsEnded == \A b \in DOMAIN task : task[b].st # "run"

Cancel(b) ==
  /\ rcall = "cancelling" /\ task[b].st = "run"
  /\ SetTask(b, "cancelled", task[b].try, <<>>)
  /\ UNCHANGED <<window, rcall, scores>>

(* The second gather waits for the cancelled tasks; then the search falls   *)
(* back to the fused order.                                                 *)
Degrade ==
  /\ rcall = "cancelling" /\ SiblingsEnded
  /\ rcall' = "degraded"
  /\ UNCHANGED <<window, task, scores>>

RerankNext ==
  \/ Begin \/ Gathered \/ GiveUp \/ Degrade
  \/ \E b \in DOMAIN task : Answered(b) \/ Refused(b) \/ Cancel(b)

RerankSpec == RerankInit /\ [][RerankNext]_bVars

-----------------------------------------------------------------------------
(* A scored window has the score of every document at its place, however    *)
(* the entries and the batches arrive; nothing is scored in part.           *)
ScoresMatchDocuments == rcall = "scored" => scores = window

(* When the call is over no request of it is still paid for. *)
NothingLeftRunning ==
  rcall \in {"scored", "degraded"} => \A b \in DOMAIN task : task[b].st # "run"
=============================================================================
