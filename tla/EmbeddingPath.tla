---------------------------- MODULE EmbeddingPath ----------------------------
(***************************************************************************)
(* From a batch of texts in the memory service to vectors: its client with *)
(* retries, the embedder (start-up checks, cache, backend), and the client *)
(* of the embedder for its provider, again with retries.  A client that    *)
(* times out leaves its request running in the embedder, so two executions *)
(* of one batch may fill the cache at once.  A vector is <<text, model>>;  *)
(* a text is a natural, 0 the empty one.                                   *)
(***************************************************************************)
EXTENDS Integers, Sequences, FiniteSets, SequencesExt, FiniteSetsExt

CONSTANTS
  Calls,       \* calls of EmbeddingClient.embed
  Batch,       \* call -> its texts
  Org,         \* call -> organisation
  Configs,     \* settings of the embedder and what they meet, see EmbedInit
  ClientTries, \* max_retries + 1 of the memory service
  ServerTries, \* max_retries + 1 of the embedder
  MaxBatch,    \* MAX_BATCH_TEXTS
  MaxFaults    \* bound on faults

VARIABLES
  conf,   \* [profile, token, key, url, cached, redis, dim, model, upDim, upModel, upInfo]
  boot,   \* start-up: a step, "ready", "failed" or "closed"
  cache,  \* <<org, model, dim, text>> -> [vec, ok]
  cli,    \* call -> [pc, try, out]
  exec,   \* <<call, try>> -> the execution in the embedder
  spent,  \* history: provider requests made for a call
  told,   \* history: the tries of a call whose texts the provider rejected
  late,   \* history: the tries of a call that timed out
  fault

eVars == <<conf, boot, cache, cli, exec, spent, told, late, fault>>

(* Outcomes of a request that are not a status of HTTP. *)
TimedOut == 598

NoConnection == 599

BadBody == 299

Execs == Calls \X (1..ClientTries)

Idle == [pc |-> "none", rows |-> <<>>, need |-> <<>>, try |-> 0, status |-> 0]

EmbedInit ==
  /\ conf \in Configs
  /\ boot = "settings"
  /\ cache = <<>>
  /\ cli = [c \in Calls |-> [pc |-> "start", try |-> 0, out |-> <<>>]]
  /\ exec = [e \in Execs |-> Idle]
  /\ spent = [c \in Calls |-> 0]
  /\ told = [c \in Calls |-> {}]
  /\ late = [c \in Calls |-> {}]
  /\ fault = 0

Faulty == fault < MaxFaults /\ fault' = fault + 1

-----------------------------------------------------------------------------
(* Start-up of the embedder. *)

(* validate_runtime_security *)
RuntimeSecure ==
  /\ conf.token
  /\ conf.profile = "hosted" => conf.key
  /\ conf.url # "http"      \* cleartext that is not allowed, or carries a key
  /\ conf.cached => conf.redis # "unset"

(* build_backend: gpu and hosted never fall back to the stub. *)
BackendBuilds ==
  CASE conf.profile = "gpu" -> conf.url # "none"
    [] conf.profile = "hosted" -> conf.key
    [] OTHER -> TRUE

(* Faulty variant: only the dimensions of the probe are compared. *)
GeometryVerifiedByProbe == conf.profile = "cpu" \/ conf.upDim = conf.dim

(* _verify_tei_geometry, _verify_hosted_geometry: /info names the model of  *)
(* a TEI server; a hosted provider is asked for a model by name.            *)
GeometryVerified ==
  CASE conf.profile = "gpu" -> /\ conf.upModel = conf.model
                               /\ conf.upInfo \in {0, conf.dim}
                               /\ conf.upDim = conf.dim
    [] conf.profile = "hosted" -> conf.upDim = conf.dim
    [] OTHER -> TRUE

(* _wait_for_tei_health gives up after the configured time. *)
Healthy == conf.profile # "gpu" \/ conf.upModel # "absent"

(* _verify_cache_redis *)
CacheReachable == conf.cached => conf.redis = "up"

Startup ==
  /\ boot = "settings"
  /\ boot' = IF RuntimeSecure /\ BackendBuilds THEN "checks" ELSE "failed"
  /\ UNCHANGED <<conf, cache, cli, exec, spent, told, late, fault>>

(* The last check sets ready.  The handlers do not rely on a server that    *)
(* waits for the lifespan: requests may arrive while the checks run, and    *)
(* after they failed.                                                       *)
StartupChecks ==
  /\ boot = "checks"
  /\ boot' = IF Healthy /\ GeometryVerified /\ CacheReachable THEN "ready" ELSE "failed"
  /\ UNCHANGED <<conf, cache, cli, exec, spent, told, late, fault>>

-----------------------------------------------------------------------------
(* The client in the memory service. *)

(* _validate_texts of the client *)
TextsAccepted(ts) == ts # <<>> /\ Len(ts) =< MaxBatch

SetCli(c, pc, try, out) == cli' = [cli EXCEPT ![c] = [pc |-> pc, try |-> try, out |-> out]]

Current(c) == <<c, cli[c].try>>

(* _attempt_post: a request leaves, or the batch is refused at once. *)
Post(c) ==
  /\ cli[c].pc = "start" /\ boot # "settings"
  /\ IF TextsAccepted(Batch[c])
     THEN /\ SetCli(c, "wait", cli[c].try + 1, <<>>)
          /\ exec' = [exec EXCEPT ![<<c, cli[c].try + 1>>] = [Idle EXCEPT !.pc = "admit"]]
     ELSE SetCli(c, "failed", 0, <<>>) /\ exec' = exec
  /\ UNCHANGED <<conf, boot, cache, spent, told, late, fault>>

(* Faulty variant: every status but 200 is worth a retry. *)
RetryableAny(status) == status # 200

(* _RETRYABLE_STATUS; a timeout and a broken connection count as well. *)
Retryable(status) == status \in {429, 502, 503, TimedOut, NoConnection}

(* _maybe_schedule_retry *)
AfterFailure(c, status) ==
  IF Retryable(status) /\ cli[c].try < ClientTries
  THEN SetCli(c, "start", cli[c].try, <<>>)
  ELSE SetCli(c, "failed", cli[c].try, <<>>)

(* _parse_success: every row has the expected length and finite numbers. *)
RowsParse(rows) == rows # <<>> /\ \A i \in DOMAIN rows : rows[i] # "invalid"

Receive(c) ==
  LET x == exec[Current(c)]
  IN  /\ cli[c].pc = "wait" /\ x.pc = "sent"
      /\ IF x.status = 200 /\ RowsParse(x.rows) THEN SetCli(c, "ok", cli[c].try, x.rows)
         ELSE IF x.status = 200 THEN SetCli(c, "failed", cli[c].try, <<>>)
         ELSE AfterFailure(c, x.status)
      /\ UNCHANGED <<conf, boot, cache, exec, spent, told, late, fault>>

(* The read timeout; the execution goes on without its client. *)
TimesOut(c) ==
  /\ cli[c].pc = "wait"
  /\ Faulty
  /\ AfterFailure(c, TimedOut)
  /\ late' = [late EXCEPT ![c] = @ \cup {cli[c].try}]
  /\ UNCHANGED <<conf, boot, cache, exec, spent, told>>

-----------------------------------------------------------------------------
(* POST /v1/embed *)

(* require_service_auth *)
TokenMatches == conf.token

(* validate_embed_input *)
InputValid(ts) == ts # <<>> /\ Len(ts) =< MaxBatch /\ 0 \notin ToSet(ts)

SetExec(e, x) == exec' = [exec EXCEPT ![e] = x]

Respond(e, status) == SetExec(e, [exec[e] EXCEPT !.pc = "sent", !.status = status])

Admit(e) ==
  LET ts == Batch[e[1]]
  IN  /\ exec[e].pc = "admit"
      /\ CASE ~TokenMatches -> Respond(e, 401)
           [] TokenMatches /\ boot # "ready" -> Respond(e, 503)
           [] OTHER -> IF ~InputValid(ts) THEN Respond(e, 400)
                       ELSE SetExec(e, [exec[e] EXCEPT !.pc = IF conf.cached THEN "mget" ELSE "post",
                                                       !.need = ts])
      /\ UNCHANGED <<conf, boot, cache, cli, spent, told, late, fault>>

(* cache_key_for_text *)
Key(e, t) == <<Org[e[1]], conf.model, conf.dim, t>>

(* decode_vector and is_contract_vector: a damaged entry is a miss. *)
Hit(e, t) == Key(e, t) \in DOMAIN cache /\ cache[Key(e, t)].ok

(* _dedupe_preserve_order over the texts that missed *)
Misses(e) ==
  FoldLeft(LAMBDA acc, t : IF Hit(e, t) \/ t \in ToSet(acc) THEN acc ELSE Append(acc, t), <<>>, Batch[e[1]])

(* _embed_cached up to the backend; an error of Redis bypasses the cache. *)
Mget(e) ==
  LET ts == Batch[e[1]]
      rows == [i \in DOMAIN ts |-> IF Hit(e, ts[i]) THEN cache[Key(e, ts[i])].vec ELSE <<>>]
  IN  /\ exec[e].pc = "mget"
      /\ \/ /\ SetExec(e, [exec[e] EXCEPT !.pc = IF Misses(e) = <<>> THEN "sent" ELSE "post",
                                         !.rows = rows, !.need = Misses(e), !.status = 200])
            /\ fault' = fault
         \/ Faulty /\ SetExec(e, [exec[e] EXCEPT !.pc = "post"])
      /\ UNCHANGED <<conf, boot, cache, cli, spent, told, late>>

(* _raise_tei_http_error of TeiClient and _raise_http_error of HostedClient *)
TeiVerdict(s) == CASE s \in {413, 422, 424} -> "rejected" [] s \in {429, 502, 503} -> "retry" [] OTHER -> "fatal"

HostedVerdict(s) == CASE s \in {400, 413, 422} -> "rejected" [] s \in {429, 502, 503} -> "retry" [] OTHER -> "fatal"

Verdict(s) ==
  CASE s \in {TimedOut, NoConnection} -> "retry"
    [] s = BadBody -> "invalid"
    [] OTHER -> IF conf.profile = "gpu" THEN TeiVerdict(s) ELSE HostedVerdict(s)

(* What the embedder answers for each class of backend errors. *)
StatusFor(v) == CASE v = "rejected" -> 400 [] v = "invalid" -> 502 [] OTHER -> 503

(* Where the vectors of a provider's answer go: the answer has one row for  *)
(* each text asked for, in order.                                           *)
Position(need, t) == CHOOSE i \in DOMAIN need : need[i] = t

(* Faulty variant: rows are filled in the order of the misses, duplicates   *)
(* not mapped to their first occurrence.                                    *)
AssembleBySlot(e, vectors) ==
  LET ts == Batch[e[1]]
      rows == exec[e].rows
      slot(i) == Cardinality({j \in 1..i : rows[j] = <<>>})
  IN  [i \in DOMAIN ts |-> IF rows # <<>> /\ rows[i] # <<>> THEN rows[i]
                           ELSE vectors[IF rows = <<>> THEN i ELSE Min({slot(i), Len(vectors)})]]

(* _resolve_misses and _assemble *)
Assemble(e, vectors) ==
  LET ts == Batch[e[1]]
      rows == exec[e].rows
  IN  [i \in DOMAIN ts |->
         IF rows # <<>> /\ rows[i] # <<>> THEN rows[i] ELSE vectors[Position(exec[e].need, ts[i])]]

(* The vectors of an honest provider: those of the model it runs. *)
ProviderVectors(need) ==
  [i \in DOMAIN need |-> <<need[i], IF conf.profile = "gpu" THEN conf.upModel ELSE conf.model>>]

(* One POST of the embedder's client, with the outcome of its retry loop.   *)
(* The CPU profile computes its vectors without a request.                  *)
Provider(e) ==
  LET x == [exec[e] EXCEPT !.try = @ + 1]
      c == e[1]
  IN  /\ exec[e].pc = "post"
      /\ spent' = [spent EXCEPT ![c] = IF conf.profile = "cpu" THEN @ ELSE @ + 1]
      /\ \/ /\ SetExec(e, [x EXCEPT !.pc = IF conf.cached /\ x.rows # <<>> THEN "store" ELSE "sent",
                                    !.rows = Assemble(e, ProviderVectors(x.need)), !.status = 200])
            /\ UNCHANGED <<told, fault>>
         \/ \E s \in {TimedOut, NoConnection, BadBody, 400, 401, 413, 422, 424, 429, 500, 503} :
              /\ conf.profile # "cpu" /\ Faulty
              /\ told' = [told EXCEPT ![c] = IF Verdict(s) = "rejected" THEN @ \cup {e[2]} ELSE @]
              /\ SetExec(e, IF Verdict(s) = "retry" /\ x.try < ServerTries THEN x
                            ELSE [x EXCEPT !.pc = "sent", !.status = StatusFor(Verdict(s))])
      /\ UNCHANGED <<conf, boot, cache, cli, late>>

(* set_many_ex: a pipeline without a transaction may be cut anywhere. *)
Store(e) ==
  LET fresh == {Key(e, t) : t \in ToSet(exec[e].need)}
      Written(ks) == [k \in DOMAIN cache \cup ks |->
                        IF k \in ks
                        THEN [vec |-> exec[e].rows[Position(Batch[e[1]], k[4])], ok |-> TRUE]
                        ELSE cache[k]]
  IN  /\ exec[e].pc = "store"
      /\ \/ cache' = Written(fresh) /\ fault' = fault
         \/ Faulty /\ \E part \in SUBSET fresh : cache' = Written(part)
      /\ SetExec(e, [exec[e] EXCEPT !.pc = "sent"])
      /\ UNCHANGED <<conf, boot, cli, spent, told, late>>

(* An entry expires or is damaged. *)
Decay ==
  /\ Faulty
  /\ \E k \in DOMAIN cache :
       \/ cache' = [j \in DOMAIN cache \ {k} |-> cache[j]]
       \/ cache' = [cache EXCEPT ![k].ok = FALSE]
  /\ UNCHANGED <<conf, boot, cli, exec, spent, told, late>>

(* A response nobody waits for. *)
Orphan(e) ==
  /\ exec[e].pc = "sent"
  /\ cli[e[1]].pc \in {"ok", "failed", "start"} \/ cli[e[1]].try # e[2]
  /\ SetExec(e, Idle)
  /\ UNCHANGED <<conf, boot, cache, cli, spent, told, late, fault>>

EmbedNext ==
  \/ Startup \/ StartupChecks \/ Decay
  \/ \E c \in Calls : Post(c) \/ Receive(c) \/ TimesOut(c)
  \/ \E e \in Execs : Admit(e) \/ Mget(e) \/ Provider(e) \/ Store(e) \/ Orphan(e)

EmbedSpec == EmbedInit /\ [][EmbedNext]_eVars

-----------------------------------------------------------------------------
(* Whatever mixture of hits, misses, duplicates, damaged entries and late   *)
(* writers an answer comes from, its i-th vector is the one the configured  *)
(* model gives for the i-th text.                                           *)
VectorsMatchTexts ==
  \A c \in Calls : cli[c].pc = "ok" =>
    cli[c].out = [i \in DOMAIN Batch[c] |-> <<Batch[c][i], conf.model>>]

(* Retries of the two clients multiply and no more: the provider sees a     *)
(* batch at most ClientTries * ServerTries times, and texts it rejected are *)
(* not sent again once the client knows.                                    *)
EffortIsBounded ==
  \A c \in Calls :
    /\ spent[c] =< ClientTries * ServerTries
    /\ \A t \in told[c] \ late[c] : cli[c].try = t
=============================================================================
