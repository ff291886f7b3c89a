----------------------------- MODULE MCServices -----------------------------
(***************************************************************************)
(* The reads (context, search, reranking, lineage, embedding) and the      *)
(* edges of the system (the MCP servers with their breaker, limiter and    *)
(* audit queue, the codec to the auth service, the token cache and the     *)
(* usage facts of the proxy). The modules share no state, so a behaviour   *)
(* is about one of them (which); variables of the same name are shared.    *)
(***************************************************************************)
EXTENDS AuthBreaker, TokenCache, UsageFacts, Integers, Sequences, FiniteSets, TLC

CONSTANTS Parts

\* Context: corpora of four memories; 1 and 2 are hot, 2, 3 and 4 are found by
\* the search, 1 and 3 contradict each other.
Hit(i, score, rank, raw) == [id |-> i, score |-> score, rank |-> rank, raw |-> raw, wrap |-> 1,
                             groups |-> {}, own |-> TRUE, unit |-> TRUE]
Corpus(raw, score) ==
  [hot |-> {Hit(1, score[1], 1, raw[1]), Hit(2, 4, 2, raw[2])},
   cold |-> {Hit(2, score[2], 1, raw[2]), Hit(3, score[3], 2, raw[3]), Hit(4, 3, 3, 4)},
   rival |-> {1, 3}]
SmallCorpus == Corpus(<<3, 3, 3>>, <<5, 4, 5>>)
MCCorpora ==
  {Corpus(r, s) : r \in {<<3, 3, 3>>, <<3, 6, 3>>, <<6, 3, 6>>}, s \in {<<5, 4, 5>>, <<3, 6, 9>>}}
  \cup {[SmallCorpus EXCEPT !.cold = {[h EXCEPT !.own = (h.id # 3)] : h \in @}],
        [SmallCorpus EXCEPT !.hot = {[h EXCEPT !.unit = (h.id # 1)] : h \in @}]}
Good == [method |-> "AssembleContext", tokens |-> <<"match">>, principal |-> "fresh",
         selectors |-> "principal", bounded |-> TRUE, ids |-> TRUE, model |-> "known",
         skipHot |-> FALSE, skipCold |-> FALSE, limit |-> 0, available |-> 0, history |-> 10]
MCRequests ==
  {Good, [Good EXCEPT !.available = 13],
   [Good EXCEPT !.skipHot = TRUE], [Good EXCEPT !.skipCold = TRUE],
   [Good EXCEPT !.limit = 2], [Good EXCEPT !.history = 84],
   [Good EXCEPT !.tokens = <<"match", "match">>], [Good EXCEPT !.tokens = <<>>],
   [Good EXCEPT !.method = "SearchMemories"], [Good EXCEPT !.principal = "stale"],
   [Good EXCEPT !.selectors = "other"], [Good EXCEPT !.bounded = FALSE],
   [Good EXCEPT !.ids = FALSE], [Good EXCEPT !.model = "unknown"]}

\* Search: five memories, one of which is created while the search runs.
Found(v, t, sim, blocked, open, sup, esc) ==
  [vector |-> v, text |-> t, sim |-> sim, base |-> <<3, 2, 1, 0, 4>>, blocked |-> blocked,
   open |-> open, fresh |-> (5 :> [supersedes |-> sup, escalates |-> esc])]
Searches ==
  {Found(<<1, 2, 3, 5>>, <<3, 4, 5>>, <<9, 8, 7, 6, 8>>, {1}, {{1, 3}}, {}, {1}),
   Found(<<1, 2, 3, 5>>, <<5, 2, 4>>, <<4, 1, 9, 6, 9>>, {}, {{1, 4}, {2, 4}}, {2}, {3}),
   Found(<<5, 1, 4>>, <<3, 4, 5>>, <<9, 8, 7, 6, 8>>, {2, 3}, {{1, 3}}, {1}, {2, 4}),
   Found(<<2, 1>>, <<5, 2, 4>>, <<9, 8, 7, 6, 8>>, {}, {}, {}, {1})}
AnySearch == CHOOSE s \in Searches : TRUE

\* Lineage: four memories of two agents; the root, its depth and who asks.
LineageQuestions == {[root |-> 1, agent |-> 0, depth |-> 2],
                     [root |-> 2, agent |-> 7, depth |-> 2],
                     [root |-> 1, agent |-> 7, depth |-> 1]}

\* Embeddings: two batches with texts in common, and nine configurations.
BatchTexts == <<<<7, 8, 7, 9>>, <<8, 9, 9>>>>
Odd == <<<<0, 7>>, <<7, 8, 7, 9, 9>>>>   \* an invalid text, and a batch too long
Gpu == [profile |-> "gpu", token |-> TRUE, key |-> FALSE, url |-> "https", cached |-> TRUE, redis |-> "up",
        dim |-> 4, model |-> "bge", upDim |-> 4, upModel |-> "bge", upInfo |-> 0]
Hosted == [Gpu EXCEPT !.profile = "hosted", !.key = TRUE, !.url = "none", !.upModel = "absent"]
MCConfigs == {Gpu, Hosted, [Gpu EXCEPT !.cached = FALSE, !.redis = "unset"], [Gpu EXCEPT !.upModel = "gte"],
              [Gpu EXCEPT !.profile = "cpu", !.url = "none"], [Gpu EXCEPT !.url = "http"],
              [Gpu EXCEPT !.upInfo = 8], [Hosted EXCEPT !.upDim = 8], [Gpu EXCEPT !.redis = "down"]}

\* The operator tools: three calls on one breaker, one limiter, one audit queue.
NoNulls == {}
Session(i, o, del, n) == [id |-> i, org |-> o, deleted |-> del, nulls |-> n]
Run(i, o, st, tr, n) ==
  [id |-> i, org |-> o, status |-> st, trace_id |-> tr, session_id |-> "s", request_id |-> "r",
   error_code |-> "e", nulls |-> n]
Period(i, o, a) == [id |-> i, org |-> o, active |-> a, nulls |-> NoNulls]
OperatorDb ==
  [sessions |-> {Session(1, "A", FALSE, {"model", "provider", "completed_at"}),
                 Session(2, "A", TRUE, NoNulls), Session(3, "B", FALSE, NoNulls)},
   runs |-> {Run(1, "A", "ok", "t1", {"error_code", "ended_at"}),
             Run(2, "A", "failed", "t1", {"agent_id", "session_id"}),
             Run(3, "B", "ok", "t1", NoNulls), Run(4, "A", "timeout", "t2", NoNulls)},
   periods |-> {Period(1, "A", FALSE), Period(2, "A", TRUE), Period(3, "B", TRUE)}]
Ask(o, t, p, a) == [org |-> o, bearer |-> TRUE, tool |-> t, permissions |-> p, args |-> a]
NoBearer == [Ask("A", "run.get", {}, [id |-> 1]) EXCEPT !.bearer = FALSE]
SessionGet(o, i) == Ask(o, "session.get", {"OPERATOR_METADATA_READ"}, [id |-> i])
RunGet(o, i) == Ask(o, "run.get", {"TRACE_READ"}, [id |-> i])
Evidence(f, n) ==
  Ask("A", "evidence.query", {"OPERATOR_REDACTED_READ"}, [filter |-> f, limit |-> n])
BudgetGet(a, n) == Ask("A", "budget.get", {"BILLING_READ"}, [active_only |-> a, limit |-> n])
ThreeCalls == {"c1", "c2", "c3"}
Three(x, y, z) == [c \in ThreeCalls |-> CASE c = "c1" -> x [] c = "c2" -> y [] c = "c3" -> z]
OperatorCases ==
  {Three(Evidence([status |-> "error"], 1), SessionGet("A", 1), RunGet("A", 1)),
   Three(Evidence([trace_id |-> "t1"], 2), SessionGet("B", 3), BudgetGet(FALSE, 1)),
   Three(SessionGet("A", 2), RunGet("A", 3), BudgetGet(TRUE, 1)),
   Three(NoBearer, Ask("A", "run.delete", {}, [id |-> 1]),
         Ask("A", "run.get", {"BILLING_READ"}, [id |-> 1])),
   Three(Evidence([trace_id |-> "t1"], 3), Evidence([colour |-> "red"], 1), RunGet("A", 0))}
OneRpmForB == [o \in {"B"} |-> 1]

\* The memory tools: two calls that may be the same write, act for an agent
\* that is suspended under them, or have arguments the schema refuses.
ReadWrite == {"MEMORY_READ", "MEMORY_WRITE"}
AskMemory(t, p, a, n, g) ==
  [org |-> "A", bearer |-> TRUE, tool |-> t, permissions |-> p, agent |-> a, named |-> n, args |-> g]
WriteMemory(a, n, pad, cat) ==
  AskMemory("write_memory", ReadWrite, a, n,
            [content |-> [text |-> "x", padding |-> pad], category |-> cat])
Search(p, a, n, lim) == AskMemory("search_memory", p, a, n, [query |-> "q", limit |-> lim])
Feedback(p, a) == AskMemory("record_feedback", p, a, "none", [feedback |-> "positive"])
TwoCalls == {"c1", "c2"}
Two(x, y) == [c \in TwoCalls |-> IF c = "c1" THEN x ELSE y]
MemoryCases ==
  {Two(WriteMemory("a", "none", FALSE, "factual"), WriteMemory("none", "a", TRUE, "factual")),
   Two(WriteMemory("a", "none", FALSE, "factual"), WriteMemory("a", "none", FALSE, "semantic")),
   Two(Search(ReadWrite, "a", "b", 5),
       AskMemory("get_memory_lineage", {"MEMORY_READ"}, "a", "none", [max_depth |-> 3])),
   Two(Search({"MEMORY_READ"}, "none", "none", 51), Feedback({"MEMORY_READ"}, "a")),
   Two(Search({"MEMORY_READ"}, "none", "none", 5), Feedback(ReadWrite, "none"))}
NoOverrides == <<>>

\* The codec: every sequence of at most three fields from a pool per message
\* type, cut at every byte, and a few requests per rpc.
U == <<85>>
A == <<65>>
B == <<66>>
Long == <<65, 65, 65, 65>>
Bytes(attr, raw) == [attr |-> attr, w |-> 2, num |-> 0, raw |-> raw, sub |-> <<>>]
Num(attr, n) == [attr |-> attr, w |-> 0, num |-> n, raw |-> <<>>, sub |-> <<>>]
Msg(attr, sub) == [attr |-> attr, w |-> 2, num |-> 0, raw |-> <<>>, sub |-> sub]
Other(w) == [attr |-> "unknown", w |-> w, num |-> 1, raw |-> A, sub |-> <<>>]
AtTime(s, n) == <<Num("seconds", s), Num("nanos", n)>>
Meta(t) == <<Bytes("token_id", t), Bytes("name", A), Bytes("prefix", A),
             Msg("created_at", <<Num("seconds", 1)>>), Num("is_revoked", 3)>>
Cred(p) == <<Bytes("provider_name", p), Bytes("status", A), Bytes("key_hint", B)>>
FieldPool ==
  [token |-> {Bytes("org_id", U), Bytes("org_id", A), Num("permissions", 300),
              Num("permissions", 2097152), Bytes("agent_id", U), Bytes("user_id", Long),
              Bytes("token_id", <<200>>), Other(1), Other(5), Other(3)},
   agent |-> {Bytes("agent_id", U), Bytes("org_id", U), Bytes("status", <<>>),
              Bytes("status", A), Other(0)},
   create |-> {Bytes("token_id", A), Bytes("plaintext", Long), Bytes("prefix", A),
               Msg("created_at", AtTime(1, 19)), Msg("created_at", AtTime(1, 20))},
   list |-> {Msg("tokens", Meta(A)), Msg("tokens", Meta(B)), Msg("tokens", <<>>),
             Bytes("next_cursor", A), Bytes("next_cursor", Long)},
   cred |-> {Bytes("provider_name", A), Bytes("status", A), Bytes("key_hint", A),
             Bytes("base_url", Long), Msg("last_validated_at", AtTime(9, 0)),
             Bytes("encryption_key_id", B)},
   getcred |-> {Bytes("api_key", Long), Bytes("base_url", A), Num("is_platform_default", 2)},
   listcred |-> {Msg("credentials", Cred(A)), Msg("credentials", Cred(B)), Other(2)},
   refresh |-> {Bytes("access_token", Long), Bytes("access_token", A),
                Bytes("refresh_token", <<200>>), Other(5), Other(3)}]
Sequences3(S) == UNION {[1..n -> S] : n \in 0..3}
CodecMessages ==
  {[kind |-> k, fields |-> f] : <<k, f>> \in
     UNION {{k} \X Sequences3(FieldPool[k]) : k \in DOMAIN FieldPool}}
   \cup {[kind |-> "create", fields |-> <<Bytes("token_id", A), Bytes("plaintext", Long),
            Bytes("prefix", A), Msg("created_at", AtTime(s, n))>>]
          : s \in {0, 8, 9}, n \in {0, 1, 2, 19}}
   \cup {[kind |-> "list", fields |-> <<Msg("tokens", Meta(A) \o <<Msg("revoked_at", AtTime(2, 3))>>),
            Bytes("next_cursor", B), Msg("tokens", Meta(B) \o <<Num("permissions", 5)>>)>>]}
Texts == {<<>>, A, Long}
CodecRequests ==
  [rpc : {"ValidateToken", "IssueOperatorSession"}, token : Texts]
   \cup [rpc : {"ValidateAgent"}, agent : Texts, org : {A, Long}]
   \cup [rpc : {"RevokeToken"}, org : {A}, token : {A, Long}, reason : Texts]
   \cup [rpc : {"CreateToken"}, org : {A}, name : {A, Long}, description : {<<>>, B},
         type : {1}, permissions : {-1, 0, 300}, expires : {<<>>, <<0>>, <<7>>, <<-5>>},
         user : {<<>>, A}, agent : {<<>>, B}]
   \cup [rpc : {"ListTokens"}, org : {A}, cursor : Texts, limit : {0, 200}]
   \cup [rpc : {"CreateProviderCredential"}, org : {A}, provider : {A}, key : Texts, url : Texts]
   \cup [rpc : {"DeleteProviderCredential"}, org : {A}, provider : {A, Long}]
   \cup [rpc : {"OperatorLifecycle"}, first : Texts, second : Texts]

\* The token cache: two readers, three validations of two tokens.
ReaderCalls == ("r1" :> <<"t1", "t1">>) @@ ("r2" :> <<"t1", "t2">>)

VARIABLES
  which,   \* the component this behaviour is about
  server, corpus, open, call, window, rcall, task, scores, owner, rels, ask,
  lpc, tip, rootRels, page, cut, pageView, conf, boot, embeddingCache, cli,
  exec, spent, embeddingTold, late, fault, searchScn, searchMode, searchRow,
  searchVec, searchPending, searchPc, searchByVec, searchByText, searchRows,
  searchScore, searchSent, searchPage, searchBefore, operatorBreaker,
  operatorFails, operatorCooled, operatorReserved, operatorVal, request,
  stage, answer, operatorWindow, allowed, minute, count, queue, writer,
  handed, operatorDropped, closing, operatorFaults, memoryBreaker,
  memoryFails, memoryCooled, memoryReserved, memoryVal, memoryRequest,
  memoryStage, memoryAnswer, memoryWindow, memoryAllowed, memoryMinute,
  memoryCount, memoryQueue, memoryWriter, memoryHanded, memoryDropped,
  memoryClosing, memoryFaults, active, memoryLate, effects, wire, keyed, msg,
  arrived, codecRequest

contextVars == <<server, corpus, open, call>>
rerankVars == <<window, rcall, task, scores>>
lineageVars == <<owner, rels, ask, lpc, tip, rootRels, page, cut, pageView>>
embeddingVars == <<conf, boot, embeddingCache, cli, exec, spent,
                   embeddingTold, late, fault>>
searchVars == <<searchScn, searchMode, searchRow, searchVec, searchPending,
                searchPc, searchByVec, searchByText, searchRows, searchScore,
                searchSent, searchPage, searchBefore>>
operatorVars == <<operatorBreaker, operatorFails, operatorCooled,
                  operatorReserved, operatorVal, request, stage, answer,
                  operatorWindow, allowed, minute, count, queue, writer,
                  handed, operatorDropped, closing, operatorFaults>>
memoryVars == <<memoryBreaker, memoryFails, memoryCooled, memoryReserved,
                memoryVal, memoryRequest, memoryStage, memoryAnswer,
                memoryWindow, memoryAllowed, memoryMinute, memoryCount,
                memoryQueue, memoryWriter, memoryHanded, memoryDropped,
                memoryClosing, memoryFaults, active, memoryLate, effects,
                wire, keyed>>
codecVars == <<msg, arrived, codecRequest>>
mcvars == <<which, breakerVars, vars, factsVars, contextVars, rerankVars,
            lineageVars, embeddingVars, searchVars, operatorVars, memoryVars,
            codecVars>>

Context == INSTANCE ContextAssembly WITH
  BucketSize <- 4, CellCeiling <- 20, MaxSkips <- 0, Separator <- 1, Calls <-
  {1}, Requests <- MCRequests, Corpora <- MCCorpora, Window <- 30, MaxOutput
  <- 4, ReserveFloor <- 2, ReserveCap <- 8, Overhead <- 2, Config <- [token
  |-> "strong", addr |-> "loopback"]

Rerank == INSTANCE RerankBatches WITH
  Windows <- {<<4, 9, 2, 7, 5>>, <<3, 8>>, <<>>, <<1, 0>>}, BatchSize <- 2,
  MaxDocs <- 5, Retries <- 1, BadDoc <- 0

Lineage == INSTANCE MemoryLineage WITH
  NMem <- 4, Agents <- {7, 8}, LineageCap <- 2, EdgeCap <- 3, MaxEdges <- 4,
  Pairs <- {<<1, 3>>, <<3, 2>>, <<4, 1>>}, Questions <- LineageQuestions

Embedding == INSTANCE EmbeddingPath WITH
  Calls <- {1, 2}, Batch <- BatchTexts, Org <- <<"acme", "acme">>, Configs <-
  MCConfigs, ClientTries <- 2, ServerTries <- 2, MaxBatch <- 4, MaxFaults <-
  2, cache <- embeddingCache, told <- embeddingTold

Refusals == INSTANCE EmbeddingPath WITH
  Calls <- {1, 2}, Batch <- Odd, Org <- <<"acme", "acme">>, Configs <- {Gpu,
  [Gpu EXCEPT !.token = FALSE]}, ClientTries <- 2, ServerTries <- 2, MaxBatch
  <- 4, MaxFaults <- 1, cache <- embeddingCache, told <- embeddingTold

Searching == INSTANCE MemorySearch WITH
  Ids <- 1..5, Scenarios <- Searches, Modes <- {"fused", "rerank",
  "fallback"}, Limit <- 2, RerankMax <- 3, RrfK <- 60, Floor <- 2, Sentinel <-
  5, Weight <- 4, Rescores <- {0, 9}, scn <- searchScn, mode <- searchMode,
  row <- searchRow, vec <- searchVec, pending <- searchPending, pc <-
  searchPc, byVec <- searchByVec, byText <- searchByText, rows <- searchRows,
  score <- searchScore, sent <- searchSent, page <- searchPage, before <-
  searchBefore

Operator == INSTANCE McpOperator WITH
  Calls <- ThreeCalls, Threshold <- 1, CancelTrips <- TRUE, Db <- OperatorDb,
  EvidenceMaxLimit <- 2, BudgetMaxLimit <- 2, Scenarios <- OperatorCases,
  Overrides <- OneRpmForB, FailClosed <- TRUE, MaxMinute <- 1, DefaultRpm <-
  2, QueueSize <- 1, MaxFaults <- 2, breaker <- operatorBreaker, fails <-
  operatorFails, cooled <- operatorCooled, reserved <- operatorReserved, val
  <- operatorVal, window <- operatorWindow, dropped <- operatorDropped, faults
  <- operatorFaults

Memory == INSTANCE McpMemory WITH
  Calls <- TwoCalls, Threshold <- 1, CancelTrips <- FALSE, Scenarios <-
  MemoryCases, Overrides <- NoOverrides, FailClosed <- FALSE, MaxMinute <- 0,
  Configured <- TRUE, DefaultRpm <- 2, QueueSize <- 1, MaxFaults <- 2, breaker
  <- memoryBreaker, fails <- memoryFails, cooled <- memoryCooled, reserved <-
  memoryReserved, val <- memoryVal, request <- memoryRequest, stage <-
  memoryStage, answer <- memoryAnswer, window <- memoryWindow, allowed <-
  memoryAllowed, minute <- memoryMinute, count <- memoryCount, queue <-
  memoryQueue, writer <- memoryWriter, handed <- memoryHanded, dropped <-
  memoryDropped, closing <- memoryClosing, faults <- memoryFaults, late <-
  memoryLate

Codec == INSTANCE WireCodec WITH
  Half <- 128, MaxVarint <- 3, MaxString <- 3, MaxMessage <- 20, MaxSub <- 20,
  MaxToken <- 21, MaxRefresh <- 22, MaxList <- 60, MicrosPerSecond <- 5,
  NanosPerMicro <- 4, MaxSeconds <- 8, Uuids <- {U}, Ascii <- {65, 66, 85},
  Messages <- CodecMessages, Requests <- CodecRequests, request <-
  codecRequest

-----------------------------------------------------------------------------
\* The variables of a component the behaviour is not about.
Unused == "unused"
ContextAssemblyUnused ==
  /\ server = Unused /\ corpus = Unused /\ open = Unused /\ call = Unused
RerankBatchesUnused ==
  /\ window = Unused /\ rcall = Unused /\ task = Unused /\ scores = Unused
MemoryLineageUnused ==
  /\ owner = Unused /\ rels = Unused /\ ask = Unused /\ lpc = Unused
  /\ tip = Unused /\ rootRels = Unused /\ page = Unused /\ cut = Unused
  /\ pageView = Unused
EmbeddingPathUnused ==
  /\ conf = Unused /\ boot = Unused /\ embeddingCache = Unused /\ cli = Unused
  /\ exec = Unused /\ spent = Unused /\ embeddingTold = Unused /\ late = Unused
  /\ fault = Unused
McpOperatorUnused ==
  /\ operatorBreaker = Unused /\ operatorFails = Unused /\ operatorCooled = Unused /\ operatorReserved = Unused
  /\ operatorVal = Unused /\ request = Unused /\ stage = Unused /\ answer = Unused
  /\ operatorWindow = Unused /\ allowed = Unused /\ minute = Unused /\ count = Unused
  /\ queue = Unused /\ writer = Unused /\ handed = Unused /\ operatorDropped = Unused
  /\ closing = Unused /\ operatorFaults = Unused
McpMemoryUnused ==
  /\ memoryBreaker = Unused /\ memoryFails = Unused /\ memoryCooled = Unused /\ memoryReserved = Unused
  /\ memoryVal = Unused /\ memoryRequest = Unused /\ memoryStage = Unused /\ memoryAnswer = Unused
  /\ memoryWindow = Unused /\ memoryAllowed = Unused /\ memoryMinute = Unused /\ memoryCount = Unused
  /\ memoryQueue = Unused /\ memoryWriter = Unused /\ memoryHanded = Unused /\ memoryDropped = Unused
  /\ memoryClosing = Unused /\ memoryFaults = Unused /\ active = Unused /\ memoryLate = Unused
  /\ effects = Unused /\ wire = Unused /\ keyed = Unused
WireCodecUnused ==
  /\ msg = Unused /\ arrived = Unused /\ codecRequest = Unused

MCInit ==
  /\ which \in Parts
  /\ BreakerInit
  /\ Init
  /\ FactsInit
  /\ Searching!SearchInit /\ (which # "search" => searchScn = AnySearch /\ searchMode = "fused")
  /\ IF which = "context" THEN Context!ContextInit ELSE ContextAssemblyUnused
  /\ IF which = "rerank" THEN Rerank!RerankInit ELSE RerankBatchesUnused
  /\ IF which = "lineage" THEN Lineage!LineageInit ELSE MemoryLineageUnused
  /\ CASE which = "embedding" -> Embedding!EmbedInit
       [] which = "refusals" -> Refusals!EmbedInit
       [] OTHER -> EmbeddingPathUnused
  /\ IF which = "operator" THEN Operator!EdgeInit ELSE McpOperatorUnused
  /\ IF which = "memory" THEN Memory!MemoryInit ELSE McpMemoryUnused
  /\ IF which = "codec" THEN Codec!Init ELSE WireCodecUnused

MCNext ==
  \/ which = "breaker" /\ BreakerNext
       /\ UNCHANGED <<which, vars, factsVars, contextVars, rerankVars,
                     lineageVars, embeddingVars, searchVars, operatorVars,
                     memoryVars, codecVars>>
  \/ which = "tokens" /\ Next
       /\ UNCHANGED <<which, breakerVars, factsVars, contextVars, rerankVars,
                     lineageVars, embeddingVars, searchVars, operatorVars,
                     memoryVars, codecVars>>
  \/ which = "facts" /\ FactsNext
       /\ UNCHANGED <<which, breakerVars, vars, contextVars, rerankVars,
                     lineageVars, embeddingVars, searchVars, operatorVars,
                     memoryVars, codecVars>>
  \/ which = "context" /\ Context!ContextNext
       /\ UNCHANGED <<which, breakerVars, vars, factsVars, rerankVars,
                     lineageVars, embeddingVars, searchVars, operatorVars,
                     memoryVars, codecVars>>
  \/ which = "rerank" /\ Rerank!RerankNext
       /\ UNCHANGED <<which, breakerVars, vars, factsVars, contextVars,
                     lineageVars, embeddingVars, searchVars, operatorVars,
                     memoryVars, codecVars>>
  \/ which = "lineage" /\ Lineage!LineageNext
       /\ UNCHANGED <<which, breakerVars, vars, factsVars, contextVars,
                     rerankVars, embeddingVars, searchVars, operatorVars,
                     memoryVars, codecVars>>
  \/ which = "embedding" /\ Embedding!EmbedNext
       /\ UNCHANGED <<which, breakerVars, vars, factsVars, contextVars,
                     rerankVars, lineageVars, searchVars, operatorVars,
                     memoryVars, codecVars>>
  \/ which = "refusals" /\ Refusals!EmbedNext
       /\ UNCHANGED <<which, breakerVars, vars, factsVars, contextVars,
                     rerankVars, lineageVars, searchVars, operatorVars,
                     memoryVars, codecVars>>
  \/ which = "search" /\ Searching!SearchNext
       /\ UNCHANGED <<which, breakerVars, vars, factsVars, contextVars,
                     rerankVars, lineageVars, embeddingVars, operatorVars,
                     memoryVars, codecVars>>
  \/ which = "operator" /\ Operator!OperatorNext
       /\ UNCHANGED <<which, breakerVars, vars, factsVars, contextVars,
                     rerankVars, lineageVars, embeddingVars, searchVars,
                     memoryVars, codecVars>>
  \/ which = "memory" /\ Memory!MemoryNext
       /\ UNCHANGED <<which, breakerVars, vars, factsVars, contextVars,
                     rerankVars, lineageVars, embeddingVars, searchVars,
                     operatorVars, codecVars>>
  \/ which = "codec" /\ Codec!Next
       /\ UNCHANGED <<which, breakerVars, vars, factsVars, contextVars,
                     rerankVars, lineageVars, embeddingVars, searchVars,
                     operatorVars, memoryVars>>

MCSpec == MCInit /\ [][MCNext]_mcvars

-----------------------------------------------------------------------------
ASSUME /\ BreakerAssumption /\ TokenAssumption /\ FactsAssumption
       /\ Operator!BreakerAssumption /\ Operator!EdgeAssumption /\ Operator!RegistryIsAdmitted
       /\ Memory!BreakerAssumption /\ Memory!EdgeAssumption
       /\ Codec!CodecAssumption

\* What goes into the prompt fits the usable budget with wrappers and
\* separators, and no candidate that would still fit is left out, on the
\* knapsack and on the greedy path (ContextAssembly!PackedFits,
\* NothingFittingLeftOut; packer.py, assemble.py).
PromptsFit == which = "context" => Context!PackedFits /\ Context!NothingFittingLeftOut

\* The reported level tells where the memories come from, both sides of a known
\* conflict never reach the prompt, and no branch outlives its call
\* (ContextAssembly!LevelIsHonest, NoKnownConflict, NoBranchOutlivesCall;
\* retrieval.py, assemble.py).
AnswersAreHonest ==
  which = "context" =>
    Context!LevelIsHonest /\ Context!NoKnownConflict /\ Context!NoBranchOutlivesCall

\* A scored window has the score of every document at its place however batches
\* arrive, and a call that is over leaves no request running (RerankBatches;
\* hosted reranker gather and cancellation).
ScoresAreInPlace == which = "rerank" => Rerank!ScoresMatchDocuments /\ Rerank!NothingLeftRunning

\* A lineage page is the breadth-first neighbourhood of its root as one snapshot
\* shows it, and the tip is the head of the chain (MemoryLineage; lineage.py).
LineageIsExact == which = "lineage" => Lineage!PageIsNeighbourhood /\ Lineage!TipIsHead

\* The i-th vector is the configured model's for the i-th text whatever mixture
\* of hits, misses, late writers and retries an answer comes from, and retries
\* of the two clients multiply and no more (EmbeddingPath; embedder app,
\* embedding_client.py).
VectorsAreRight ==
  /\ which = "embedding" => Embedding!VectorsMatchTexts /\ Embedding!EffortIsBounded
  /\ which = "refusals" => Refusals!VectorsMatchTexts /\ Refusals!EffortIsBounded

\* A search leaves out nothing eligible, lets nothing withheld out, and shows no
\* unresolved pair, although rows come and go between its statements
\* (MemorySearch; search.py, reranking, withhold guard).
SearchesAreComplete ==
  /\ [](Searching!NothingEligibleLeftOut /\ Searching!NothingWithheldLeaves)
  /\ Searching!NoUnresolvedPair

\* Every operator call is audited or counted as dropped, no organisation
\* executes more than its limit in a minute, and what a read found is released
\* whole (McpOperator; gateway.py, redis_store.py, audit.py, redaction.py).
OperatorCallsAreSound ==
  which = "operator" => /\ Operator!EveryCallAccounted
                        /\ Operator!ExecutionsWithinLimit
                        /\ Operator!AnswerIsFaithful

\* A memory call that begins after its agent was suspended reaches nothing, a
\* rejected call did nothing, and one content is written once (McpMemory;
\* tools.py, memory_client.py).
MemoryCallsAreSound ==
  which = "memory" => /\ Memory!EveryCallAccounted
                      /\ Memory!SuspendedAgentIsStopped
                      /\ Memory!RejectedMeansNothingDone

\* What the hand-written protobuf codecs read, from a payload cut at any byte,
\* is what auth.proto means, and what they write is what the service reads
\* (WireCodec; auth_proto.py, session_refresh_codec.py).
CodecIsExact ==
  which = "codec" =>
    Codec!DecodesWhatWasSent /\ Codec!FirstFieldIsFound /\ Codec!RequestsArrive
=============================================================================
