---------------------------- MODULE McpOperator ----------------------------
(***************************************************************************)
(* The MCP operator gateway: its read-only tools (registry, policy,        *)
(* argument checks, the tenant-scoped reads and the sanitizer every result *)
(* passes: services/mcp-operator/app/tools.py and repositories.py) and the *)
(* enforcement pipeline of packages/mcp_gateway/enforcement.py around      *)
(* them.  A request is [org, bearer, tool, permissions, args].  A scalar   *)
(* is represented by its JSON type, an object by a function from its keys; *)
(* a row is a record with the columns that the reads select by and the set *)
(* `nulls' of its NULL columns.                                            *)
(***************************************************************************)
EXTENDS McpEdge, TLC

CONSTANTS Db,              \* [sessions, runs, periods |-> sets of rows]
          EvidenceMaxLimit,
          BudgetMaxLimit

Tools == {"session.get", "run.get", "evidence.query", "budget.get"}

-----------------------------------------------------------------------------
\* Declared output: for each key the JSON types it may have.

NullableString == {"string", "null"}

SessionProperties ==
  [k \in {"session_id", "status"} |-> {"string"}]
    @@ [k \in {"turn_count", "total_input_tokens", "total_output_tokens"} |-> {"integer"}]
    @@ [k \in {"model", "provider", "agent_id", "created_at", "updated_at", "completed_at"}
          |-> NullableString]

RunProperties ==
  [k \in {"run_id", "status"} |-> {"string"}]
    @@ [k \in {"trace_id", "request_id", "error_code", "completeness", "capture_mode",
               "sample_decision", "schema_version", "agent_id", "session_id",
               "started_at", "ended_at"} |-> NullableString]

EvidenceItemProperties ==
  [k \in {"run_id", "status"} |-> {"string"}]
    @@ [k \in {"trace_id", "request_id", "error_code", "completeness", "capture_mode",
               "started_at", "ended_at"} |-> NullableString]

PeriodProperties ==
  [k \in {"period_id"} |-> {"string"}]
    @@ [k \in {"cap_cents", "spent_cents_cached"} |-> {"integer"}]
    @@ [k \in {"period_start", "period_end", "enforcement_mode"} |-> NullableString]

ObjectSchema(properties, required) == [properties |-> properties, required |-> required]

SessionSchema ==
  ObjectSchema(SessionProperties,
    {"session_id", "status", "turn_count", "total_input_tokens", "total_output_tokens"})

RunSchema == ObjectSchema(RunProperties, {"run_id", "status", "trace_id", "request_id"})

\* The schema of the items; the wrapper declares the list, count and truncated.
EvidenceSchema == ObjectSchema(EvidenceItemProperties, {"run_id", "status"})

BudgetSchema == ObjectSchema(PeriodProperties, {"period_id", "cap_cents", "spent_cents_cached"})

-----------------------------------------------------------------------------
\* Registry and policy.

SessionSpec == [scope |-> "operator.read", schema |-> SessionSchema, rows |-> 1, timeout |-> 2000,
                role |-> "read_only"]

RunSpec == [scope |-> "runs.read", schema |-> RunSchema, rows |-> 1, timeout |-> 2000,
            role |-> "read_only"]

EvidenceSpec == [scope |-> "evidence.read", schema |-> EvidenceSchema, rows |-> EvidenceMaxLimit,
                 timeout |-> 2000, role |-> "read_only"]

BudgetSpec == [scope |-> "budget.read", schema |-> BudgetSchema, rows |-> BudgetMaxLimit,
               timeout |-> 2000, role |-> "read_only"]

Registry ==
  [t \in Tools |->
     CASE t = "session.get"    -> SessionSpec
       [] t = "run.get"        -> RunSpec
       [] t = "evidence.query" -> EvidenceSpec
       [] t = "budget.get"     -> BudgetSpec]

\* ToolSpec.__post_init__: a spec that fails it cannot be built.
ValidSpec(spec) ==
  /\ spec.role = "read_only"
  /\ spec.timeout \in 1..30000
  /\ spec.rows \in 1..1000

RegistryIsAdmitted == \A t \in Tools : ValidSpec(Registry[t])

ScopePermission ==
  [s \in {"operator.read", "runs.read", "evidence.read", "budget.read"} |->
     CASE s = "operator.read" -> "OPERATOR_METADATA_READ"
       [] s = "runs.read"     -> "TRACE_READ"
       [] s = "evidence.read" -> "OPERATOR_REDACTED_READ"
       [] s = "budget.read"   -> "BILLING_READ"]

ScopeGranted(permissions, spec) == ScopePermission[spec.scope] \in permissions

PolicyAllows(permissions, spec) == spec.role = "read_only" /\ ScopeGranted(permissions, spec)

-----------------------------------------------------------------------------
\* Arguments: undeclared keys are refused; a lookup takes an id (0 is one that
\* does not parse), a query filters
\* (a record with the columns to match) and a limit.

SessionGetArgs(args) == DOMAIN args = {"id"} /\ args.id # 0

RunGetArgs(args) == DOMAIN args = {"id"} /\ args.id # 0

EvidenceQueryArgs(args) ==
  /\ DOMAIN args = {"filter", "limit"}
  /\ DOMAIN args.filter \subseteq {"trace_id", "session_id", "request_id", "error_code", "status"}
  /\ "status" \in DOMAIN args.filter => args.filter.status \in {"ok", "error"}
  /\ args.limit \in 1..EvidenceMaxLimit

BudgetGetArgs(args) ==
  /\ DOMAIN args = {"active_only", "limit"}
  /\ args.limit \in 1..BudgetMaxLimit

ValidateArgs(tool, args) ==
  CASE tool = "session.get"    -> SessionGetArgs(args)
    [] tool = "run.get"        -> RunGetArgs(args)
    [] tool = "evidence.query" -> EvidenceQueryArgs(args)
    [] tool = "budget.get"     -> BudgetGetArgs(args)

-----------------------------------------------------------------------------
\* The reads.  Rows are numbered in the order of their timestamps.

Typed(columns, row, type) ==
  [k \in columns |-> IF k \in row.nulls THEN "null" ELSE type]

SessionResult(row) ==
  [k \in {"turn_count", "total_input_tokens", "total_output_tokens"} |-> "integer"]
    @@ Typed(DOMAIN SessionProperties, row, "string")

RunRow(row) == Typed(DOMAIN RunProperties, row, "string")

PeriodRow(row) ==
  [k \in {"cap_cents", "spent_cents_cached"} |-> "integer"]
    @@ Typed(DOMAIN PeriodProperties, row, "string")

ResultOf(table, row) ==
  CASE table = "sessions" -> SessionResult(row)
    [] table = "runs"     -> RunRow(row)
    [] table = "periods"  -> PeriodRow(row)

\* The results of a read by the id of their row.
ById(table, rows) ==
  [i \in {r.id : r \in rows} |-> ResultOf(table, CHOOSE r \in rows : r.id = i)]

Found(table, rows) == [kind |-> "found", results |-> ById(table, rows)]

GetSession(org, id) ==
  LET rows == {r \in Db.sessions : r.org = org /\ r.id = id /\ ~r.deleted}
  IN IF rows = {} THEN [kind |-> "not_found"] ELSE Found("sessions", rows)

GetRun(org, id) ==
  LET rows == {r \in Db.runs : r.org = org /\ r.id = id}
  IN IF rows = {} THEN [kind |-> "not_found"] ELSE Found("runs", rows)

Newest(rows, n) == {r \in rows : Cardinality({q \in rows : q.id > r.id}) < n}

\* Faulty variant: exactly the rows asked for are fetched.
FetchLimitExact(limit) == limit

\* One row more, to learn whether there are more.
FetchLimit(limit) == limit + 1

Listed(table, rows, limit) ==
  LET fetched == Newest(rows, FetchLimit(limit))
      selected == Newest(fetched, limit)
  IN [kind |-> "list", results |-> ById(table, selected), count |-> Cardinality(selected),
      truncated |-> Cardinality(fetched) > limit]

\* A filter on status "error" takes every status but "ok".
EvidenceMatches(org, filter) ==
  {r \in Db.runs :
     /\ r.org = org
     /\ \A k \in DOMAIN filter \ {"status"} : k \notin r.nulls /\ r[k] = filter[k]
     /\ "status" \in DOMAIN filter => (filter.status = "ok") = (r.status = "ok")}

QueryEvidence(org, filter, limit) == Listed("runs", EvidenceMatches(org, filter), limit)

PeriodMatches(org, activeOnly) == {r \in Db.periods : r.org = org /\ (activeOnly => r.active)}

GetBudgetPeriods(org, activeOnly, limit) ==
  Listed("periods", PeriodMatches(org, activeOnly), limit)

Dispatch(tool, org, args) ==
  CASE tool = "session.get"    -> GetSession(org, args.id)
    [] tool = "run.get"        -> GetRun(org, args.id)
    [] tool = "evidence.query" -> QueryEvidence(org, args.filter, args.limit)
    [] tool = "budget.get"     -> GetBudgetPeriods(org, args.active_only, args.limit)

-----------------------------------------------------------------------------
\* sanitize_output.

SensitiveKeys ==
  {"content", "contents", "prompt", "prompts", "token", "tokens", "access_token", "secret",
   "secrets", "password", "api_key", "apikey", "authorization", "raw", "raw_content", "payload",
   "arguments", "args", "body", "messages", "message"}

ReleasedKeys(object, schema) == (DOMAIN object \cap DOMAIN schema.properties) \ SensitiveKeys

TypeMatches(value, types) == value \in types

RequireKeys(schema, keys) == schema.required \subseteq keys

\* Can the object be shaped to the schema, and what leaves?
Sanitizable(object, schema) ==
  LET keys == ReleasedKeys(object, schema)
  IN /\ \A k \in keys : TypeMatches(object[k], schema.properties[k])
     /\ RequireKeys(schema, keys)

SanitizeObject(object, schema) == [k \in ReleasedKeys(object, schema) |-> object[k]]

SanitizeOutput(payload, schema) ==
  IF \A i \in DOMAIN payload.results : Sanitizable(payload.results[i], schema)
  THEN [payload EXCEPT !.results = [i \in DOMAIN @ |-> SanitizeObject(@[i], schema)]]
  ELSE [kind |-> "redaction_failed"]

-----------------------------------------------------------------------------
\* The checks of _run_pipeline before the read; none of them awaits.
Refusal(c) ==
  LET r == request[c]
  IN CASE r.tool \notin Tools                            -> "tool_not_found"
       [] ~PolicyAllows(r.permissions, Registry[r.tool]) -> "permission_denied"
       [] ~ValidateArgs(r.tool, r.args)                  -> "invalid_params"
       [] OTHER                                          -> "none"

Read(c) == Dispatch(request[c].tool, request[c].org, request[c].args)

Released(c) ==
  IF Read(c).kind = "not_found" THEN Read(c)
  ELSE SanitizeOutput(Read(c), Registry[request[c].tool].schema)

Execute(c) ==
  /\ stage[c] = "executing"
  /\ NoFault /\ Quiet
  /\ ToolEnds(c, Released(c))
  /\ UNCHANGED breakerVars

\* The read times out or the database fails.
ExecuteFails(c) ==
  /\ stage[c] = "executing"
  /\ Fault /\ Quiet
  /\ ToolEnds(c, [kind |-> "backend_unavailable"])
  /\ UNCHANGED breakerVars

OperatorNext ==
  \/ EdgeStep
  \/ \E c \in Calls :
       \/ StartCheck(c)
       \/ Check(c, Refusal(c), "executing")
       \/ CheckFails(c, Refusal(c), "executing")
       \/ Execute(c)
       \/ ExecuteFails(c)
       \/ Cancel(c, {"executing"})

OperatorSpec == EdgeInit /\ [][OperatorNext]_edgeVars

-----------------------------------------------------------------------------
Matching(c) ==
  LET r == request[c]
  IN CASE r.tool = "evidence.query" -> EvidenceMatches(r.org, r.args.filter)
       [] r.tool = "budget.get"     -> PeriodMatches(r.org, r.args.active_only)
       [] r.tool = "session.get"    -> {s \in Db.sessions : s.org = r.org /\ s.id = r.args.id /\ ~s.deleted}
       [] r.tool = "run.get"        -> {s \in Db.runs : s.org = r.org /\ s.id = r.args.id}

(* What a read found is released and never lost in the sanitizer: declared *)
(* types admit every row the tables can hold, lists hold the newest rows,  *)
(* and "truncated" is said exactly when matching rows were left out        *)
(* (repositories.py, redaction.py).                                        *)
AnswerIsFaithful ==
  \A c \in Calls :
    /\ answer[c].kind # "redaction_failed"
    /\ answer[c].kind = "not_found" => Matching(c) = {}
    /\ answer[c].kind \in {"found", "list"} =>
         LET shown == DOMAIN answer[c].results
             ids == {r.id : r \in Matching(c)}
         IN /\ shown \subseteq ids
            /\ \A i \in ids \ shown : \A j \in shown : i < j
            /\ answer[c].kind = "list" =>
                 /\ answer[c].truncated = (shown # ids)
                 /\ answer[c].truncated => answer[c].count = request[c].args.limit
            /\ \A i \in shown :
                 DOMAIN answer[c].results[i] = DOMAIN Registry[request[c].tool].schema.properties
=============================================================================
