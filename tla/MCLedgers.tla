----------------------------- MODULE MCLedgers ------------------------------
(***************************************************************************)
(* What the proxy and the control plane share: budget holds, the pool      *)
(* behind the responses and the snapshot caches. The modules share no      *)
(* state, so a behaviour is about one of them (which).                     *)
(***************************************************************************)
EXTENDS BudgetLedger, AsyncPool, SnapshotCache, TLC

CONSTANTS k1, k2, r1, r2, t1, h1, h2, q1, q2, q3, q4, w1, w2, o1, o2, Parts

\* Budget: two requests that carry one request id, and an extraction task on a
\* key of its own; a request falls back to a second model, the task is retried.
MCKeyOf == (r1 :> k1 @@ r2 :> k1 @@ t1 :> k2)
MCHashOf == (r1 :> h1 @@ r2 :> h1 @@ t1 :> h2)
MCTries == (r1 :> 2 @@ r2 :> 1 @@ t1 :> 2)

\* Snapshots: two organisations, a cache for one, two readers, two writes.
Card(o, n) == [op |-> o, org |-> o1, name |-> n, new |-> None]
Policy(o, n, m) == [op |-> o, org |-> o1, name |-> n, new |-> m]
NoWrite == Policy("none", None, None)
SnapshotCase(k, first, second, c, d) ==
  [kind |-> k, wanted |-> (r1 :> first) @@ (r2 :> second), op |-> (w1 :> c) @@ (w2 :> d)]
SnapshotCases ==
  {SnapshotCase("budget", <<o1>>, <<o1, o2>>, Card("publish_card", k1), Card("publish_card", k1)),
   SnapshotCase("budget", <<o1>>, <<o1, o2>>, Card("create_card", k2), Card("publish_card", k2)),
   SnapshotCase("budget", <<o1>>, <<o1, o2>>, Card("create_card", k1), Card("create_period", k1)),
   SnapshotCase("policy", <<o1>>, <<o2>>, Policy("patch_policy", k1, None), NoWrite),
   SnapshotCase("policy", <<o1, o1>>, <<>>, Policy("patch_policy", k1, k2), Policy("patch_policy", k1, k1)),
   SnapshotCase("policy", <<o1>>, <<>>, Policy("delete_policy", k1, None), Policy("create_policy", k1, None)),
   SnapshotCase("policy", <<o1>>, <<>>, Policy("patch_policy", k1, k2), Policy("delete_policy", k2, None))}
\* A second organisation evicts the first one between two loads of its policies.
EvictionCases ==
  {SnapshotCase("policy", <<o1>>, <<o1, o2>>, Policy("create_policy", k2, None), NoWrite)}
AnySnapshotCase == CHOOSE c \in SnapshotCases : TRUE

VARIABLE which   \* the component this behaviour is about

mcvars == <<which, vars, poolVars, snapshotVars>>

-----------------------------------------------------------------------------
MCInit ==
  /\ which \in Parts
  /\ Init /\ (which # "budget" => period = 1)
  /\ PoolInit
  /\ SnapshotInit /\ (which # "snapshots" => kind = AnySnapshotCase.kind /\ op = AnySnapshotCase.op)

MCNext ==
  \/ which = "budget" /\ Next
       /\ UNCHANGED <<which, poolVars, snapshotVars>>
  \/ which = "pool" /\ PoolNext
       /\ UNCHANGED <<which, vars, snapshotVars>>
  \/ which = "snapshots" /\ SnapshotNext
       /\ UNCHANGED <<which, vars, poolVars>>

MCSpec == MCInit /\ [][MCNext]_mcvars

-----------------------------------------------------------------------------
ASSUME PoolAssumption /\ SnapshotAssumption

\* The live holds of a period stay within its cap, rows satisfy the CHECK
\* constraints and a version has one owner, however claims, retries, fallbacks
\* and the reaper of the two runtimes interleave (BudgetLedger; ledger.go Claim,
\* budget_ledger.py, budget_reaper).
BudgetIsKept == HoldsWithinCap /\ ChecksHold /\ SingleOwner
=============================================================================
