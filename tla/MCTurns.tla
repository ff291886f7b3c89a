------------------------------ MODULE MCTurns -------------------------------
(***************************************************************************)
(* What becomes of a turn: the evidence outbox with relays that overtake   *)
(* one another, the claims of chat requests in Redis, the checkpoints of a *)
(* session, and the way of the turns to an extraction task. The modules    *)
(* share no state, so a behaviour is about one of them (which).            *)
(***************************************************************************)
EXTENDS EvidenceOutbox, IdempotencyRedis, SessionTurns, ExtractionFlow

CONSTANTS q1, q2, q3, s1, w1, w2, t1, t2, t3, p1, p2, k1, h1, h2, Parts

\* The outbox: two runs, one of which can never be projected, and two relays.
AllInOneSession == [q \in Requests |-> s1]
OkAndTerminal == [q \in Requests |-> IF q = q1 THEN "ok" ELSE "terminal"]

\* Redis: two requests with one key and body, a third with another body.
OneKey == [q \in {q1, q2, q3} |-> k1]
Bodies == [q \in {q1, q2, q3} |-> IF q = q3 THEN h2 ELSE h1]

\* Extraction: two terminate calls in one proxy process, a third in another.
Proc == [t \in {t1, t2, t3} |-> IF t = t3 THEN p2 ELSE p1]

VARIABLE which   \* the component this behaviour is about

mcvars == <<which, vars, redisVars, turnsVars, flowVars>>

-----------------------------------------------------------------------------
MCInit ==
  /\ which \in Parts
  /\ Init
  /\ RedisInit
  /\ TurnsInit
  /\ FlowInit

MCNext ==
  \/ which = "outbox" /\ Next
       /\ UNCHANGED <<which, redisVars, turnsVars, flowVars>>
  \/ which = "redis" /\ RedisNext
       /\ UNCHANGED <<which, vars, turnsVars, flowVars>>
  \/ which = "turns" /\ TurnsNext
       /\ UNCHANGED <<which, vars, redisVars, flowVars>>
  \/ which = "extraction" /\ FlowNext
       /\ UNCHANGED <<which, vars, redisVars, turnsVars>>

MCSpec == MCInit /\ [][MCNext]_mcvars

-----------------------------------------------------------------------------
ASSUME RedisAssumption /\ TurnsAssumption /\ FlowAssumption
=============================================================================
