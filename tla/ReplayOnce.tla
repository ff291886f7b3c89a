----------------------------- MODULE ReplayOnce -----------------------------
(***************************************************************************)
(* What an idempotency key promises its clients: one response is recorded  *)
(* for a key, and whoever is answered under the key gets that response,    *)
(* and only for the request that was recorded.                             *)
(***************************************************************************)
CONSTANTS Keys, Requests, None,
          KeyOf,   \* the idempotency key a request carries
          HashOf   \* the fingerprint of its body

VARIABLES recorded,  \* the request whose response is stored under a key
          answers    \* the request whose response a client was given

Init ==
  /\ recorded = [k \in Keys |-> None]
  /\ answers = [q \in Requests |-> None]

Answered(q, r) == answers' = [answers EXCEPT ![q] = r]

\* The response of q becomes the response of its key.
Record(q) ==
  /\ recorded[KeyOf[q]] = None
  /\ recorded' = [recorded EXCEPT ![KeyOf[q]] = q]
  /\ Answered(q, q) \/ UNCHANGED answers

\* A client is answered with what is recorded for its request.
Answer(q) ==
  /\ answers[q] = None
  /\ recorded[KeyOf[q]] # None
  /\ HashOf[recorded[KeyOf[q]]] = HashOf[q]
  /\ Answered(q, recorded[KeyOf[q]])
  /\ UNCHANGED recorded

Next == \E q \in Requests : Record(q) \/ Answer(q)

Spec == Init /\ [][Next]_<<recorded, answers>>

=============================================================================
