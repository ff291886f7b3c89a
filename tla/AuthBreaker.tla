---------------------------- MODULE AuthBreaker ----------------------------
(***************************************************************************)
(* The circuit breaker that both MCP servers put in front of ValidateToken *)
(* (services/mcp-operator/app/auth_breaker.py and its twin in mcp-memory). *)
(* Its methods run under a lock and never await, so each is one step; the  *)
(* call to the auth service lies between them.  A call that began while    *)
(* the breaker was closed may come back in any later state of it.          *)
(* The two copies differ in one respect: the operator's also trips when    *)
(* the probe is cancelled (CancelTrips).                                   *)
(***************************************************************************)
EXTENDS Naturals, FiniteSets

CONSTANTS Calls,         \* the requests that validate a token
          Threshold,     \* failure_threshold
          CancelTrips    \* does a cancelled call trip a half-open breaker?

BreakerAssumption == /\ Threshold \in Nat \ {0}
                     /\ CancelTrips \in BOOLEAN

VARIABLES breaker,       \* BreakingTokenValidator._state
          fails,         \* _consecutive_failures, kept at Threshold once there
          cooled,        \* has the cooldown passed since _opened_at?
          reserved,      \* _probe_inflight
          val            \* where each call is in validate

breakerVars == <<breaker, fails, cooled, reserved, val>>

Outcomes == {"accepted", "failed", "unavailable", "error"}

BreakerTypeOK ==
  /\ breaker \in {"closed", "open", "half_open"}
  /\ fails \in 0..Threshold
  /\ cooled \in BOOLEAN
  /\ reserved \in BOOLEAN
  /\ val \in [Calls -> {"idle", "calling", "probing", "rejected", "cancelled"} \cup Outcomes]

BreakerInit ==
  /\ breaker = "closed"
  /\ fails = 0
  /\ cooled = FALSE
  /\ reserved = FALSE
  /\ val = [c \in Calls |-> "idle"]

InFlight(c) == val[c] \in {"calling", "probing"}

-----------------------------------------------------------------------------
\* _reserve_or_reject: an open breaker lets one caller through once it has cooled.

\* Faulty variant: a probe is started without looking for one in flight.
MayProbeAgain == breaker = "open" /\ cooled

MayProbe == breaker = "open" /\ cooled /\ ~reserved

ReserveProbe(c) ==
  /\ MayProbe
  /\ reserved' = TRUE
  /\ breaker' = "half_open"
  /\ val' = [val EXCEPT ![c] = "probing"]
  /\ UNCHANGED <<fails, cooled>>

PassClosed(c) ==
  /\ breaker = "closed"
  /\ val' = [val EXCEPT ![c] = "calling"]
  /\ UNCHANGED <<breaker, fails, cooled, reserved>>

RejectCall(c) ==
  /\ breaker = "half_open" \/ (breaker = "open" /\ ~MayProbe)
  /\ val' = [val EXCEPT ![c] = "rejected"]
  /\ UNCHANGED <<breaker, fails, cooled, reserved>>

ReserveOrReject(c) ==
  /\ val[c] = "idle"
  /\ ReserveProbe(c) \/ PassClosed(c) \/ RejectCall(c)

-----------------------------------------------------------------------------
\* _record_outcome.

TripOpen == breaker' = "open" /\ cooled' = FALSE

OnSuccess ==
  /\ fails' = 0
  /\ breaker' = "closed"
  /\ UNCHANGED cooled

OnUnavailable ==
  LET n == IF fails < Threshold THEN fails + 1 ELSE fails
      trips == breaker = "half_open" \/ (breaker = "closed" /\ n = Threshold)
  IN /\ fails' = n
     /\ IF trips THEN TripOpen ELSE UNCHANGED <<breaker, cooled>>

TripOpenIfHalfOpen ==
  /\ IF breaker = "half_open" THEN TripOpen ELSE UNCHANGED <<breaker, cooled>>
  /\ UNCHANGED fails

\* The finally clause of validate.  Nothing awaits between recording an
\* outcome and releasing the reservation, so both are one step.
ReleaseProbe(c) == reserved' = IF val[c] = "probing" THEN FALSE ELSE reserved

\* A rejected token is an answer and not an outage.
ValidateReturns(c, outcome) ==
  /\ InFlight(c)
  /\ CASE outcome \in {"accepted", "failed"} -> OnSuccess
       [] outcome = "unavailable"            -> OnUnavailable
       [] outcome = "error"                  -> TripOpenIfHalfOpen
  /\ ReleaseProbe(c)
  /\ val' = [val EXCEPT ![c] = outcome]

\* Faulty variant: a cancelled probe leaves the breaker half-open.
OnCancelIgnored == UNCHANGED <<breaker, cooled, fails>>

OnCancel ==
  IF CancelTrips THEN TripOpenIfHalfOpen ELSE UNCHANGED <<breaker, cooled, fails>>

ValidateCancelled(c) ==
  /\ InFlight(c)
  /\ OnCancel
  /\ ReleaseProbe(c)
  /\ val' = [val EXCEPT ![c] = "cancelled"]

CoolDown ==
  /\ breaker = "open" /\ ~cooled
  /\ cooled' = TRUE
  /\ UNCHANGED <<breaker, fails, reserved, val>>

BreakerNext ==
  \/ \E c \in Calls :
       \/ ReserveOrReject(c)
       \/ \E o \in Outcomes : ValidateReturns(c, o)
       \/ ValidateCancelled(c)
  \/ CoolDown

BreakerSpec == BreakerInit /\ [][BreakerNext]_breakerVars

-----------------------------------------------------------------------------
(* At most one caller probes the auth service at a time, although a late   *)
(* answer of an older call may open or close the breaker under the probe   *)
(* (_probe_inflight, auth_breaker.py).                                     *)
OneProbe == Cardinality({c \in Calls : val[c] = "probing"}) <= 1

(* A half-open breaker has a probe in flight.  Callers are rejected until  *)
(* that probe ends, so without one they would be rejected for ever.        *)
HalfOpenHasProbe == breaker = "half_open" => \E c \in Calls : val[c] = "probing"

(* One probe at a time, and never none in a half-open breaker whose        *)
(* cancelled probe trips it (auth_breaker.py of mcp-operator).             *)
ProbesAreSingle == OneProbe /\ (CancelTrips => HalfOpenHasProbe)
=============================================================================
