-------------------------- MODULE MCCircuitBreaker --------------------------
(***************************************************************************)
(* Values for TLC. The limits are the defaults of CircuitBreakerConfig;    *)
(* the equities sit on them: from a peak of 100, 93 is within the rearm    *)
(* level, 90 between the two limits, 85 at the limit; 0 is known but not   *)
(* positive. The rates are at the daily limit and just short of it.        *)
(***************************************************************************)
EXTENDS CircuitBreaker

MCEquities == {0, 85, 90, 93, 100}
MCRates == {-5, -4}
=============================================================================
