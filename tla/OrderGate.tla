------------------------------ MODULE OrderGate ------------------------------
(***************************************************************************)
(* What the order service promises to its caller, without guardrails,      *)
(* ledger or retries: every clientOrderId is decided once; an order reaches*)
(* the broker at most once, only in a process armed for LIVE, and only as  *)
(* part of the decision about it. A decision is final: asking again never  *)
(* sends again, not even after a failure whose fate is unknown.            *)
(***************************************************************************)
CONSTANTS Ids

VARIABLES
    armed,     \* LIVE was granted at start and an executor is there
    outcome,   \* [Ids -> "undecided" or the final status]
    reached    \* ids the broker has received and executed

gateVars == <<armed, outcome, reached>>

GateInit ==
    /\ armed \in BOOLEAN
    /\ outcome = [i \in Ids |-> "undecided"]
    /\ reached = {}

Decide(i, status) ==
    /\ outcome[i] = "undecided"
    /\ outcome' = [outcome EXCEPT ![i] = status]
    /\ armed' = armed

(* Refused, recorded as an intention, or failed before it was sent.        *)
KeepIn(i) ==
    /\ \E status \in {"REJECTED", "DRY_RUN", "FAILED"} : Decide(i, status)
    /\ reached' = reached

LetOut(i) ==
    /\ armed
    /\ \E status \in {"SUBMITTED", "FAILED"} : Decide(i, status)
    /\ reached' = reached \cup {i}

GateNext == \E i \in Ids : KeepIn(i) \/ LetOut(i)

GateSpec == GateInit /\ [][GateNext]_gateVars
=============================================================================
