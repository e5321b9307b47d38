--------------------------- MODULE CircuitBreaker ---------------------------
(***************************************************************************)
(* The life of the circuit breaker: assessed by every tick with whatever   *)
(* equity and daily profit rate the broker reported, reset by hand, saved  *)
(* to the engine_state row and restored by the next process.               *)
(*                                                                         *)
(* History variables record, independently of the breaker, what it was     *)
(* shown since the last reset: the equity curve and the days that showed a *)
(* daily loss. A restart falls back to what had been saved, so the history *)
(* has a durable copy beside the durable breaker.                          *)
(***************************************************************************)
EXTENDS Breaker, Sequences

CONSTANTS
    Equities,     \* account equities the broker may report (Unknown is added)
    Rates,        \* daily profit rates, percent (Unknown is added)
    MaxDay,       \* bound: trading days
    MaxCurve,     \* bound: measured equities since the last reset
    MaxRestarts   \* bound: restarts of the process

ASSUME CircuitBreakerAssumption ==
    /\ Equities \subseteq Int
    /\ Rates \subseteq Int
    /\ MaxDay \in Nat /\ MaxCurve \in Nat /\ MaxRestarts \in Nat

VARIABLES
    breaker,      \* OrderService.circuit_breaker of the running process
    day,          \* today's date
    stored,       \* engine_state.breaker_json, Unknown before the first save
    history,      \* what the breaker was shown, as the running process knows it
    saved,        \* history as of the last save
    restarts      \* bound

vars == <<breaker, day, stored, history, saved, restarts>>

NoHistory == [curve    |-> <<>>,   \* every equity measured
              since    |-> 1,      \* where the curve starts after the last reset
              lossDays |-> {}]     \* days with a daily loss since the last reset
-----------------------------------------------------------------------------
Init ==
    /\ breaker = FreshBreaker
    /\ day = 0
    /\ stored = Unknown
    /\ history = NoHistory
    /\ saved = NoHistory
    /\ restarts = 0

(* pipeline.run_tick assesses once per tick; either figure may be missing. *)
TickAssess(equity, rate) ==
    /\ Measured(equity) => Len(history.curve) < MaxCurve
    /\ breaker' = Assess(breaker, equity, rate, day)
    /\ history' = [history EXCEPT
           !.curve = IF Measured(equity) THEN Append(@, equity) ELSE @,
           !.lossDays = IF DailyLoss(rate) THEN @ \cup {day} ELSE @]
    /\ UNCHANGED <<day, stored, saved, restarts>>

(* POST /api/circuit-breaker/reset                                         *)
ManualReset ==
    /\ breaker' = Reset(breaker)
    /\ history' = [history EXCEPT !.since = Len(history.curve) + 1, !.lossDays = {}]
    /\ UNCHANGED <<day, stored, saved, restarts>>

(* save_engine_state, which follows every tick and every reset; EngineState*)
(* has the interleavings of its reads and writes.                          *)
Save ==
    /\ stored # breaker
    /\ stored' = breaker
    /\ saved' = history
    /\ UNCHANGED <<breaker, day, history, restarts>>

Restart ==
    /\ restarts < MaxRestarts
    /\ breaker' = Restored(stored)
    /\ history' = saved
    /\ restarts' = restarts + 1
    /\ UNCHANGED <<day, stored, saved>>

NextDay ==
    /\ day < MaxDay
    /\ day' = day + 1
    /\ UNCHANGED <<breaker, stored, history, saved, restarts>>

Next ==
    \/ \E equity \in Equities \cup {Unknown}, rate \in Rates \cup {Unknown} :
          TickAssess(equity, rate)
    \/ ManualReset
    \/ Save
    \/ Restart
    \/ NextDay

Spec == Init /\ [][Next]_vars
-----------------------------------------------------------------------------
HistoryType == [curve : Seq(Nat \ {0}), since : Nat \ {0}, lossDays : SUBSET Nat]

TypeOK ==
    /\ breaker \in BreakerState
    /\ day \in Nat
    /\ stored \in BreakerState \cup {Unknown}
    /\ history \in HistoryType
    /\ saved \in HistoryType
    /\ restarts \in Nat

(* The drawdown of the i-th point of the equity curve from the highest of  *)
(* the points from..i, stated without the breaker.                         *)
PeakOf(c, from, i) ==
    CHOOSE p \in {c[j] : j \in from..i} : \A j \in from..i : c[j] <= p
DrawdownAt(c, from, i) ==
    [lost |-> PeakOf(c, from, i) - c[i], of |-> PeakOf(c, from, i)]

(* Hysteresis, as circuit_breaker.py:7-10 describes it, over the whole     *)
(* curve since the last reset: the breaker holds new entries back exactly  *)
(* when the equity sank to the limit at some point and has not been back   *)
(* within the rearm level since, whatever unknown or non-positive readings,*)
(* midnights, saves and restarts came between.                             *)
HaltFollowsEquityCurve ==
    LET c == history.curve
        At(i) == DrawdownAt(c, history.since, i)
    IN  breaker.drawdownHalt <=>
            \E i \in history.since..Len(c) :
                /\ Deep(At(i))
                /\ \A j \in i..Len(c) : Deep(At(j)) \/ ~Recovered(At(j))

(* A daily loss closes entries for the day it was seen on and for no other:*)
(* circuit_breaker.py:11-12. The day is the one of the latest assess.      *)
DailyHaltIsForItsDay ==
    DailyHaltActive(breaker) <=> breaker.today \in history.lossDays

(* A drawdown that stands at the limit is never left open for entries: no  *)
(* path through a missing equity, a reset, a save or a restart separates   *)
(* the measured drawdown from the latch.                                   *)
DeepDrawdownIsHalted ==
    (breaker.hwm # Unknown /\ Deep(breaker.drawdown)) => Tripped(breaker)

(* The drawdown latch opens only on a measured recovery, on a reset by hand*)
(* or by going back to the saved state; neither a new day nor a missing    *)
(* figure opens it.                                                        *)
OpensOnlyOnEvidence ==
    [][ (breaker.drawdownHalt /\ ~breaker'.drawdownHalt)
          => \/ Recovered(breaker'.drawdown)
             \/ breaker' = Restored(stored) ]_vars
=============================================================================
