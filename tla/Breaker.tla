------------------------------ MODULE Breaker ------------------------------
(***************************************************************************)
(* The loss circuit breaker of app/orders/circuit_breaker.py as operators  *)
(* on a record: what assess, reset, dump_state and restore_state return.   *)
(* CircuitBreaker makes a state machine of it, Tick composes it with the   *)
(* trading tick.                                                           *)
(*                                                                         *)
(* Rates are whole percents. A drawdown is kept as the fraction lost / of, *)
(* so that the comparisons with the limits are exact, as they are in the   *)
(* code's Decimal arithmetic. reason is text for people and left out.      *)
(***************************************************************************)
EXTENDS Integers

CONSTANTS
    DailyLossLimit,      \* percent, a size: -5% is 5
    MaxDrawdownLimit,    \* percent, a size
    RearmDrawdown,       \* percent, a size
    Unknown              \* the code's None

ASSUME BreakerAssumption ==
    /\ DailyLossLimit \in Nat
    /\ MaxDrawdownLimit \in Nat \ {0}
    /\ RearmDrawdown \in Nat
    /\ Unknown \notin Int

Drawdown == [lost : Nat, of : Nat \ {0}]
NoDrawdown == [lost |-> 0, of |-> 1]

BreakerState == [hwm             : (Nat \ {0}) \cup {Unknown},
                 drawdown        : Drawdown,
                 dailyHaltDate   : Nat \cup {Unknown},
                 drawdownHalt    : BOOLEAN,
                 today           : Nat \cup {Unknown}]

ASSUME NoStateAssumption == Unknown \notin BreakerState

Cleared(date) == [hwm           |-> Unknown,
                  drawdown      |-> NoDrawdown,
                  dailyHaltDate |-> Unknown,
                  drawdownHalt  |-> FALSE,
                  today         |-> date]

FreshBreaker == Cleared(Unknown)

Deep(dd) == dd.lost * 100 >= MaxDrawdownLimit * dd.of
Recovered(dd) == dd.lost * 100 <= RearmDrawdown * dd.of

DailyHaltActive(b) == b.dailyHaltDate # Unknown /\ b.dailyHaltDate = b.today
Tripped(b) == b.drawdownHalt \/ DailyHaltActive(b)
-----------------------------------------------------------------------------
(* Only an equity that is known and positive moves the peak and the        *)
(* drawdown.                                                               *)
Measured(equity) == equity # Unknown /\ equity > 0

NewPeak(hwm, equity) ==
    IF Measured(equity) /\ (hwm = Unknown \/ equity > hwm) THEN equity ELSE hwm

NewDrawdown(old, hwm, equity) ==
    IF Measured(equity) THEN [lost |-> hwm - equity, of |-> hwm] ELSE old

(* Sets at the limit, clears at the rearm level, holds between the two.    *)
HaltWithoutHysteresis(halted, dd) == Deep(dd)
HaltAfter(halted, dd) == Deep(dd) \/ (halted /\ ~Recovered(dd))

(* A daily loss stamps today's date; a later gain does not take it back.   *)
DailyLoss(rate) == rate # Unknown /\ rate <= -DailyLossLimit
HaltDateOfThisRate(halted, rate, date) == IF DailyLoss(rate) THEN date ELSE Unknown
HaltDateAfter(halted, rate, date) == IF DailyLoss(rate) THEN date ELSE halted

Assess(b, equity, rate, date) ==
    LET hwm == NewPeak(b.hwm, equity)
        dd  == NewDrawdown(b.drawdown, hwm, equity)
    IN  [hwm           |-> hwm,
         drawdown      |-> dd,
         dailyHaltDate |-> HaltDateAfter(b.dailyHaltDate, rate, date),
         drawdownHalt  |-> IF equity # Unknown /\ hwm # Unknown
                           THEN HaltAfter(b.drawdownHalt, dd) ELSE b.drawdownHalt,
         today         |-> date]

(* reset leaves only the date of the last assess.                          *)
Reset(b) == Cleared(b.today)

(* dump_state writes Decimals with str and dates with isoformat, both of   *)
(* which restore_state reads back exactly; a program that finds no saved   *)
(* state keeps its fresh breaker.                                          *)
RestoredWithoutLatch(saved) ==
    IF saved = Unknown THEN FreshBreaker ELSE [saved EXCEPT !.drawdownHalt = FALSE]

Restored(saved) == IF saved = Unknown THEN FreshBreaker ELSE saved
=============================================================================
