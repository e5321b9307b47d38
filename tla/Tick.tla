-------------------------------- MODULE Tick --------------------------------
(***************************************************************************)
(* One tick after the other in one process: _execute_tick_locked           *)
(* (app/api/tick.py) and run_tick (app/engine/pipeline.py). TickLock says  *)
(* when no other tick runs on the same database. Between two awaits of the *)
(* tick, handlers of other requests run; the order loop has no await, so   *)
(* nothing but the clock moves during it. The database outlives crashes.   *)
(*                                                                         *)
(* In DRY_RUN the paper book drives the tick (a seed is configured); in    *)
(* LIVE the account does, which is external: any holdings may be found.    *)
(* Which symbols are candidates, what the judge decides, how allocate sizes*)
(* an order and how the breaker assesses are free choices here. The weight *)
(* guard is left to OrderService (no portfolio value is known), and what   *)
(* interleaves while the switches are saved to EngineState.                *)
(***************************************************************************)
EXTENDS Guardrails

CONSTANTS
    Symbols,
    Notionals,     \* KRW cost of a buy that allocate may propose
    LastDay,       \* bound: days 0..LastDay
    MaxFailures    \* bound: failing steps of ticks, crashes

ASSUME TickAssumption ==
    /\ Notionals \subseteq Nat
    /\ LastDay \in Nat
    /\ MaxFailures \in Nat

Days == 0..LastDay
Decisions == [symbol : Symbols, side : Sides]
NothingBought == [d \in Days |-> 0]

VARIABLES
    mode, executor,       \* OrderService.mode; was an executor injected
    killSwitch, tripped,  \* OrderService.kill_switch; its breaker
    day, open,            \* KST date; is it market hours now
    used,                 \* orders table: [Days -> buy_notional_today]
    book,                 \* paper book: symbols with a position
    everBought,           \* history: symbols with a recorded, accepted buy
    at,                   \* step of the tick
    tickDay, inHours,     \* from now, read when the tick starts
    dailyUsed,            \* daily_used of run_tick
    ks,                   \* kill switch read when run_tick starts
    held,                 \* holdings the tick works on
    forced,               \* symbols to exit by rule (stop loss, time stop)
    todo,                 \* decisions not yet turned into orders
    bought,               \* [Days -> accepted buy notional of this tick]
    accepted,             \* accepted orders of this tick
    mustHalt,             \* history: a LIVE mismatch not released since
    end,                  \* history: how the last tick ended
    failures              \* bound

setup == <<mode, executor>>
switches == <<killSwitch, tripped>>
clock == <<day, open>>
db == <<used, book, everBought>>
captured == <<tickDay, inHours, ks, held, forced>>
orders == <<todo, bought, accepted>>
vars == <<setup, switches, clock, db, at, captured, dailyUsed, orders,
          mustHalt, end, failures>>

Fail == failures < MaxFailures /\ failures' = failures + 1
-----------------------------------------------------------------------------
Init ==
    /\ mode \in Modes /\ executor \in BOOLEAN
    /\ killSwitch = FALSE /\ tripped = FALSE
    /\ day = 0 /\ open \in BOOLEAN
    /\ used = NothingBought /\ book = {} /\ everBought = {}
    /\ at = "idle"
    /\ tickDay = 0 /\ inHours = FALSE /\ ks = FALSE /\ held = {} /\ forced = {}
    /\ dailyUsed = 0
    /\ todo = {} /\ bought = NothingBought /\ accepted = {}
    /\ mustHalt = FALSE /\ end = "none" /\ failures = 0

(* The locals of a tick start anew.                                        *)
Fresh == ks' = FALSE /\ held' = {} /\ forced' = {}

Start ==
    /\ at = "idle" /\ at' = "loading"
    /\ tickDay' = day /\ inHours' = open
    /\ Fresh
    /\ dailyUsed' = 0
    /\ mustHalt' = FALSE
    /\ end' = "none"
    /\ UNCHANGED <<setup, switches, clock, db, orders, failures>>

(* repo.buy_notional_today and, of the account, toss.get_holdings          *)
UsedThisTick == 0
UsedThatDay == used[tickDay]

Load ==
    /\ at = "loading" /\ at' = "reconciling"
    /\ dailyUsed' = UsedThatDay
    /\ IF mode = "LIVE" THEN held' \in SUBSET Symbols ELSE UNCHANGED held
    /\ UNCHANGED <<setup, switches, clock, db, tickDay, inHours, ks, forced, orders,
                   mustHalt, end, failures>>

(* reconcile_and_enforce; only LIVE halts on a mismatch.                   *)
Reconcile(mismatch) ==
    /\ at = "reconciling" /\ at' = "opening"
    /\ IF mismatch /\ mode = "LIVE"
       THEN killSwitch' = TRUE /\ mustHalt' = TRUE
       ELSE UNCHANGED <<killSwitch, mustHalt>>
    /\ UNCHANGED <<setup, tripped, clock, db, captured, dailyUsed, orders, end, failures>>

(* The paper book and the exit rules on it, then run_tick reads the switch.*)
OpenBook ==
    /\ at = "opening" /\ at' = "running"
    /\ IF mode = "DRY_RUN"
       THEN held' = book /\ forced' \in SUBSET book
       ELSE UNCHANGED <<held, forced>>
    /\ ks' = killSwitch
    /\ UNCHANGED <<setup, switches, clock, db, tickDay, inHours, dailyUsed, orders,
                   mustHalt, end, failures>>

Assess ==
    /\ at = "running" /\ at' = "judging"
    /\ tripped' \in BOOLEAN
    /\ UNCHANGED <<setup, killSwitch, clock, db, captured, dailyUsed, orders,
                   mustHalt, end, failures>>

On(symbols, side) == {[symbol |-> s, side |-> side] : s \in symbols}

(* Forced exits and what the judge decided, at most one per symbol; HOLD   *)
(* needs no step.                                                          *)
Judge(buys, sells) ==
    /\ at = "judging" /\ at' = "ordering"
    /\ buys \subseteq Symbols \ forced
    /\ sells \subseteq held \ (forced \cup buys)
    /\ todo' = On(forced \cup sells, "SELL") \cup On(buys, "BUY")
    /\ UNCHANGED <<setup, switches, clock, db, captured, dailyUsed, bought, accepted,
                   mustHalt, end, failures>>

(* The tick ends by an exception: its TickResult is gone.                  *)
Abort(reason) ==
    /\ Fail
    /\ at' = "idle"
    /\ todo' = {} /\ bought' = NothingBought /\ accepted' = {}
    /\ end' = reason

(* Research or the judge raises: a refusal, a bad answer, the network.     *)
JudgeFails ==
    /\ at = "judging"
    /\ Abort("judgeFailed")
    /\ UNCHANGED <<setup, switches, clock, db, captured, dailyUsed, mustHalt>>
-----------------------------------------------------------------------------
(* The order loop. Forced exits are first in the list of decisions.        *)
IsNext(d) ==
    /\ at = "ordering"
    /\ d \in todo
    /\ (\E f \in todo : f.symbol \in forced) => d.symbol \in forced

(* Cost gate, or allocate proposes nothing.                                *)
PassOver(d) ==
    /\ IsNext(d)
    /\ todo' = todo \ {d}
    /\ UNCHANGED <<setup, switches, clock, db, at, captured, dailyUsed, bought, accepted,
                   mustHalt, end, failures>>

OrderOf(d, n) == [symbol |-> d.symbol, side |-> d.side, notional |-> n]

Context ==
    EffectiveContext([inHours |-> inHours, killSwitch |-> ks, breakerHalt |-> FALSE,
                      held |-> held, dailyUsed |-> dailyUsed,
                      portfolio |-> Unknown, symbolValue |-> 0],
                     killSwitch, tripped)

SubmitRefused(d, n) ==
    /\ IsNext(d)
    /\ \/ Violates(OrderOf(d, n), Context)
       \/ "FAILED" \in GateOutcomes(mode, executor)
    /\ todo' = todo \ {d}
    /\ UNCHANGED <<setup, switches, clock, db, at, captured, dailyUsed, bought, accepted,
                   mustHalt, end, failures>>

CountsAsUsed(d, n) == IF IsBuy(d) THEN n ELSE 0

(* Status DRY_RUN or SUBMITTED; the row's date is the one of its creation. *)
SubmitAccepted(d, n) ==
    /\ IsNext(d)
    /\ ~Violates(OrderOf(d, n), Context)
    /\ GateOutcomes(mode, executor) \cap UsedStatuses # {}
    /\ todo' = todo \ {d}
    /\ accepted' = accepted \cup {d}
    /\ bought' = [bought EXCEPT ![day] = @ + (IF IsBuy(d) THEN n ELSE 0)]
    /\ dailyUsed' = dailyUsed + CountsAsUsed(d, n)
    /\ UNCHANGED <<setup, switches, clock, db, at, captured, mustHalt, end, failures>>
-----------------------------------------------------------------------------
SymbolsOf(side) == {s \in Symbols : [symbol |-> s, side |-> side] \in accepted}

(* repo.record_tick, one transaction; then the engine state is saved.      *)
Record ==
    /\ at = "ordering" /\ todo = {} /\ at' = "filling"
    /\ used' = [d \in Days |-> used[d] + bought[d]]
    /\ everBought' = everBought \cup SymbolsOf("BUY")
    /\ bought' = NothingBought
    /\ UNCHANGED <<setup, switches, clock, book, captured, dailyUsed, todo, accepted,
                   mustHalt, end, failures>>

(* apply_fill on the loaded book for each accepted order, then save_paper. *)
(* A buy that exceeds the cash is skipped.                                 *)
RecordedOrNot == at \in {"ordering", "filling"} /\ todo = {}
Recorded == at = "filling"

Fill(skipped) ==
    /\ Recorded /\ at' = "idle"
    /\ book' = IF mode = "DRY_RUN"
               THEN (held \ SymbolsOf("SELL")) \cup (SymbolsOf("BUY") \ skipped)
               ELSE book
    /\ accepted' = {}
    /\ end' = "done"
    /\ UNCHANGED <<setup, switches, clock, used, everBought, captured, dailyUsed,
                   todo, bought, mustHalt, failures>>

(* Any other await of the tick raises: the database, the broker's API.     *)
StepFails ==
    /\ at \notin {"idle", "judging"} /\ todo = {}
    /\ Abort("stepFailed")
    /\ UNCHANGED <<setup, switches, clock, db, captured, dailyUsed, mustHalt>>

(* The next process takes the switches from engine_state (EngineState says *)
(* what it finds there).                                                   *)
Crash ==
    /\ Abort("crashed")
    /\ killSwitch' \in BOOLEAN /\ tripped' \in BOOLEAN
    /\ mustHalt' = FALSE
    /\ UNCHANGED <<setup, clock, db, captured, dailyUsed>>

(* Other requests run while the tick awaits something, not in its loop.    *)
Awaiting == todo = {}

SetKillSwitch(engaged) ==
    /\ Awaiting
    /\ killSwitch' = engaged
    /\ mustHalt' = (mustHalt /\ engaged)
    /\ UNCHANGED <<setup, tripped, clock, db, at, captured, dailyUsed, orders, end, failures>>

ResetBreaker ==
    /\ Awaiting
    /\ tripped' = FALSE
    /\ UNCHANGED <<setup, killSwitch, clock, db, at, captured, dailyUsed, orders,
                   mustHalt, end, failures>>

ManualReconcile ==
    /\ Awaiting
    /\ mode = "LIVE"
    /\ killSwitch' = TRUE
    /\ UNCHANGED <<setup, tripped, clock, db, at, captured, dailyUsed, orders,
                   mustHalt, end, failures>>

Clock ==
    /\ \/ open' = ~open /\ day' = day
       \/ day < LastDay /\ day' = day + 1 /\ open' = FALSE
    /\ UNCHANGED <<setup, switches, db, at, captured, dailyUsed, orders,
                   mustHalt, end, failures>>

Next ==
    \/ Start \/ Load \/ OpenBook \/ Assess
    \/ \E mismatch \in BOOLEAN : Reconcile(mismatch)
    \/ \E buys, sells \in SUBSET Symbols : Judge(buys, sells)
    \/ JudgeFails
    \/ \E d \in todo : PassOver(d)
    \/ \E d \in todo, n \in Notionals : SubmitRefused(d, n) \/ SubmitAccepted(d, n)
    \/ Record
    \/ \E skipped \in SUBSET Symbols : Fill(skipped)
    \/ StepFails \/ Crash
    \/ \E engaged \in BOOLEAN : SetKillSwitch(engaged)
    \/ ResetBreaker \/ ManualReconcile \/ Clock

Spec == Init /\ [][Next]_vars
-----------------------------------------------------------------------------
TypeOK ==
    /\ mode \in Modes /\ executor \in BOOLEAN
    /\ killSwitch \in BOOLEAN /\ tripped \in BOOLEAN
    /\ day \in Days /\ open \in BOOLEAN
    /\ used \in [Days -> Nat] /\ book \subseteq Symbols /\ everBought \subseteq Symbols
    /\ at \in {"idle", "loading", "reconciling", "opening", "running", "judging",
               "ordering", "filling"}
    /\ tickDay \in Days /\ inHours \in BOOLEAN /\ ks \in BOOLEAN
    /\ held \subseteq Symbols /\ forced \subseteq held
    /\ dailyUsed \in Nat
    /\ todo \subseteq Decisions /\ bought \in [Days -> Nat] /\ accepted \subseteq Decisions
    /\ mustHalt \in BOOLEAN
    /\ end \in {"none", "done", "judgeFailed", "stepFailed", "crashed"}
    /\ failures \in Nat

(* repo.py:8, the daily buy cap binds across ticks: on no date do recorded *)
(* buys and those of the tick in progress exceed it, also when a tick      *)
(* started before midnight and orders after.                               *)
DailyCapHolds == \A d \in Days : used[d] + bought[d] <= DailyBuyCap

(* reconcile.py:13 and tick.py:177: a LIVE tick that found a mismatch, and *)
(* a tick that run_tick began under the kill switch, accept no order; the  *)
(* first unless somebody released the switch since, the second even then.  *)
HaltedTickTradesNothing == mustHalt \/ ks => accepted = {}

(* The paper book never holds a symbol without a recorded buy: a tick that *)
(* fails or dies between its two transactions may lose a fill, but leaves  *)
(* none behind that no order accounts for.                                 *)
BookIsAccountedFor == book \subseteq everBought
=============================================================================
