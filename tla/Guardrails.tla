----------------------------- MODULE Guardrails -----------------------------
(***************************************************************************)
(* What an order meets before it leaves: the hard guardrails of            *)
(* app/orders/guardrails.py and the mode gate of OrderService.submit, as   *)
(* operators on an order and its GuardrailContext. OrderService makes a    *)
(* state machine of them; Tick calls them in its order loop.               *)
(*                                                                         *)
(* An order is [id, symbol, side, notional]: notional is                   *)
(* estimated_notional(), Unknown when neither an amount nor a price is     *)
(* known. The calendar (weekday, holiday, market_open..market_close) is    *)
(* reduced to whether ctx.now falls within market hours.                   *)
(***************************************************************************)
EXTENDS Integers, FiniteSets

CONSTANTS
    PerOrderMax,        \* per_order_max_krw
    DailyBuyCap,        \* daily_buy_cap_krw
    MaxPositions,       \* max_positions
    PerSymbolWeight,    \* per_symbol_max_weight, percent
    Unknown             \* the code's None

ASSUME GuardrailAssumption ==
    /\ PerOrderMax \in Nat
    /\ DailyBuyCap \in Nat
    /\ MaxPositions \in Nat
    /\ PerSymbolWeight \in Nat
    /\ Unknown \notin Int

Sides == {"BUY", "SELL"}
Modes == {"DRY_RUN", "LIVE"}
Statuses == {"REJECTED", "DRY_RUN", "SUBMITTED", "FAILED"}
UsedStatuses == {"DRY_RUN", "SUBMITTED"}   \* what counts as bought

IsBuy(o) == o.side = "BUY"
Cost(o) == IF o.notional = Unknown THEN 0 ELSE o.notional
-----------------------------------------------------------------------------
KillSwitchBlocksBuys(o, ctx) == IsBuy(o) /\ ctx.killSwitch
KillSwitchBlocks(o, ctx) == ctx.killSwitch

CircuitBreakerBlocks(o, ctx) == IsBuy(o) /\ ctx.breakerHalt

UnboundedCost(o) == IsBuy(o) /\ o.notional = Unknown
PerOrderMaxExceeded(o) == IsBuy(o) /\ o.notional # Unknown /\ o.notional > PerOrderMax

DailyCapExceeded(o, ctx) == IsBuy(o) /\ ctx.dailyUsed + Cost(o) > DailyBuyCap

(* Adding to a position that is held does not add a position.              *)
MaxPositionsExceeded(o, ctx) ==
    /\ IsBuy(o)
    /\ o.symbol \notin ctx.held
    /\ Cardinality(ctx.held) + 1 > MaxPositions

(* weight > limit, without the division; an unknown portfolio and an empty *)
(* denominator skip the check.                                             *)
PerSymbolWeightExceeded(o, ctx) ==
    /\ IsBuy(o)
    /\ ctx.portfolio # Unknown
    /\ ctx.portfolio + Cost(o) > 0
    /\ (ctx.symbolValue + Cost(o)) * 100
         > PerSymbolWeight * (ctx.portfolio + Cost(o))

(* run_guardrails: every guard is evaluated and any violation rejects.     *)
Violates(o, ctx) ==
    \/ KillSwitchBlocks(o, ctx)
    \/ CircuitBreakerBlocks(o, ctx)
    \/ ~ctx.inHours
    \/ UnboundedCost(o)
    \/ PerOrderMaxExceeded(o)
    \/ DailyCapExceeded(o, ctx)
    \/ MaxPositionsExceeded(o, ctx)
    \/ PerSymbolWeightExceeded(o, ctx)

(* submit adds the service's own switches to what the caller captured.     *)
CallersContext(ctx, killSwitch, tripped) == ctx
EffectiveContext(ctx, killSwitch, tripped) ==
    [ctx EXCEPT !.killSwitch = @ \/ killSwitch, !.breakerHalt = @ \/ tripped]

CallsExecutor(mode, executor) == mode = "LIVE" /\ executor

(* What becomes of an order that passed the guardrails. A place() that     *)
(* raises is FAILED, whether or not the broker had received the order.     *)
GateOutcomes(mode, executor) ==
    IF CallsExecutor(mode, executor) THEN {"SUBMITTED", "FAILED"}
    ELSE IF mode = "DRY_RUN" THEN {"DRY_RUN"} ELSE {"FAILED"}

(* config.load_trading_mode, then the two downgrades of main.lifespan.     *)
LiveWithoutConfirmation(env) == env.requested /\ env.database /\ ~env.sandbox
LiveGranted(env) ==
    env.requested /\ env.confirmed /\ env.database /\ ~env.sandbox
TradingMode(env) == IF LiveGranted(env) THEN "LIVE" ELSE "DRY_RUN"
=============================================================================
