----------------------------- MODULE PaperBook -----------------------------
(***************************************************************************)
(* The paper portfolio of DRY_RUN (app/engine/paper.py), the exit rules on *)
(* it (exits.py) and the sizing of orders (allocator.py, with the cost     *)
(* gate of costs.py and the multiplier of regime.py), as operators on a    *)
(* book. Portfolio makes a state machine of them.                          *)
(*                                                                         *)
(* A rate is a whole number of parts in Whole. Money is a whole number of  *)
(* units, Whole * Whole of them to 1 KRW, so that what a fill costs and    *)
(* yields is exact, as it is in the code's Decimal arithmetic. A position  *)
(* keeps what it cost in all; avg_cost is cost / qty. A volatility is      *)
(* Unknown when there are too few closes to estimate it.                   *)
(***************************************************************************)
EXTENDS Guardrails, Functions

CONSTANTS
    Symbols,
    Seed,                                    \* paper_seed_krw, in units
    Whole,
    Slippage, Commission, SellTax,           \* CostConfig
    StopLoss, TimeStopDays,                  \* ExitConfig
    CostMultiple, MoveMultiple,              \* EntryGateConfig, in parts
    CalmVol, StressVol,                      \* RegimeConfig
    ElevatedMultiplier, StressMultiplier

ASSUME PaperAssumption ==
    /\ IsFiniteSet(Symbols)
    /\ Seed \in Nat
    /\ Whole \in Nat \ {0}
    /\ Slippage \in 0..Whole
    /\ Commission \in Nat /\ SellTax \in Nat /\ Commission + SellTax <= Whole
    /\ StopLoss \in Nat /\ TimeStopDays \in Nat
    /\ CostMultiple \in Nat /\ MoveMultiple \in Nat
    /\ CalmVol \in Nat /\ StressVol \in Nat
    /\ ElevatedMultiplier \in Int /\ StressMultiplier \in Int

Money(qty, price) == qty * price * Whole * Whole

NoPosition == [qty |-> 0, cost |-> 0, opened |-> Unknown]
Position == [qty : Nat, cost : Nat, opened : Nat \cup {Unknown}]
Book == [cash : Nat, pos : [Symbols -> Position], realized : Int, trades : Nat]

(* What the first tick starts from.                                        *)
NewBook == [cash |-> Seed, pos |-> [s \in Symbols |-> NoPosition],
            realized |-> 0, trades |-> 0]

Held(b) == {s \in Symbols : b.pos[s].qty > 0}
Invested(b) == SumFunction([s \in Symbols |-> b.pos[s].cost])
-----------------------------------------------------------------------------
(* Fills: at once and whole, at a price worse by the slippage.             *)
BuyCost(qty, price) == qty * price * (Whole + Slippage) * (Whole + Commission)
Proceeds(qty, price) == qty * price * (Whole - Slippage) * (Whole - Commission - SellTax)

(* Adding to a position keeps the day it was opened on.                    *)
OpenedByLastBuy(pos, date) == date
OpenedOn(pos, date) == IF pos.qty = 0 THEN date ELSE pos.opened

FillAnyBuy(b, o, date) ==
    LET total == BuyCost(o.qty, o.price)
    IN  [b EXCEPT !.cash = @ - total,
                  !.pos[o.symbol] = [qty    |-> @.qty + o.qty,
                                     cost   |-> @.cost + total,
                                     opened |-> OpenedOn(@, date)]]

(* A buy that costs more than the cash is skipped.                         *)
FillBuy(b, o, date) ==
    IF BuyCost(o.qty, o.price) <= b.cash THEN FillAnyBuy(b, o, date) ELSE b

FillSellForFree(b, o) ==
    LET pos == b.pos[o.symbol]
    IN  [cash     |-> b.cash + Proceeds(pos.qty, o.price),
         pos      |-> [b.pos EXCEPT ![o.symbol] = NoPosition],
         realized |-> b.realized + Money(pos.qty, o.price) - pos.cost,
         trades   |-> b.trades + 1]

(* An order sells all that was held when it was made, and nothing else     *)
(* sells: the position goes.                                               *)
FillSell(b, o) ==
    LET pos == b.pos[o.symbol]
        proceeds == Proceeds(pos.qty, o.price)
    IN  IF pos.qty = 0 THEN b
        ELSE [cash     |-> b.cash + proceeds,
              pos      |-> [b.pos EXCEPT ![o.symbol] = NoPosition],
              realized |-> b.realized + proceeds - pos.cost,
              trades   |-> b.trades + 1]

ApplyFill(b, o, date) == IF IsBuy(o) THEN FillBuy(b, o, date) ELSE FillSell(b, o)

(* A position without a mark is worth what it cost.                        *)
MarkedValue(pos, mark) == IF mark = Unknown THEN pos.cost ELSE Money(pos.qty, mark)
MarketValue(b, marks) == SumFunction([s \in Symbols |-> MarkedValue(b.pos[s], marks[s])])
Equity(b, marks) == b.cash + MarketValue(b, marks)
-----------------------------------------------------------------------------
(* Exit rules. The loss is against what the position cost, fees included.  *)
StopLossDue(pos, mark) ==
    /\ mark # Unknown
    /\ (pos.cost - Money(pos.qty, mark)) * Whole >= StopLoss * pos.cost

DaysHeld(pos, equityDays) == Cardinality({d \in equityDays : d > pos.opened})
TimeStopDue(pos, equityDays) == DaysHeld(pos, equityDays) > TimeStopDays

ForcedExits(b, marks, equityDays) ==
    {s \in Held(b) : \/ StopLossDue(b.pos[s], marks[s])
                     \/ TimeStopDue(b.pos[s], equityDays)}
-----------------------------------------------------------------------------
(* Sizing. The smallest of the limits, in hundredths, since the weight is  *)
(* a percentage; the room under the weight limit may be negative.          *)
Lesser(a, b) == IF a <= b THEN a ELSE b
Greater(a, b) == IF a >= b THEN a ELSE b

RoomWithoutHolding(equity, held, price) == PerSymbolWeight * equity
Room(equity, held, price) == PerSymbolWeight * equity - 100 * Money(held, price)

Ceiling(cash, equity, held, price) ==
    Lesser(Lesser(100 * PerOrderMax, 100 * cash), Greater(0, Room(equity, held, price)))

(* The multiplier only ever shrinks an order.                              *)
Clamped(rate) == Lesser(Greater(rate, 0), Whole)

BuyQuantity(cash, equity, held, price, confidence, multiplier) ==
    (Ceiling(cash, equity, held, price) * confidence * Clamped(multiplier))
        \div (100 * Whole * Whole * Money(1, price))

RegimeMultiplier(vol) ==
    CASE vol = Unknown    -> Whole
      [] vol # Unknown /\ vol >= StressVol -> StressMultiplier
      [] vol # Unknown /\ vol < StressVol /\ vol >= CalmVol -> ElevatedMultiplier
      [] OTHER            -> Whole

RoundTrip == 2 * Commission + 2 * Slippage + SellTax

(* EntryGate.evaluate: the move to expect against the cost of a round trip.*)
GatePasses(confidence, vol) ==
    /\ vol # Unknown
    /\ confidence * vol * MoveMultiple >= RoundTrip * CostMultiple * Whole
=============================================================================
