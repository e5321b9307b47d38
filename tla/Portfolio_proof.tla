-------------------------- MODULE Portfolio_proof --------------------------
(***************************************************************************)
(* Proofs for Portfolio, for every set of symbols, prices, rates and       *)
(* limits: the types, so that cash is never overdrawn; that the books      *)
(* balance; that exits by rule leave the book and old positions are closed;*)
(* and that orders fit the limits.                                         *)
(***************************************************************************)
EXTENDS Portfolio, Sums, TLAPS

(* Amounts.                                                                *)
LEMMA TimesNat == \A x, y \in Nat : x * y \in Nat
  OBVIOUS

LEMMA MoneyType ==
    ASSUME NEW qty \in Nat, NEW price \in Nat
    PROVE  Money(qty, price) \in Nat
  BY TimesNat, PaperAssumption DEF Money

LEMMA FillAmounts ==
    ASSUME NEW qty \in Nat, NEW price \in Nat
    PROVE  BuyCost(qty, price) \in Nat /\ Proceeds(qty, price) \in Nat
  <1>1. /\ Whole + Slippage \in Nat /\ Whole + Commission \in Nat
        /\ Whole - Slippage \in Nat /\ Whole - Commission - SellTax \in Nat
    BY PaperAssumption
  <1>2. \A a, b \in Nat : qty * price * a * b \in Nat
    BY TimesNat
  <1>3. QED
    BY <1>1, <1>2 DEF BuyCost, Proceeds

LEMMA BookParts ==
    ASSUME NEW b \in Book
    PROVE  /\ b.cash \in Nat /\ b.realized \in Int /\ b.trades \in Nat
           /\ b.pos \in [Symbols -> Position]
           /\ \A s \in Symbols : /\ b.pos[s].qty \in Nat /\ b.pos[s].cost \in Nat
                                 /\ b.pos[s].opened \in Nat \cup {Unknown}
  BY DEF Book, Position

LEMMA InvestedType ==
    ASSUME NEW b \in Book
    PROVE  Invested(b) \in Nat
  <1> DEFINE f == [s \in Symbols |-> b.pos[s].cost]
  <1>1. \A s \in Symbols : f[s] \in Nat
    BY BookParts
  <1>2. DOMAIN f = Symbols
    OBVIOUS
  <1> HIDE DEF f
  <1>3. SumFunction(f) \in Nat
    BY <1>1, <1>2, SumOfNaturals, PaperAssumption DEF SumFunction
  <1>4. QED
    BY <1>3 DEF Invested, f

LEMMA EquityType ==
    ASSUME NEW b \in Book, NEW m \in [Symbols -> Prices \cup {Unknown}]
    PROVE  Equity(b, m) \in Nat
  <1> DEFINE f == [s \in Symbols |-> MarkedValue(b.pos[s], m[s])]
  <1>1. ASSUME NEW s \in Symbols PROVE MarkedValue(b.pos[s], m[s]) \in Nat
    <2>1. b.pos[s].qty \in Nat /\ b.pos[s].cost \in Nat
      BY BookParts
    <2>2. m[s] # Unknown => m[s] \in Nat
      BY PortfolioAssumption
    <2>3. QED
      BY <2>1, <2>2, MoneyType DEF MarkedValue
  <1>2. DOMAIN f = Symbols /\ \A s \in Symbols : f[s] \in Nat
    BY <1>1
  <1> HIDE DEF f
  <1>3. SumFunction(f) \in Nat
    BY <1>2, SumOfNaturals, PaperAssumption DEF SumFunction
  <1>4. b.cash \in Nat
    BY BookParts
  <1>5. QED
    BY <1>3, <1>4 DEF Equity, MarketValue, f

LEMMA NewBookType == NewBook \in Book
  BY PaperAssumption DEF NewBook, Book, NoPosition, Position

(* A book whose positions hold other costs at one symbol only.             *)
LEMMA InvestedChange ==
    ASSUME NEW a \in Book, NEW b \in Book, NEW x \in Symbols,
           \A s \in Symbols \ {x} : b.pos[s] = a.pos[s]
    PROVE  Invested(b) = Invested(a) - a.pos[x].cost + b.pos[x].cost
  <1> DEFINE f == [s \in Symbols |-> a.pos[s].cost]
             g == [s \in Symbols |-> b.pos[s].cost]
  <1>1. /\ DOMAIN f = Symbols /\ DOMAIN g = Symbols
        /\ \A s \in Symbols : f[s] \in Nat /\ g[s] \in Nat
        /\ \A s \in Symbols \ {x} : g[s] = f[s]
        /\ f[x] = a.pos[x].cost /\ g[x] = b.pos[x].cost
    BY BookParts
  <1> HIDE DEF f, g
  <1>2. SumFunctionOnSet(g, Symbols) = SumFunctionOnSet(f, Symbols) - f[x] + g[x]
    BY <1>1, SumOfChange, PaperAssumption
  <1>3. SumFunction(g) = SumFunction(f) - f[x] + g[x]
    BY <1>1, <1>2 DEF SumFunction
  <1>4. QED
    BY <1>1, <1>3 DEF Invested, f, g

(* Cash and cost of the positions are the seed and the realized profit.    *)
Balanced(b) == b.cash + Invested(b) = Seed + b.realized

LEMMA NewBookBalances == Balanced(NewBook)
  <1> DEFINE f == [s \in Symbols |-> NewBook.pos[s].cost]
  <1>1. DOMAIN f = Symbols /\ \A s \in Symbols : f[s] = 0
    BY DEF NewBook, NoPosition
  <1> HIDE DEF f
  <1>2. SumFunction(f) = 0
    BY <1>1, SumOfZeros, PaperAssumption DEF SumFunction
  <1>3. Invested(NewBook) = 0
    BY <1>2 DEF Invested, f
  <1>4. QED
    BY <1>3, PaperAssumption DEF Balanced, NewBook
-----------------------------------------------------------------------------
(* Fills. One fill touches one position and keeps the books' balance.      *)
LEMMA BuyFill ==
    ASSUME NEW b \in Book, NEW o \in Orders, NEW date \in Nat,
           BuyCost(o.qty, o.price) <= b.cash
    PROVE  LET c == FillAnyBuy(b, o, date)
               pos == b.pos[o.symbol]
           IN  /\ c \in Book
               /\ c.cash = b.cash - BuyCost(o.qty, o.price) /\ c.realized = b.realized
               /\ \A s \in Symbols \ {o.symbol} : c.pos[s] = b.pos[s]
               /\ c.pos[o.symbol] = [qty    |-> pos.qty + o.qty,
                                     cost   |-> pos.cost + BuyCost(o.qty, o.price),
                                     opened |-> OpenedOn(pos, date)]
  <1> DEFINE total == BuyCost(o.qty, o.price)
             pos == b.pos[o.symbol]
             new == [qty |-> pos.qty + o.qty, cost |-> pos.cost + total,
                     opened |-> OpenedOn(pos, date)]
             c == FillAnyBuy(b, o, date)
  <1>1. o.symbol \in Symbols /\ o.qty \in Nat /\ o.price \in Nat
    BY PortfolioAssumption DEF Orders
  <1>2. total \in Nat
    BY <1>1, FillAmounts
  <1>3. /\ b.cash \in Nat /\ b.realized \in Int /\ b.trades \in Nat
        /\ b.pos \in [Symbols -> Position]
        /\ pos.qty \in Nat /\ pos.cost \in Nat /\ pos.opened \in Nat \cup {Unknown}
    BY <1>1, BookParts
  <1>4. new \in Position
    BY <1>2, <1>3, <1>1 DEF Position, OpenedOn
  <1>5. c = [cash |-> b.cash - total, pos |-> [b.pos EXCEPT ![o.symbol] = new],
             realized |-> b.realized, trades |-> b.trades]
    <2>1. c = [b EXCEPT !.cash = b.cash - total, !.pos = [b.pos EXCEPT ![o.symbol] = new]]
      BY <1>1, <1>3 DEF FillAnyBuy
    <2> HIDE DEF c, new, total, pos
    <2>2. QED
      BY <2>1 DEF Book
  <1>6. b.cash - total \in Nat
    BY <1>2, <1>3
  <1> HIDE DEF c, new, total, pos
  <1>7. c \in Book
    BY <1>3, <1>4, <1>5, <1>6 DEF Book
  <1>8. /\ c.pos[o.symbol] = new
        /\ \A s \in Symbols \ {o.symbol} : c.pos[s] = b.pos[s]
        /\ c.cash = b.cash - total /\ c.realized = b.realized
    BY <1>1, <1>3, <1>5
  <1>9. QED
    BY <1>7, <1>8 DEF c, new, total, pos

LEMMA SellFill ==
    ASSUME NEW b \in Book, NEW o \in Orders, b.pos[o.symbol].qty # 0
    PROVE  LET c == FillSell(b, o)
               pos == b.pos[o.symbol]
           IN  /\ c \in Book
               /\ c.cash = b.cash + Proceeds(pos.qty, o.price)
               /\ c.realized = b.realized + Proceeds(pos.qty, o.price) - pos.cost
               /\ \A s \in Symbols \ {o.symbol} : c.pos[s] = b.pos[s]
               /\ c.pos[o.symbol] = NoPosition
  <1> DEFINE pos == b.pos[o.symbol]
             proceeds == Proceeds(pos.qty, o.price)
             c == FillSell(b, o)
  <1>1. o.symbol \in Symbols /\ o.price \in Nat
    BY PortfolioAssumption DEF Orders
  <1>2. /\ b.cash \in Nat /\ b.realized \in Int /\ b.trades \in Nat
        /\ b.pos \in [Symbols -> Position]
        /\ pos.qty \in Nat /\ pos.cost \in Nat
    BY <1>1, BookParts
  <1>3. proceeds \in Nat
    BY <1>1, <1>2, FillAmounts
  <1>4. NoPosition \in Position
    BY DEF NoPosition, Position
  <1>5. c = [cash |-> b.cash + proceeds, pos |-> [b.pos EXCEPT ![o.symbol] = NoPosition],
             realized |-> b.realized + proceeds - pos.cost, trades |-> b.trades + 1]
    BY DEF FillSell
  <1> HIDE DEF c, proceeds, pos
  <1>6. c \in Book
    <2>1. b.cash + proceeds \in Nat /\ b.realized + proceeds - pos.cost \in Int
            /\ b.trades + 1 \in Nat
      BY <1>2, <1>3
    <2>2. [b.pos EXCEPT ![o.symbol] = NoPosition] \in [Symbols -> Position]
      BY <1>2, <1>4
    <2>3. QED
      BY <1>5, <2>1, <2>2 DEF Book
  <1>7. /\ c.pos[o.symbol] = NoPosition
        /\ \A s \in Symbols \ {o.symbol} : c.pos[s] = b.pos[s]
        /\ c.cash = b.cash + proceeds /\ c.realized = b.realized + proceeds - pos.cost
    BY <1>1, <1>2, <1>5
  <1>8. QED
    BY <1>6, <1>7 DEF c, proceeds, pos

LEMMA FillKeepsBook ==
    ASSUME NEW b \in Book, NEW o \in Orders, NEW date \in Nat
    PROVE  LET c == ApplyFill(b, o, date)
           IN  c \in Book /\ (Balanced(b) => Balanced(c))
  <1>0. /\ o.symbol \in Symbols /\ o.qty \in Nat /\ o.price \in Nat
        /\ b.cash \in Nat /\ b.realized \in Int /\ b.pos[o.symbol].cost \in Nat
        /\ b.pos[o.symbol].qty \in Nat /\ Invested(b) \in Nat
    BY PortfolioAssumption, BookParts, InvestedType DEF Orders
  <1>1. CASE IsBuy(o) /\ BuyCost(o.qty, o.price) <= b.cash
    <2> DEFINE c == FillAnyBuy(b, o, date)
    <2>1. ApplyFill(b, o, date) = c
      BY <1>1 DEF ApplyFill, FillBuy
    <2>2. /\ c \in Book
          /\ c.cash = b.cash - BuyCost(o.qty, o.price) /\ c.realized = b.realized
          /\ \A s \in Symbols \ {o.symbol} : c.pos[s] = b.pos[s]
          /\ c.pos[o.symbol] = [qty    |-> b.pos[o.symbol].qty + o.qty,
                                cost   |-> b.pos[o.symbol].cost + BuyCost(o.qty, o.price),
                                opened |-> OpenedOn(b.pos[o.symbol], date)]
      BY <1>1, BuyFill
    <2> HIDE DEF c
    <2>3. Invested(c) = Invested(b) - b.pos[o.symbol].cost + c.pos[o.symbol].cost
      BY <1>0, <2>2, InvestedChange
    <2>4. BuyCost(o.qty, o.price) \in Nat
      BY <1>0, FillAmounts
    <2>5. c.pos[o.symbol].cost = b.pos[o.symbol].cost + BuyCost(o.qty, o.price)
      BY <2>2
    <2>6. Balanced(b) => Balanced(c)
      BY <1>0, <2>2, <2>3, <2>4, <2>5, PaperAssumption DEF Balanced
    <2>7. QED
      BY <2>1, <2>2, <2>6
  <1>2. CASE ~IsBuy(o) /\ b.pos[o.symbol].qty # 0
    <2> DEFINE c == FillSell(b, o)
               proceeds == Proceeds(b.pos[o.symbol].qty, o.price)
    <2>1. ApplyFill(b, o, date) = c
      BY <1>2 DEF ApplyFill
    <2>2. /\ c \in Book
          /\ c.cash = b.cash + proceeds
          /\ c.realized = b.realized + proceeds - b.pos[o.symbol].cost
          /\ \A s \in Symbols \ {o.symbol} : c.pos[s] = b.pos[s]
          /\ c.pos[o.symbol].cost = 0
      BY <1>2, SellFill DEF NoPosition
    <2>3. proceeds \in Nat
      BY <1>0, FillAmounts
    <2> HIDE DEF c, proceeds
    <2>4. Invested(c) = Invested(b) - b.pos[o.symbol].cost + c.pos[o.symbol].cost
      BY <1>0, <2>2, InvestedChange
    <2>5. Balanced(b) => Balanced(c)
      <3>1. Invested(c) = Invested(b) - b.pos[o.symbol].cost
        BY <1>0, <2>2, <2>4
      <3>2. Seed \in Nat
        BY PaperAssumption
      <3>3. QED
        BY <1>0, <2>2, <2>3, <3>1, <3>2 DEF Balanced
    <2>6. QED
      BY <2>1, <2>2, <2>5
  <1>3. CASE ~(IsBuy(o) /\ BuyCost(o.qty, o.price) <= b.cash)
             /\ ~(~IsBuy(o) /\ b.pos[o.symbol].qty # 0)
    <2>1. ApplyFill(b, o, date) = b
      BY <1>3 DEF ApplyFill, FillBuy, FillSell
    <2>2. QED
      BY <2>1
  <1>4. QED
    BY <1>1, <1>2, <1>3
-----------------------------------------------------------------------------
(* Sizing. What the quotient buys fits what was divided.                   *)
LEMMA Quotient ==
    ASSUME NEW a \in Nat, NEW b \in Nat \ {0}
    PROVE  a \div b \in Nat /\ (a \div b) * b <= a
  OBVIOUS

LEMMA Shrinks ==
    ASSUME NEW a \in Nat, NEW x \in Nat, NEW y \in Nat, x <= y
    PROVE  a * x <= a * y
  OBVIOUS

LEMMA MultiplierType ==
    ASSUME NEW vol
    PROVE  Clamped(RegimeMultiplier(vol)) \in 0..Whole
  <1>1. RegimeMultiplier(vol) \in Int
    BY PaperAssumption DEF RegimeMultiplier
  <1>2. QED
    BY <1>1, PaperAssumption DEF Clamped, Lesser, Greater

LEMMA CeilingType ==
    ASSUME NEW cash \in Nat, NEW equity \in Nat, NEW held \in Nat, NEW price \in Nat
    PROVE  /\ Ceiling(cash, equity, held, price) \in Nat
           /\ Ceiling(cash, equity, held, price) <= 100 * PerOrderMax
           /\ Room(equity, held, price) \in Int
           /\ Ceiling(cash, equity, held, price) <= Greater(0, Room(equity, held, price))
  <1>1. Money(held, price) \in Nat
    BY MoneyType
  <1>2. PerSymbolWeight * equity \in Nat
    BY GuardrailAssumption
  <1>3. Room(equity, held, price) \in Int
    BY <1>1, <1>2 DEF Room
  <1>4. 100 * PerOrderMax \in Nat /\ 100 * cash \in Nat
    BY GuardrailAssumption
  <1>5. QED
    BY <1>3, <1>4 DEF Ceiling, Lesser, Greater

(* The notional of the shares bought, in hundredths, is within the ceiling.*)
LEMMA BuysWithinCeiling ==
    ASSUME NEW ceiling \in Nat, NEW confidence \in 0..Whole, NEW multiplier \in 0..Whole,
           NEW price \in Nat \ {0}
    PROVE  LET qty == (ceiling * confidence * multiplier)
                        \div (100 * Whole * Whole * Money(1, price))
           IN  qty \in Nat /\ 100 * Money(qty, price) <= ceiling
  <1> DEFINE W == Whole * Whole
             top == ceiling * confidence * multiplier
             one == price * W
             below == 100 * W * one
             qty == top \div below
  <1>1. Whole \in Nat \ {0} /\ confidence \in Nat /\ multiplier \in Nat
    BY PaperAssumption
  <1>2. W \in Nat \ {0}
    BY <1>1
  <1>3. one \in Nat \ {0}
    <2> HIDE DEF W
    <2>1. QED
      BY <1>2
  <1>4. top \in Nat /\ top <= ceiling * W
    <2>1. ceiling * confidence \in Nat /\ ceiling * Whole \in Nat /\ confidence <= Whole
      BY <1>1, TimesNat
    <2>2. ceiling * confidence <= ceiling * Whole
      BY <1>1, <2>1, Shrinks
    <2>3. (ceiling * confidence) * multiplier <= (ceiling * confidence) * Whole
      BY <1>1, <2>1, Shrinks
    <2>4. (ceiling * confidence) * Whole <= (ceiling * Whole) * Whole
      <3>1. Whole * (ceiling * confidence) <= Whole * (ceiling * Whole)
        BY <1>1, <2>1, <2>2, Shrinks
      <3>2. \A x, y \in Nat : x * y = y * x
        OBVIOUS
      <3>3. QED
        BY <1>1, <2>1, <3>1, <3>2
    <2>5. (ceiling * Whole) * Whole = ceiling * W
      BY <1>1
    <2>6. top \in Nat /\ (ceiling * confidence) * Whole \in Nat /\ ceiling * W \in Nat
      BY <1>1, <1>2, <2>1, TimesNat
    <2>7. QED
      BY <2>3, <2>4, <2>5, <2>6
  <1>5. below \in Nat \ {0}
    <2> HIDE DEF W, one
    <2>1. QED
      BY <1>2, <1>3
  <1>6. qty \in Nat /\ qty * below <= top
    <2> HIDE DEF top, below
    <2>1. QED
      BY <1>4, <1>5, Quotient
  <1>7. 100 * (qty * one) <= ceiling
    <2> HIDE DEF W, one, top, qty
    <2>1. qty * below = W * (100 * (qty * one))
      BY <1>2, <1>3, <1>6
    <2>2. 100 * (qty * one) \in Nat
      BY <1>3, <1>6, TimesNat
    <2>3. W * (100 * (qty * one)) <= W * ceiling
      BY <1>2, <1>4, <1>6, <2>1, <2>2
    <2>4. \A x, y \in Nat : W * x <= W * y => x <= y
      BY <1>2
    <2>5. QED
      BY <2>2, <2>3, <2>4
  <1>8. Money(qty, price) = qty * one /\ Money(1, price) = one
    <2> HIDE DEF qty
    <2>1. QED
      BY <1>1, <1>6 DEF Money
  <1>9. below = 100 * Whole * Whole * Money(1, price)
    BY <1>1, <1>3, <1>8
  <1>10. QED
    BY <1>6, <1>7, <1>8, <1>9

LEMMA BuyQuantityFits ==
    ASSUME NEW cash \in Nat, NEW equity \in Nat, NEW held \in Nat,
           NEW price \in Nat \ {0}, NEW confidence \in 0..Whole, NEW vol
    PROVE  LET qty == BuyQuantity(cash, equity, held, price, confidence,
                                  RegimeMultiplier(vol))
           IN  qty \in Nat
               /\ 100 * Money(qty, price) <= Ceiling(cash, equity, held, price)
  BY CeilingType, MultiplierType, BuysWithinCeiling DEF BuyQuantity
-----------------------------------------------------------------------------
(* Types.                                                                  *)
LEMMA FreshBreakerType == Loss!FreshBreaker \in Loss!BreakerState
  BY DEF Loss!FreshBreaker, Loss!Cleared, Loss!BreakerState, Loss!NoDrawdown, Loss!Drawdown

(* An assess by the equity of the book alone; it is zero when all is lost. *)
LEMMA AssessType ==
    ASSUME NEW b \in Loss!BreakerState, NEW equity \in Nat, NEW date \in Nat
    PROVE  Loss!Assess(b, equity, Unknown, date) \in Loss!BreakerState
  <1> DEFINE hwm == Loss!NewPeak(b.hwm, equity)
             dd  == Loss!NewDrawdown(b.drawdown, hwm, equity)
  <1>0. equity # Unknown
    BY GuardrailAssumption
  <1>1. /\ b.hwm \in (Nat \ {0}) \cup {Unknown} /\ b.drawdown \in Loss!Drawdown
        /\ b.dailyHaltDate \in Nat \cup {Unknown} /\ b.drawdownHalt \in BOOLEAN
    BY DEF Loss!BreakerState
  <1>2. hwm \in (Nat \ {0}) \cup {Unknown}
    BY <1>1 DEF Loss!NewPeak, Loss!Measured
  <1>3. dd \in Loss!Drawdown
    <2>1. CASE equity > 0
      <3>1. hwm \in Nat \ {0} /\ equity <= hwm
        BY <1>0, <1>1, <2>1, GuardrailAssumption DEF Loss!NewPeak, Loss!Measured
      <3>2. dd = [lost |-> hwm - equity, of |-> hwm]
        BY <1>0, <2>1 DEF Loss!NewDrawdown, Loss!Measured
      <3> HIDE DEF hwm, dd
      <3>3. hwm - equity \in Nat
        BY <3>1
      <3>4. QED
        BY <3>1, <3>2, <3>3 DEF Loss!Drawdown
    <2>2. CASE ~(equity > 0)
      BY <1>1, <2>2 DEF Loss!NewDrawdown, Loss!Measured
    <2>3. QED
      BY <2>1, <2>2
  <1>4. Loss!HaltDateAfter(b.dailyHaltDate, Unknown, date) = b.dailyHaltDate
    BY DEF Loss!HaltDateAfter, Loss!DailyLoss
  <1>5. (IF equity # Unknown /\ hwm # Unknown
         THEN Loss!HaltAfter(b.drawdownHalt, dd) ELSE b.drawdownHalt) \in BOOLEAN
    BY <1>1 DEF Loss!HaltAfter, Loss!Deep, Loss!Recovered
  <1> HIDE DEF hwm, dd
  <1>6. QED
    BY <1>1, <1>2, <1>3, <1>4, <1>5 DEF Loss!Assess, Loss!BreakerState, hwm, dd

LEMMA OrderType ==
    ASSUME TypeOK, NEW d \in todo, NEW price \in Prices, NEW c \in Confidences
    PROVE  /\ d.symbol \in Symbols /\ d.side \in Sides
           /\ Quantity(d, price, c) \in Nat
           /\ OrderOf(d, price, Quantity(d, price, c)) \in Orders
  <1>1. d.symbol \in Symbols /\ d.side \in Sides
    BY DEF TypeOK, Decisions
  <1>2. price \in Nat \ {0} /\ c \in 0..Whole
    BY PortfolioAssumption
  <1>3. /\ book.cash \in Nat /\ Equity(book, marks) \in Nat
        /\ book.pos[d.symbol].qty \in Nat
    BY <1>1, BookParts, EquityType DEF TypeOK
  <1>4. Quantity(d, price, c) \in Nat
    BY <1>2, <1>3, BuyQuantityFits DEF Quantity
  <1>5. Money(Quantity(d, price, c), price) \in Nat
    BY <1>2, <1>4, MoneyType
  <1>6. QED
    BY <1>1, <1>4, <1>5 DEF OrderOf, Orders

LEMMA BoughtType ==
    ASSUME TypeOK
    PROVE  BoughtNow \in Nat
  <1> DEFINE f == [i \in DOMAIN accepted |-> accepted[i].notional]
  <1>1. accepted \in Seq(Orders)
    BY DEF TypeOK
  <1>2. IsFiniteSet(AcceptedBuys)
    <2>1. DOMAIN accepted = 1..Len(accepted) /\ Len(accepted) \in Nat
      BY <1>1
    <2>2. IsFiniteSet(1..Len(accepted))
      BY <2>1, FS_Interval
    <2>3. QED
      BY <2>1, <2>2, FS_Subset DEF AcceptedBuys
  <1>3. \A i \in AcceptedBuys : f[i] \in Nat
    <2> SUFFICES ASSUME NEW i \in AcceptedBuys PROVE f[i] \in Nat
      OBVIOUS
    <2>1. i \in DOMAIN accepted
      BY DEF AcceptedBuys
    <2>2. accepted[i] \in Orders
      BY <1>1, <2>1
    <2>3. QED
      BY <2>1, <2>2 DEF Orders
  <1> HIDE DEF f
  <1>4. SumFunctionOnSet(f, AcceptedBuys) \in Nat
    BY <1>2, <1>3, SumOfNaturals
  <1>5. QED
    BY <1>4 DEF BoughtNow, f

LEMMA ForgottenType ==
    ASSUME Forgotten
    PROVE  /\ inHours' \in BOOLEAN /\ marks' \in [Symbols -> Prices \cup {Unknown}]
           /\ forced' \subseteq Symbols /\ regime' \in Vols \cup {Unknown}
           /\ todo' \subseteq Decisions /\ dailyUsed' \in Nat /\ accepted' \in Seq(Orders)
           /\ missed' \in BOOLEAN /\ paper' \in Book
  <1>1. paper' \in Book
    BY NewBookType DEF Forgotten
  <1>2. marks' \in [Symbols -> Prices \cup {Unknown}]
    BY DEF Forgotten, NoMarks
  <1>3. accepted' \in Seq(Orders)
    BY DEF Forgotten
  <1>4. QED
    BY <1>1, <1>2, <1>3 DEF Forgotten

LEMMA TypedStep == TypeOK /\ [Next]_vars => TypeOK'
  <1> SUFFICES ASSUME TypeOK, [Next]_vars PROVE TypeOK'
    OBVIOUS
  <1> USE DEF TypeOK
  <1>0. day \in Nat /\ \A d \in Days : d \in Nat
    BY PortfolioAssumption DEF Days
  <1>1. ASSUME Start PROVE TypeOK'
    <2>1. marks' \in [Symbols -> Prices \cup {Unknown}]
      BY <1>1 DEF Start, MarksOf
    <2>2. forced' \subseteq Symbols
      BY <1>1 DEF Start, DueExits, ForcedExits, Held
    <2>3. dailyUsed' \in Nat /\ accepted' \in Seq(Orders) /\ ticks' \in 0..MaxTicks
      BY <1>1, PortfolioAssumption DEF Start
    <2>4. QED
      BY <1>1, <2>1, <2>2, <2>3 DEF Start, db, history
  <1>2. ASSUME NEW buys \in SUBSET Symbols, NEW sells \in SUBSET Symbols, Judge(buys, sells)
        PROVE  TypeOK'
    <2>1. breaker' \in Loss!BreakerState
      BY <1>0, <1>2, AssessType, EquityType DEF Judge, Assessed
    <2>2. todo' \subseteq Decisions
      BY <1>2 DEF Judge, On, Decisions, Sides
    <2>3. QED
      BY <1>2, <2>1, <2>2 DEF Judge, db, history, bounds
  <1>3. ASSUME NEW d \in todo, PassOver(d) PROVE TypeOK'
    <2>1. missed' \in BOOLEAN /\ todo' \subseteq Decisions
      BY <1>3 DEF PassOver, Drop
    <2>2. QED
      BY <1>3, <2>1 DEF PassOver, Drop, db, history, bounds
  <1>4. ASSUME NEW d \in todo, NEW price \in Prices, NEW c \in Confidences, NEW v \in Vols,
               Order(d, price, c, v)
        PROVE  TypeOK'
    <2> DEFINE o == OrderOf(d, price, Quantity(d, price, c))
    <2>1. o \in Orders
      BY OrderType
    <2>2. accepted' \in {accepted, Append(accepted, o)}
          /\ dailyUsed' \in {dailyUsed, dailyUsed + o.notional}
      BY <1>4 DEF Order, Submit
    <2> HIDE DEF o
    <2>3. accepted' \in Seq(Orders)
      <3>1. accepted \in Seq(Orders)
        OBVIOUS
      <3>2. Append(accepted, o) \in Seq(Orders)
        BY ONLY <2>1, <3>1
      <3> QED  BY ONLY <2>2, <3>1, <3>2
    <2>4. dailyUsed' \in Nat
      BY <2>1, <2>2 DEF Orders
    <2>5. QED
      BY <1>4, <2>3, <2>4 DEF Order, Submit, db, history, bounds
  <1>5. ASSUME Record PROVE TypeOK'
    <2>1. bought' \in [Days -> Nat]
      BY <1>5, BoughtType DEF Record
    <2>2. QED
      BY <1>5, <2>1 DEF Record, history, bounds
  <1>6. ASSUME SaveState PROVE TypeOK'
    BY <1>6 DEF SaveState, tick, history, bounds
  <1>7. ASSUME Fill PROVE TypeOK'
    <2>1. accepted \in Seq(Orders) /\ accepted # <<>>
      BY <1>7 DEF Fill
    <2>2. Head(accepted) \in Orders /\ Tail(accepted) \in Seq(Orders)
      BY <2>1
    <2>3. paper' \in Book
      BY <1>0, <1>7, <2>2, FillKeepsBook DEF Fill
    <2>4. QED
      BY <1>7, <2>2, <2>3 DEF Fill, db, history, bounds
  <1>8. ASSUME SaveBook PROVE TypeOK'
    <2>1. entered' \in [Symbols -> Days \cup {Unknown}]
      BY <1>8 DEF SaveBook, Entered
    <2>2. QED
      BY <1>8, <2>1 DEF SaveBook, tick, bounds
  <1>9. ASSUME AppendEquity PROVE TypeOK'
    <2>1. equityDays' \subseteq Days /\ wholeDays' \subseteq Days
      BY <1>9 DEF AppendEquity
    <2>2. QED
      BY <1>9, <2>1, ForgottenType DEF AppendEquity, bounds
  <1>10. ASSUME Abort PROVE failures' \in 0..MaxFailures /\ Forgotten /\ at' = "idle"
    BY <1>10, PortfolioAssumption DEF Abort
  <1>11. ASSUME StepFails PROVE TypeOK'
    BY <1>10, <1>11, ForgottenType DEF StepFails, db, history
  <1>12. ASSUME Crash PROVE TypeOK'
    <2>1. breaker' \in Loss!BreakerState
      BY <1>12, FreshBreakerType DEF Crash, Loss!Restored
    <2>2. QED
      BY <1>10, <1>12, <2>1, ForgottenType DEF Crash, db, history
  <1>13. ASSUME NextDay PROVE TypeOK'
    <2>1. day' \in Days
      BY <1>13, PortfolioAssumption DEF NextDay, Days
    <2>2. QED
      BY <1>13, <2>1 DEF NextDay, db, tick, history, bounds
  <1>14. CASE UNCHANGED vars
    BY <1>14 DEF vars, db, tick, history, bounds
  <1> HIDE DEF TypeOK
  <1>15. QED
    BY <1>1, <1>2, <1>3, <1>4, <1>5, <1>6, <1>7, <1>8, <1>9, <1>11, <1>12, <1>13, <1>14
    DEF Next

LEMMA InitialTypes == Init => TypeOK
  <1> SUFFICES ASSUME Init PROVE TypeOK
    OBVIOUS
  <1>1. book \in Book /\ paper \in Book
    BY NewBookType DEF Init
  <1>2. day \in Days /\ equityDays \subseteq Days /\ wholeDays \subseteq Days
    BY PortfolioAssumption DEF Init, Days
  <1>3. breaker \in Loss!BreakerState
    BY FreshBreakerType DEF Init
  <1>4. marks \in [Symbols -> Prices \cup {Unknown}] /\ forced \subseteq Symbols
    BY DEF Init, NoMarks
  <1>5. bought \in [Days -> Nat]
    BY DEF Init
  <1>6. entered \in [Symbols -> Days \cup {Unknown}]
    BY DEF Init, NoMarks
  <1>7. QED
    BY <1>1, <1>2, <1>3, <1>4, <1>5, <1>6, PortfolioAssumption DEF Init, TypeOK

(* Every reachable state of the paper book and its ticks is of its type:   *)
(* above all, cash is never overdrawn, however many buys a tick sized by   *)
(* the same cash.                                                          *)
THEOREM TypeCorrect == Spec => []TypeOK
  <1>1. Init => TypeOK
    BY InitialTypes
  <1>2. QED
    BY <1>1, TypedStep, PTL DEF Spec
-----------------------------------------------------------------------------
(* The books balance, in the database and in memory while they are filled. *)
BalanceInv == Balanced(book) /\ Balanced(paper)

LEMMA BalanceStep == TypeOK /\ BalanceInv /\ [Next]_vars => BalanceInv'
  <1> SUFFICES ASSUME TypeOK, BalanceInv, [Next]_vars PROVE BalanceInv'
    OBVIOUS
  <1> USE DEF BalanceInv
  <1>1. CASE UNCHANGED <<book, paper>>
    BY <1>1 DEF Balanced, Invested
  <1>2. CASE Start
    BY <1>2 DEF Start, db, Balanced, Invested
  <1>3. CASE Fill
    <2>1. accepted \in Seq(Orders) /\ accepted # <<>> /\ paper \in Book /\ day \in Nat
      BY <1>3, PortfolioAssumption DEF Fill, TypeOK, Days
    <2>2. Head(accepted) \in Orders
      BY <2>1
    <2>3. Balanced(ApplyFill(paper, Head(accepted), day))
      BY <2>1, <2>2, FillKeepsBook
    <2>4. QED
      BY <1>3, <2>3 DEF Fill, db, Balanced, Invested
  <1>4. CASE SaveBook
    BY <1>4 DEF SaveBook, tick, Balanced, Invested
  <1>5. CASE Forgotten /\ book' = book
    <2>1. paper' = NewBook
      BY <1>5 DEF Forgotten
    <2>2. Balanced(paper')
      BY <2>1, NewBookBalances
    <2>3. QED
      BY <1>5, <2>2 DEF Balanced, Invested
  <1>6. QED
    <2>1. AppendEquity \/ StepFails \/ Crash => Forgotten /\ book' = book
      BY DEF AppendEquity, StepFails, Crash, Abort, db
    <2>2. ASSUME NEW buys, NEW sells, Judge(buys, sells) PROVE UNCHANGED <<book, paper>>
      BY <2>2 DEF Judge, db
    <2>3. ASSUME NEW d, PassOver(d) PROVE UNCHANGED <<book, paper>>
      BY <2>3 DEF PassOver, Drop, db
    <2>4. ASSUME NEW d, NEW price, NEW c, NEW v, Order(d, price, c, v)
          PROVE  UNCHANGED <<book, paper>>
      BY <2>4 DEF Order, Submit, db
    <2>5. Record \/ SaveState \/ NextDay \/ UNCHANGED vars => UNCHANGED <<book, paper>>
      BY DEF Record, SaveState, NextDay, vars, db, tick
    <2>6. QED
      BY <1>1, <1>2, <1>3, <1>4, <1>5, <2>1, <2>2, <2>3, <2>4, <2>5 DEF Next

(* Cash and what the positions cost are always the seed and the profit     *)
(* realized so far: no fill, skipped buy, failed tick or crash loses or    *)
(* makes money, for any rates of slippage, commission and tax.             *)
THEOREM BooksAlwaysBalance == Spec => []BooksBalance
  <1>1. Init => BalanceInv
    BY NewBookBalances DEF Init, BalanceInv
  <1>2. BalanceInv => BooksBalance
    BY DEF BalanceInv, Balanced, BooksBalance
  <1>3. QED
    BY <1>1, <1>2, BalanceStep, TypeCorrect, PTL DEF Spec
-----------------------------------------------------------------------------
(* Whatever the close, the confidence and the regime, a buy is sized so    *)
(* that neither the order limit nor the weight limit refuses it.           *)
THEOREM OrdersAlwaysFit == Spec => []OrdersFitTheLimits
  <1>1. TypeOK => OrdersFitTheLimits
    <2> SUFFICES ASSUME TypeOK, NEW d \in todo, NEW price \in Prices, NEW c \in Confidences,
                        OrderOf(d, price, Quantity(d, price, c)).qty >= 1
                 PROVE  LET o == OrderOf(d, price, Quantity(d, price, c))
                        IN  /\ ~PerOrderMaxExceeded(o)
                            /\ ~PerSymbolWeightExceeded(o, Context(o))
      BY DEF OrdersFitTheLimits
    <2> DEFINE qty == Quantity(d, price, c)
               o == OrderOf(d, price, qty)
               cost == Money(qty, price)
               equity == Equity(book, marks)
               held == book.pos[d.symbol].qty
    <2>1. /\ o.side = d.side /\ o.qty = qty /\ o.notional = cost
          /\ o.symbol = d.symbol /\ o.price = price
      BY DEF OrderOf
    <2>2. CASE ~IsBuy(d)
      BY <2>1, <2>2 DEF PerOrderMaxExceeded, PerSymbolWeightExceeded, IsBuy
    <2>3. CASE IsBuy(d)
      <3>1. /\ price \in Nat \ {0} /\ c \in 0..Whole
            /\ equity \in Nat /\ held \in Nat /\ book.cash \in Nat
        BY OrderType, BookParts, EquityType, PortfolioAssumption DEF TypeOK
      <3>2. /\ qty = BuyQuantity(book.cash, equity, held, price, c, RegimeMultiplier(regime))
            /\ qty >= 1
        BY <2>1, <2>3 DEF Quantity
      <3> HIDE DEF qty, equity, held, o
      <3>3. /\ qty \in Nat /\ cost \in Nat
            /\ 100 * cost <= Ceiling(book.cash, equity, held, price)
        BY <3>1, <3>2, BuyQuantityFits, MoneyType
      <3>4. cost >= 1
        <4>1. \A x, y \in Nat \ {0} : x * y \in Nat \ {0}
          OBVIOUS
        <4>2. Whole \in Nat \ {0} /\ qty \in Nat \ {0}
          BY <3>2, <3>3, PaperAssumption
        <4>3. Money(qty, price) \in Nat \ {0}
          BY <3>1, <4>1, <4>2 DEF Money
        <4>4. QED
          BY <4>3
      <3> HIDE DEF cost
      <3> DEFINE room == Room(equity, held, price)
                 ceiling == Ceiling(book.cash, equity, held, price)
      <3>5. /\ ceiling \in Nat /\ ceiling <= 100 * PerOrderMax
            /\ room \in Int /\ ceiling <= Greater(0, room)
        BY <3>1, CeilingType
      <3> HIDE DEF room, ceiling
      <3>6. cost <= PerOrderMax /\ 100 * cost <= room
        BY <3>3, <3>4, <3>5, GuardrailAssumption DEF Greater, ceiling
      <3>7. ~PerOrderMaxExceeded(o)
        BY <2>1, <3>3, <3>6, GuardrailAssumption DEF PerOrderMaxExceeded
      <3>8. ~PerSymbolWeightExceeded(o, Context(o))
        <4>1. /\ Context(o).symbolValue = Money(held, price)
              /\ Context(o).portfolio = equity /\ Cost(o) = cost
          BY <2>1, <3>3, GuardrailAssumption DEF Context, Cost, held, equity
        <4>2. Money(held, price) \in Nat
          BY <3>1, MoneyType
        <4>3. room = PerSymbolWeight * equity - 100 * Money(held, price)
          BY DEF Room, room
        <4>4. (Money(held, price) + cost) * 100 <= PerSymbolWeight * equity
          <5>1. PerSymbolWeight * equity \in Nat
            BY <3>1, GuardrailAssumption
          <5>2. QED
            BY <3>3, <3>6, <4>2, <4>3, <5>1
        <4>5. PerSymbolWeight * equity <= PerSymbolWeight * (equity + cost)
          BY <3>1, <3>3, GuardrailAssumption, Shrinks
        <4>6. ~((Money(held, price) + cost) * 100 > PerSymbolWeight * (equity + cost))
          <5>1. /\ PerSymbolWeight * equity \in Nat
                /\ PerSymbolWeight * (equity + cost) \in Nat
            BY <3>1, <3>3, GuardrailAssumption
          <5>2. QED
            BY <3>3, <4>2, <4>4, <4>5, <5>1
        <4>7. QED
          BY <4>1, <4>6 DEF PerSymbolWeightExceeded
      <3>9. QED
        BY <3>7, <3>8 DEF o, qty
    <2>4. QED
      BY <2>2, <2>3
  <1>2. QED
    BY <1>1, TypeCorrect, PTL
-----------------------------------------------------------------------------
(* Exits. What a tick still wants to trade waits as a decision or as an    *)
(* accepted order that has not been filled.                                *)
Waiting == todo \cup Range(accepted)
Pending(s, side) == \E e \in Waiting : e.symbol = s /\ e.side = side

(* What a tick keeps from its start to each of its steps.                  *)
StepInv ==
    /\ at \notin {"idle", "saved"} => forced = DueExits(marks)
    /\ at # "ordering" => todo = {}
    /\ at \in {"idle", "judging", "saved"} => accepted = <<>>
    /\ at = "judging" => missed = FALSE
    /\ at \in {"judging", "ordering", "recorded"} => paper = book

(* Nothing is both bought and sold in one tick, nothing due for exit is    *)
(* bought, and nothing is bought back that the tick has sold.              *)
OneSideInv ==
    /\ \A s \in Symbols : ~(Pending(s, "BUY") /\ Pending(s, "SELL"))
    /\ \A s \in forced : ~Pending(s, "BUY")
    /\ \A s \in Symbols :
          book.pos[s].qty > 0 /\ paper.pos[s].qty = 0 => ~Pending(s, "BUY")

(* The sell of a position due for exit waits until it is filled.           *)
ExitInv ==
    at \in {"ordering", "recorded", "filling"} /\ inHours /\ ~missed =>
        \A s \in forced : paper.pos[s].qty > 0 => Pending(s, "SELL")

LEMMA RangeOfNone == Range(<<>>) = {}
  BY DEF Range

LEMMA RangeOfAppend ==
    ASSUME NEW S, NEW q \in Seq(S), NEW e \in S
    PROVE  Range(Append(q, e)) = Range(q) \cup {e}
  <1>1. /\ DOMAIN Append(q, e) = DOMAIN q \cup {Len(q) + 1}
        /\ \A i \in DOMAIN q : Append(q, e)[i] = q[i]
        /\ Append(q, e)[Len(q) + 1] = e
    OBVIOUS
  <1>2. QED
    BY <1>1 DEF Range

LEMMA RangeOfTail ==
    ASSUME NEW S, NEW q \in Seq(S), q # <<>>
    PROVE  Range(q) = Range(Tail(q)) \cup {Head(q)}
  <1>1. /\ Len(q) \in Nat \ {0} /\ DOMAIN q = 1..Len(q)
        /\ DOMAIN Tail(q) = 1..(Len(q) - 1) /\ Head(q) = q[1]
        /\ \A i \in 1..(Len(q) - 1) : Tail(q)[i] = q[i + 1]
    OBVIOUS
  <1>2. \A i \in DOMAIN q : i = 1 \/ (i - 1 \in 1..(Len(q) - 1) /\ q[i] = Tail(q)[i - 1])
    BY <1>1
  <1>3. ASSUME NEW x \in Range(q) PROVE x \in Range(Tail(q)) \cup {Head(q)}
    BY <1>1, <1>2 DEF Range
  <1>4. ASSUME NEW x \in Range(Tail(q)) \cup {Head(q)} PROVE x \in Range(q)
    <2>1. \A i \in 1..(Len(q) - 1) : i + 1 \in DOMAIN q
      BY <1>1
    <2>2. 1 \in DOMAIN q
      BY <1>1
    <2>3. QED
      BY <1>1, <2>1, <2>2 DEF Range
  <1>5. QED
    BY <1>3, <1>4

(* What the orders loop and the fills leave waiting was waiting before.    *)
LEMMA WaitingAfterOrder ==
    ASSUME TypeOK, NEW d \in todo, NEW price \in Prices, NEW c \in Confidences, NEW v \in Vols,
           Order(d, price, c, v)
    PROVE  LET o == OrderOf(d, price, Quantity(d, price, c))
           IN  /\ todo = todo' \cup {d}
               /\ o.symbol = d.symbol /\ o.side = d.side
               /\ IF Violates(o, Context(o)) THEN Waiting' = (Waiting \ {d}) \cup Range(accepted)
                  ELSE Waiting' = (Waiting \ {d}) \cup Range(accepted) \cup {o}
  <1> DEFINE o == OrderOf(d, price, Quantity(d, price, c))
  <1>1. o \in Orders /\ accepted \in Seq(Orders)
    BY OrderType DEF TypeOK
  <1>2. todo' = todo \ {d} /\ accepted' = IF Violates(o, Context(o)) THEN accepted
                                          ELSE Append(accepted, o)
    BY DEF Order, Submit
  <1>3. o.symbol = d.symbol /\ o.side = d.side
    BY DEF OrderOf
  <1> HIDE DEF o
  <1>4. Range(Append(accepted, o)) = Range(accepted) \cup {o}
    BY <1>1, RangeOfAppend
  <1>5. QED
    BY <1>2, <1>3, <1>4 DEF Waiting, o

LEMMA WaitingAfterFill ==
    ASSUME TypeOK, Fill
    PROVE  /\ Head(accepted) \in Orders /\ Head(accepted) \in Waiting
           /\ Waiting = Waiting' \cup {Head(accepted)}
  <1>1. accepted \in Seq(Orders) /\ accepted # <<>> /\ todo' = todo
        /\ accepted' = Tail(accepted)
    BY DEF TypeOK, Fill
  <1>2. Head(accepted) \in Orders /\ Range(accepted) = Range(Tail(accepted)) \cup {Head(accepted)}
    BY <1>1, RangeOfTail
  <1>3. QED
    BY <1>1, <1>2 DEF Waiting

LEMMA PendingShrinks ==
    ASSUME TypeOK, NEW s, NEW side, Pending(s, side)',
           \/ \E d \in todo : PassOver(d)
           \/ \E d \in todo, price \in Prices, c \in Confidences, v \in Vols :
                 Order(d, price, c, v)
           \/ Fill
    PROVE  Pending(s, side)
  <1>1. ASSUME NEW d \in todo, PassOver(d) PROVE Pending(s, side)
    BY <1>1 DEF PassOver, Drop, Pending, Waiting
  <1>2. ASSUME NEW d \in todo, NEW price \in Prices, NEW c \in Confidences, NEW v \in Vols,
               Order(d, price, c, v)
        PROVE  Pending(s, side)
    BY <1>2, WaitingAfterOrder DEF Pending, Waiting
  <1>3. CASE Fill
    BY <1>3, WaitingAfterFill DEF Pending
  <1>4. QED
    BY <1>1, <1>2, <1>3

(* What one fill does to the position of one symbol.                       *)
LEMMA FillEffect ==
    ASSUME NEW b \in Book, NEW o \in Orders, NEW date \in Nat, NEW s \in Symbols
    PROVE  LET c == ApplyFill(b, o, date)
           IN  /\ o.symbol # s => c.pos[s] = b.pos[s]
               /\ o.symbol = s /\ ~IsBuy(o) => c.pos[s].qty = 0
               /\ o.symbol = s /\ IsBuy(o) =>
                    \/ c.pos[s] = b.pos[s]
                    \/ /\ c.pos[s].qty = b.pos[s].qty + o.qty
                       /\ c.pos[s].opened = OpenedOn(b.pos[s], date)
  <1>1. CASE IsBuy(o) /\ BuyCost(o.qty, o.price) <= b.cash
    <2>1. ApplyFill(b, o, date) = FillAnyBuy(b, o, date)
      BY <1>1 DEF ApplyFill, FillBuy
    <2> DEFINE c == FillAnyBuy(b, o, date)
    <2>2. /\ \A x \in Symbols \ {o.symbol} : c.pos[x] = b.pos[x]
          /\ c.pos[o.symbol] = [qty    |-> b.pos[o.symbol].qty + o.qty,
                                cost   |-> b.pos[o.symbol].cost + BuyCost(o.qty, o.price),
                                opened |-> OpenedOn(b.pos[o.symbol], date)]
      BY <1>1, BuyFill
    <2> HIDE DEF c
    <2>3. /\ c.pos[o.symbol].qty = b.pos[o.symbol].qty + o.qty
          /\ c.pos[o.symbol].opened = OpenedOn(b.pos[o.symbol], date)
      BY <2>2
    <2>4. QED
      BY <1>1, <2>1, <2>2, <2>3 DEF c
  <1>2. CASE ~IsBuy(o) /\ b.pos[o.symbol].qty # 0
    <2>1. ApplyFill(b, o, date) = FillSell(b, o)
      BY <1>2 DEF ApplyFill
    <2>2. QED
      BY <1>2, <2>1, SellFill DEF NoPosition
  <1>3. CASE \/ IsBuy(o) /\ ~(BuyCost(o.qty, o.price) <= b.cash)
             \/ ~IsBuy(o) /\ b.pos[o.symbol].qty = 0
    BY <1>3 DEF ApplyFill, FillBuy, FillSell
  <1>4. QED
    BY <1>1, <1>2, <1>3
-----------------------------------------------------------------------------
LEMMA StepInvStep == TypeOK /\ StepInv /\ [Next]_vars => StepInv'
  <1> SUFFICES ASSUME TypeOK, StepInv, [Next]_vars PROVE StepInv'
    OBVIOUS
  <1> USE DEF StepInv
  <1>0. accepted \in Seq(Orders) /\ DueExits(marks)' = ForcedExits(book', marks', equityDays')
    BY DEF TypeOK, DueExits
  <1>1. CASE Start
    BY <1>1 DEF Start, db, DueExits
  <1>2. ASSUME NEW buys, NEW sells, Judge(buys, sells) PROVE StepInv'
    BY <1>2 DEF Judge, db, DueExits
  <1>3. ASSUME NEW d, PassOver(d) PROVE StepInv'
    BY <1>3 DEF PassOver, IsNext, Drop, db, DueExits
  <1>4. ASSUME NEW d, NEW price, NEW c, NEW v, Order(d, price, c, v) PROVE StepInv'
    BY <1>4 DEF Order, IsNext, Submit, db, DueExits
  <1>5. CASE Record
    BY <1>5 DEF Record, DueExits
  <1>6. CASE SaveState
    BY <1>6 DEF SaveState, tick, DueExits
  <1>7. CASE Fill
    BY <1>7 DEF Fill, db, DueExits
  <1>8. CASE SaveBook
    BY <1>8 DEF SaveBook, tick
  <1>9. CASE at' = "idle" /\ Forgotten
    BY <1>9 DEF Forgotten
  <1>10. CASE NextDay
    BY <1>10 DEF NextDay, db, tick, DueExits
  <1>11. CASE UNCHANGED vars
    BY <1>11 DEF vars, db, tick, DueExits
  <1>12. QED
    <2>1. AppendEquity \/ StepFails \/ Crash => at' = "idle" /\ Forgotten
      BY DEF AppendEquity, StepFails, Crash, Abort
    <2>2. QED
      BY <1>1, <1>2, <1>3, <1>4, <1>5, <1>6, <1>7, <1>8, <1>9, <1>10, <1>11, <2>1 DEF Next

(* Nothing waits outside the steps that order and fill.                    *)
LEMMA NothingPending ==
    ASSUME todo = {}, accepted = <<>>
    PROVE  \A s, side : ~Pending(s, side)
  BY RangeOfNone DEF Pending, Waiting

LEMMA NothingPendingNext ==
    ASSUME todo' = {}, accepted' = <<>>
    PROVE  \A s, side : ~Pending(s, side)'
  BY RangeOfNone DEF Pending, Waiting

LEMMA OneSideStep == TypeOK /\ StepInv /\ OneSideInv /\ [Next]_vars => OneSideInv'
  <1> SUFFICES ASSUME TypeOK, StepInv, OneSideInv, [Next]_vars PROVE OneSideInv'
    OBVIOUS
  <1>0. ASSUME todo' = {}, accepted' = <<>> PROVE OneSideInv'
    BY <1>0, NothingPendingNext DEF OneSideInv
  <1>1. CASE Start
    BY <1>0, <1>1 DEF Start
  <1>2. ASSUME NEW buys, NEW sells, Judge(buys, sells) PROVE OneSideInv'
    <2>1. accepted' = <<>> /\ paper' = paper /\ book' = book /\ forced' = forced /\ paper = book
      BY <1>2 DEF Judge, db, StepInv
    <2>2. Waiting' = On(forced \cup sells, "SELL") \cup On(buys, "BUY")
      BY <1>2, <2>1, RangeOfNone DEF Judge, Waiting
    <2>3. buys \cap forced = {} /\ buys \cap sells = {}
      BY <1>2 DEF Judge, Judged
    <2>4. \A s : /\ Pending(s, "BUY")' => s \in buys
                 /\ Pending(s, "SELL")' => s \in forced \cup sells
      BY <2>2 DEF Pending, On
    <2>5. QED
      BY <2>1, <2>3, <2>4 DEF OneSideInv
  <1>3. ASSUME NEW d \in todo, PassOver(d) PROVE OneSideInv'
    <2>1. UNCHANGED <<book, paper, forced>>
      BY <1>3 DEF PassOver, Drop, db
    <2>2. QED
      BY <1>3, <2>1, PendingShrinks DEF OneSideInv
  <1>4. ASSUME NEW d \in todo, NEW price \in Prices, NEW c \in Confidences, NEW v \in Vols,
               Order(d, price, c, v)
        PROVE  OneSideInv'
    <2>1. UNCHANGED <<book, paper, forced>>
      BY <1>4 DEF Order, Submit, db
    <2>2. QED
      BY <1>4, <2>1, PendingShrinks DEF OneSideInv
  <1>5. CASE Fill
    <2>1. /\ UNCHANGED <<book, forced>> /\ paper' = ApplyFill(paper, Head(accepted), day)
          /\ paper \in Book /\ day \in Nat
      BY <1>5, PortfolioAssumption DEF Fill, db, TypeOK, Days
    <2>2. /\ Head(accepted) \in Orders /\ Head(accepted) \in Waiting
      BY <1>5, WaitingAfterFill
    <2>3. ASSUME NEW s \in Symbols, book.pos[s].qty > 0, paper'.pos[s].qty = 0,
                 Pending(s, "BUY")'
          PROVE  FALSE
      <3>1. Pending(s, "BUY")
        BY <1>5, <2>3, PendingShrinks
      <3>2. paper.pos[s].qty # 0 /\ ~Pending(s, "SELL")
        BY <2>3, <3>1 DEF OneSideInv
      <3>3. Head(accepted).symbol = s => IsBuy(Head(accepted))
        BY <2>2, <3>2 DEF Pending, IsBuy, Orders, Sides
      <3>4. paper.pos[s].qty \in Nat /\ Head(accepted).qty \in Nat
        BY <2>1, <2>2, BookParts DEF Orders
      <3>5. QED
        BY <2>1, <2>2, <2>3, <3>2, <3>3, <3>4, FillEffect
    <2>4. QED
      BY <1>5, <2>1, <2>3, PendingShrinks DEF OneSideInv
  <1>6. CASE SaveBook
    BY <1>0, <1>6 DEF SaveBook, tick, StepInv
  <1>7. CASE Forgotten
    BY <1>0, <1>7 DEF Forgotten
  <1>8. CASE UNCHANGED <<book, paper, forced, todo, accepted>>
    BY <1>8 DEF OneSideInv, Pending, Waiting
  <1>9. QED
    <2>1. AppendEquity \/ StepFails \/ Crash => Forgotten
      BY DEF AppendEquity, StepFails, Crash, Abort
    <2>2. Record \/ SaveState \/ NextDay \/ UNCHANGED vars
            => UNCHANGED <<book, paper, forced, todo, accepted>>
      BY DEF Record, SaveState, NextDay, vars, db, tick
    <2>3. QED
      BY <1>1, <1>2, <1>3, <1>4, <1>5, <1>6, <1>7, <1>8, <2>1, <2>2 DEF Next

LEMMA ExitStep == TypeOK /\ StepInv /\ OneSideInv /\ ExitInv /\ [Next]_vars => ExitInv'
  <1> SUFFICES ASSUME TypeOK, StepInv, OneSideInv, ExitInv, [Next]_vars,
                      at' \in {"ordering", "recorded", "filling"}, inHours', ~missed',
                      NEW s \in forced', paper'.pos[s].qty > 0
               PROVE  Pending(s, "SELL")'
    BY DEF ExitInv
  <1>1. ASSUME NEW buys, NEW sells, Judge(buys, sells) PROVE Pending(s, "SELL")'
    <2>1. [symbol |-> s, side |-> "SELL"] \in todo'
      BY <1>1 DEF Judge, On
    <2>2. QED
      BY <2>1 DEF Pending, Waiting
  <1>2. ASSUME NEW d \in todo, PassOver(d) PROVE Pending(s, "SELL")'
    <2>1. /\ UNCHANGED <<at, inHours, forced, accepted, paper>> /\ todo' = todo \ {d}
          /\ missed' = (missed \/ d.symbol \in forced)
      BY <1>2 DEF PassOver, Drop
    <2>2. ~missed /\ d.symbol # s
      BY <2>1
    <2>3. Pending(s, "SELL")
      BY <2>1, <2>2 DEF ExitInv
    <2>4. QED
      BY <2>1, <2>2, <2>3 DEF Pending, Waiting
  <1>3. ASSUME NEW d \in todo, NEW price \in Prices, NEW c \in Confidences, NEW v \in Vols,
               Order(d, price, c, v)
        PROVE  Pending(s, "SELL")'
    <2> DEFINE o == OrderOf(d, price, Quantity(d, price, c))
    <2>1. UNCHANGED <<at, inHours, forced, paper, missed>>
      BY <1>3 DEF Order, Submit
    <2>2. PICK e \in Waiting : e.symbol = s /\ e.side = "SELL"
      BY <2>1 DEF ExitInv, Pending
    <2>3. o.symbol = d.symbol /\ o.side = d.side
      BY DEF OrderOf
    <2>4. CASE e # d
      BY <1>3, <2>2, <2>4, WaitingAfterOrder DEF Pending
    <2>5. CASE e = d
      <3>1. ~IsBuy(o)
        BY <2>2, <2>3, <2>5 DEF IsBuy
      <3> HIDE DEF o
      <3>2. ~Violates(o, Context(o))
        BY <2>1, <3>1
        DEF Violates, Context, KillSwitchBlocks, CircuitBreakerBlocks, UnboundedCost,
            PerOrderMaxExceeded, DailyCapExceeded, MaxPositionsExceeded,
            PerSymbolWeightExceeded
      <3>3. o \in Waiting'
        BY <1>3, <3>2, WaitingAfterOrder DEF o
      <3>4. QED
        BY <2>2, <2>3, <2>5, <3>3 DEF Pending
    <2>6. QED
      BY <2>4, <2>5
  <1>4. CASE Fill
    <2> DEFINE h == Head(accepted)
    <2>0. paper \in Book /\ day \in Nat /\ forced \subseteq Symbols
      BY PortfolioAssumption DEF TypeOK, Days
    <2>1. /\ UNCHANGED <<at, inHours, forced, missed>> /\ paper' = ApplyFill(paper, h, day)
          /\ s \in Symbols
      BY <1>4, <2>0 DEF Fill
    <2>2. h \in Orders /\ h \in Waiting /\ Waiting = Waiting' \cup {h}
      BY <1>4, WaitingAfterFill
    <2> HIDE DEF h
    <2>3. h.symbol # s
      <3> SUFFICES ASSUME h.symbol = s PROVE FALSE
        OBVIOUS
      <3>1. ~IsBuy(h)
        BY <2>1, <2>2 DEF OneSideInv, Pending, IsBuy
      <3>2. paper'.pos[s].qty = 0
        BY <2>0, <2>1, <2>2, <3>1, FillEffect
      <3>3. QED
        BY <3>2
    <2>4. paper'.pos[s] = paper.pos[s]
      BY <2>0, <2>1, <2>2, <2>3, FillEffect
    <2>5. Pending(s, "SELL")
      BY <2>1, <2>4 DEF ExitInv
    <2>6. QED
      BY <2>2, <2>3, <2>5 DEF Pending
  <1>5. CASE Record \/ SaveState
    <2>1. /\ UNCHANGED <<inHours, forced, missed, paper, todo, accepted>>
          /\ at \in {"ordering", "recorded"}
      BY <1>5 DEF Record, SaveState, tick
    <2>2. Pending(s, "SELL")
      BY <2>1 DEF ExitInv
    <2>3. QED
      BY <2>1, <2>2 DEF Pending, Waiting
  <1>6. CASE UNCHANGED <<at, inHours, forced, missed, paper, todo, accepted>>
    BY <1>6 DEF ExitInv, Pending, Waiting
  <1>7. QED
    <2>1. Start \/ SaveBook \/ AppendEquity \/ StepFails \/ Crash
            => at' \in {"judging", "saved", "idle"}
      BY DEF Start, SaveBook, AppendEquity, StepFails, Crash, Abort
    <2>2. NextDay \/ UNCHANGED vars
            => UNCHANGED <<at, inHours, forced, missed, paper, todo, accepted>>
      BY DEF NextDay, vars, tick
    <2>3. QED
      BY <1>1, <1>2, <1>3, <1>4, <1>5, <1>6, <2>1, <2>2 DEF Next

TickInv == TypeOK /\ StepInv /\ OneSideInv /\ ExitInv

LEMMA TickInvariant == Spec => []TickInv
  <1>1. Init => TypeOK
    BY InitialTypes
  <1>2. Init => StepInv /\ OneSideInv /\ ExitInv
    BY NothingPending DEF Init, StepInv, OneSideInv, ExitInv
  <1>3. TickInv /\ [Next]_vars => TickInv'
    BY TypedStep, StepInvStep, OneSideStep, ExitStep DEF TickInv
  <1>4. Init => TickInv
    BY <1>1, <1>2 DEF TickInv
  <1>5. QED
    BY <1>3, <1>4, PTL DEF Spec

(* What the rules say must be sold when a tick begins is not in the book   *)
(* it saves, for any prices, rates and limits: no guardrail, no halt and   *)
(* no decision of the judge stops or undoes an exit, and only a missing    *)
(* close or a tick outside market hours leaves one undone.                 *)
THEOREM DueExitsAreSold == Spec => DueExitsLeaveTheBook
  <1>1. ASSUME TickInv, Next, at' = "saved", at # "saved", inHours, ~missed
        PROVE  Held(book') \cap DueExits(marks) = {}
    <2>1. SaveBook
      <3>1. Start \/ Record \/ SaveState \/ Fill \/ AppendEquity \/ StepFails \/ Crash \/ NextDay
              => at' # "saved" \/ at' = at
        BY DEF Start, Record, SaveState, Fill, AppendEquity, StepFails, Crash, Abort, NextDay
      <3>2. ASSUME NEW buys, NEW sells, Judge(buys, sells) PROVE at' # "saved"
        BY <3>2 DEF Judge
      <3>3. ASSUME NEW d, PassOver(d) PROVE at' = at
        BY <3>3 DEF PassOver, Drop
      <3>4. ASSUME NEW d, NEW price, NEW c, NEW v, Order(d, price, c, v) PROVE at' = at
        BY <3>4 DEF Order, Submit
      <3>5. QED
        BY <1>1, <3>1, <3>2, <3>3, <3>4 DEF Next
    <2>2. /\ at = "filling" /\ accepted = <<>> /\ todo = {} /\ book' = paper
          /\ forced = DueExits(marks) /\ paper \in Book
      BY <1>1, <2>1 DEF SaveBook, TickInv, StepInv, TypeOK
    <2>3. \A s \in forced : ~(paper.pos[s].qty > 0)
      BY <1>1, <2>2, NothingPending DEF TickInv, ExitInv
    <2>4. QED
      BY <2>2, <2>3 DEF Held
  <1>2. TickInv /\ [Next]_vars
          => [at' = "saved" /\ at # "saved" /\ inHours /\ ~missed
                => Held(book') \cap DueExits(marks) = {}]_vars
    BY <1>1
  <1>3. QED
    BY <1>2, TickInvariant, PTL DEF Spec, DueExitsLeaveTheBook
-----------------------------------------------------------------------------
(* Ages. A position was opened on the day since when it is in the book:    *)
(* adding to it does not make it younger.                                  *)
AgeInv ==
    /\ \A s \in Held(book) : entered[s] \in 0..day /\ book.pos[s].opened = entered[s]
    /\ at # "idle" => \A s \in Held(paper) :
          paper.pos[s].opened = IF book.pos[s].qty = 0 THEN day ELSE entered[s]
    /\ wholeDays \subseteq equityDays /\ equityDays \subseteq 0..day

LEMMA AgeStep == TickInv /\ AgeInv /\ [Next]_vars => AgeInv'
  <1> SUFFICES ASSUME TickInv, AgeInv, [Next]_vars PROVE AgeInv'
    OBVIOUS
  <1>0. /\ day \in Nat /\ book \in Book /\ paper \in Book
        /\ \A s \in Symbols : book.pos[s].qty \in Nat /\ paper.pos[s].qty \in Nat
    BY PortfolioAssumption, BookParts DEF TickInv, TypeOK, Days
  <1>1. CASE Start
    <2>1. /\ at' # "idle" /\ paper' = book
          /\ UNCHANGED <<day, book, equityDays, entered, wholeDays>>
      BY <1>1 DEF Start, db, history
    <2>2. QED
      BY <1>0, <2>1 DEF AgeInv, Held
  <1>2. CASE Fill
    <2> DEFINE h == Head(accepted)
    <2>1. /\ UNCHANGED <<day, book, equityDays, at, entered, wholeDays>>
          /\ at = "filling" /\ paper' = ApplyFill(paper, h, day)
      BY <1>2 DEF Fill, db, history
    <2>2. h \in Orders /\ h \in Waiting
      BY <1>2, WaitingAfterFill DEF TickInv
    <2> HIDE DEF h
    <2>3. ASSUME NEW s \in Symbols, paper'.pos[s].qty > 0
          PROVE  paper'.pos[s].opened = IF book.pos[s].qty = 0 THEN day ELSE entered[s]
      <3>1. CASE paper'.pos[s] = paper.pos[s]
        BY <2>1, <2>3, <3>1 DEF AgeInv, Held
      <3>2. CASE paper'.pos[s] # paper.pos[s]
        <4>1. /\ h.symbol = s /\ IsBuy(h)
              /\ paper'.pos[s].opened = OpenedOn(paper.pos[s], day)
          BY <1>0, <2>1, <2>2, <2>3, <3>2, FillEffect
        <4>2. CASE paper.pos[s].qty = 0
          <5>1. Pending(s, "BUY")
            BY <2>2, <4>1 DEF Pending, IsBuy
          <5>2. book.pos[s].qty = 0
            BY <1>0, <4>2, <5>1 DEF TickInv, OneSideInv
          <5>3. QED
            BY <4>1, <4>2, <5>2 DEF OpenedOn
        <4>3. CASE paper.pos[s].qty # 0
          BY <1>0, <2>1, <4>1, <4>3 DEF AgeInv, Held, OpenedOn
        <4>4. QED
          BY <4>2, <4>3
      <3>3. QED
        BY <3>1, <3>2
    <2>4. QED
      BY <2>1, <2>3 DEF AgeInv, Held
  <1>3. CASE SaveBook
    <2>1. /\ UNCHANGED <<day, equityDays, paper, wholeDays>> /\ at = "filling"
          /\ book' = paper
          /\ \A s \in Symbols : paper.pos[s].qty # 0 =>
                entered'[s] = IF book.pos[s].qty = 0 THEN day ELSE entered[s]
      BY <1>3 DEF SaveBook, tick, Entered
    <2>2. ASSUME NEW s \in Held(paper)
          PROVE  /\ entered'[s] \in 0..day /\ paper.pos[s].opened = entered'[s]
                 /\ paper.pos[s].qty # 0
      <3>1. /\ paper.pos[s].qty # 0
            /\ paper.pos[s].opened = IF book.pos[s].qty = 0 THEN day ELSE entered[s]
        BY <2>1 DEF AgeInv, Held
      <3>2. book.pos[s].qty # 0 => s \in Held(book)
        BY <1>0, <2>2 DEF Held
      <3>3. QED
        BY <1>0, <2>1, <2>2, <3>1, <3>2 DEF AgeInv, Held
    <2>3. QED
      BY <2>1, <2>2 DEF AgeInv, Held
  <1>4. CASE AppendEquity
    <2>1. /\ UNCHANGED <<day, book, entered>> /\ at' = "idle"
          /\ equityDays' = equityDays \cup {day}
          /\ wholeDays' \subseteq wholeDays \cup {day}
          /\ wholeDays' \subseteq equityDays'
      BY <1>4 DEF AppendEquity, AgeInv
    <2>2. QED
      BY <1>0, <2>1 DEF AgeInv, Held
  <1>5. CASE NextDay
    <2>1. /\ UNCHANGED <<book, equityDays, at, paper, entered, wholeDays>>
          /\ at = "idle" /\ day' = day + 1
      BY <1>5 DEF NextDay, db, tick, history
    <2>2. QED
      BY <1>0, <2>1 DEF AgeInv, Held
  <1>6. CASE UNCHANGED <<day, book, equityDays, entered, wholeDays>> /\ at' = "idle"
    BY <1>6 DEF AgeInv, Held
  <1>7. CASE UNCHANGED <<day, book, equityDays, paper, entered, wholeDays>>
             /\ (at = "idle" => at' = "idle")
    BY <1>7 DEF AgeInv, Held
  <1>8. QED
    <2>1. StepFails \/ Crash
            => UNCHANGED <<day, book, equityDays, entered, wholeDays>> /\ at' = "idle"
      BY DEF StepFails, Crash, Abort, db, history
    <2>2. ASSUME NEW buys, NEW sells, Judge(buys, sells) PROVE AgeInv'
      BY <1>7, <2>2 DEF Judge, db, history
    <2>3. ASSUME NEW d, PassOver(d) PROVE AgeInv'
      BY <1>7, <2>3 DEF PassOver, Drop, db, history
    <2>4. ASSUME NEW d, NEW price, NEW c, NEW v, Order(d, price, c, v) PROVE AgeInv'
      BY <1>7, <2>4 DEF Order, Submit, db, history
    <2>5. CASE Record \/ SaveState \/ UNCHANGED vars
      BY <1>7, <2>5 DEF Record, SaveState, vars, db, tick, history
    <2>6. QED
      BY <1>1, <1>2, <1>3, <1>4, <1>5, <1>6, <2>1, <2>2, <2>3, <2>4, <2>5 DEF Next

(* The days among some since when a symbol has been in the book.           *)
Since(dates, s) == {d \in dates : d > entered[s]}

(* A whole tick leaves no position that is older than the time stop by the *)
(* equity days it counted; its own day comes on top.                       *)
CountInv ==
    \A s \in Held(book) :
        /\ Cardinality(Since(wholeDays, s)) <= TimeStopDays + 1
        /\ at = "saved" /\ inHours /\ ~missed
              => Cardinality(Since(equityDays, s)) <= TimeStopDays

LEMMA CountStep == TickInv /\ AgeInv /\ CountInv /\ [Next]_vars => CountInv'
  <1> SUFFICES ASSUME TickInv, AgeInv, CountInv, [Next]_vars PROVE CountInv'
    OBVIOUS
  <1>0. /\ day \in Nat /\ TimeStopDays \in Nat /\ paper \in Book
        /\ \A s \in Symbols : book.pos[s].qty \in Nat /\ paper.pos[s].qty \in Nat
    BY PortfolioAssumption, PaperAssumption, BookParts DEF TickInv, TypeOK, Days
  <1>1. ASSUME NEW dates \in SUBSET (0..day), NEW n
        PROVE  LET D == {d \in dates : d > n}
               IN  IsFiniteSet(D) /\ Cardinality(D) \in Nat
    <2>1. IsFiniteSet(0..day)
      BY <1>0, FS_Interval
    <2>2. {d \in dates : d > n} \in SUBSET (0..day)
      OBVIOUS
    <2>3. QED
      BY <2>1, <2>2, FS_Subset, FS_CardinalityType
  <1>2. CASE SaveBook
    <2>1. /\ UNCHANGED <<equityDays, wholeDays, inHours, missed>>
          /\ book' = paper /\ at = "filling" /\ todo = {} /\ accepted = <<>>
          /\ \A s \in Symbols : paper.pos[s].qty # 0 =>
                entered'[s] = IF book.pos[s].qty = 0 THEN day ELSE entered[s]
          /\ forced = DueExits(marks)
      BY <1>2 DEF SaveBook, tick, Entered, TickInv, StepInv
    <2>2. ASSUME NEW s \in Held(paper)
          PROVE  /\ Cardinality({d \in wholeDays : d > entered'[s]}) <= TimeStopDays + 1
                 /\ inHours /\ ~missed
                      => Cardinality({d \in equityDays : d > entered'[s]}) <= TimeStopDays
      <3>1. s \in Symbols /\ paper.pos[s].qty > 0 /\ paper.pos[s].qty # 0
        BY DEF Held
      <3>2. CASE book.pos[s].qty = 0
        <4>1. entered'[s] = day
          BY <2>1, <3>1, <3>2
        <4>2. \A d \in 0..day : ~(d > entered'[s])
          BY <1>0, <4>1
        <4>3. \A dates \in SUBSET (0..day) : {d \in dates : d > entered'[s]} = {}
          BY <4>2
        <4>4. wholeDays \in SUBSET (0..day) /\ equityDays \in SUBSET (0..day)
          BY DEF AgeInv
        <4>5. \A dates \in SUBSET (0..day) : Cardinality({d \in dates : d > entered'[s]}) = 0
          BY <4>3, FS_EmptySet
        <4>6. QED
          BY <1>0, <4>4, <4>5
      <3>3. CASE book.pos[s].qty # 0
        <4>1. entered'[s] = entered[s] /\ s \in Held(book)
          BY <1>0, <2>1, <3>1, <3>3 DEF Held
        <4>2. Cardinality({d \in wholeDays : d > entered[s]}) <= TimeStopDays + 1
          BY <4>1 DEF CountInv, Since
        <4>3. ASSUME inHours, ~missed
              PROVE  Cardinality({d \in equityDays : d > entered[s]}) <= TimeStopDays
          <5>1. s \notin forced
            BY <2>1, <3>1, <4>3, NothingPending DEF TickInv, ExitInv
          <5>2. ~TimeStopDue(book.pos[s], equityDays)
            BY <2>1, <4>1, <5>1 DEF DueExits, ForcedExits
          <5>3. ~(Cardinality({d \in equityDays : d > entered[s]}) > TimeStopDays)
            BY <4>1, <5>2 DEF TimeStopDue, DaysHeld, AgeInv
          <5>4. Cardinality({d \in equityDays : d > entered[s]}) \in Nat
            BY <1>1 DEF AgeInv
          <5>5. QED
            BY <1>0, <5>3, <5>4
        <4>4. QED
          BY <4>1, <4>2, <4>3
      <3>4. QED
        BY <3>2, <3>3
    <2>3. QED
      BY <2>1, <2>2 DEF CountInv, Since, Held
  <1>3. CASE AppendEquity
    <2>1. /\ UNCHANGED <<book, entered>> /\ at = "saved" /\ at' = "idle"
          /\ wholeDays' = IF inHours /\ ~missed THEN wholeDays \cup {day} ELSE wholeDays
      BY <1>3 DEF AppendEquity
    <2>2. ASSUME NEW s \in Held(book), inHours, ~missed
          PROVE  Cardinality({d \in wholeDays \cup {day} : d > entered[s]}) <= TimeStopDays + 1
      <3> DEFINE D == {d \in equityDays : d > entered[s]}
                 E == {d \in wholeDays \cup {day} : d > entered[s]}
      <3>1. IsFiniteSet(D) /\ Cardinality(D) \in Nat
        BY <1>1 DEF AgeInv
      <3>2. Cardinality(D) <= TimeStopDays
        BY <2>1, <2>2 DEF CountInv, Since
      <3>3. E \subseteq D \cup {day}
        BY DEF AgeInv
      <3> HIDE DEF D, E
      <3>4. /\ IsFiniteSet(D \cup {day})
            /\ Cardinality(D \cup {day}) <= Cardinality(D) + 1
            /\ Cardinality(D \cup {day}) \in Nat
        BY <3>1, FS_AddElement, FS_CardinalityType
      <3>5. Cardinality(E) <= Cardinality(D \cup {day}) /\ Cardinality(E) \in Nat
        BY <3>3, <3>4, FS_Subset, FS_CardinalityType
      <3>6. QED
        BY <1>0, <3>1, <3>2, <3>4, <3>5 DEF E
    <2>3. QED
      BY <2>1, <2>2 DEF CountInv, Since, Held
  <1>4. CASE UNCHANGED <<book, entered, wholeDays>> /\ at' # "saved"
    BY <1>4 DEF CountInv, Since, Held
  <1>5. CASE UNCHANGED <<book, entered, wholeDays, equityDays, at, inHours, missed>>
    BY <1>5 DEF CountInv, Since, Held
  <1>6. QED
    <2>1. ASSUME NEW buys, NEW sells, Judge(buys, sells) PROVE CountInv'
      BY <1>4, <2>1 DEF Judge, db, history
    <2>2. ASSUME NEW d, PassOver(d) PROVE CountInv'
      BY <1>4, <2>2 DEF PassOver, IsNext, Drop, db, history
    <2>3. ASSUME NEW d, NEW price, NEW c, NEW v, Order(d, price, c, v) PROVE CountInv'
      BY <1>4, <2>3 DEF Order, IsNext, Submit, db, history
    <2>4. Start \/ Record \/ SaveState \/ Fill \/ StepFails \/ Crash
            => UNCHANGED <<book, entered, wholeDays>> /\ at' # "saved"
      BY DEF Start, Record, SaveState, Fill, StepFails, Crash, Abort, db, history
    <2>5. NextDay \/ UNCHANGED vars
            => UNCHANGED <<book, entered, wholeDays, equityDays, at, inHours, missed>>
      BY DEF NextDay, vars, db, tick, history
    <2>6. QED
      BY <1>2, <1>3, <1>4, <1>5, <2>1, <2>2, <2>3, <2>4, <2>5 DEF Next

(* No position outlives its time stop by more than the one day on which it *)
(* is noticed, however often it is added to, for any number of days and    *)
(* of symbols.                                                             *)
THEOREM OldPositionsAreSold == Spec => []OldPositionsAreClosed
  <1>1. Init => AgeInv /\ CountInv
    BY DEF Init, AgeInv, CountInv, Held, NewBook, NoPosition
  <1>2. CountInv => OldPositionsAreClosed
    BY DEF CountInv, Since, OldPositionsAreClosed
  <1>3. QED
    BY <1>1, <1>2, AgeStep, CountStep, TickInvariant, PTL DEF Spec
=============================================================================
