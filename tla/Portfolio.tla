----------------------------- MODULE Portfolio -----------------------------
(***************************************************************************)
(* Ticks that trade the paper book, day after day: _execute_tick_locked    *)
(* with run_tick in DRY_RUN (app/api/tick.py, app/engine/pipeline.py) seen *)
(* from the money. Tick has what interleaves with a tick and its switches; *)
(* here the kill switch is off, one tick runs at a time and within a day,  *)
(* and prices, cash, cost and time decide what is sold and bought.         *)
(*                                                                         *)
(* The broker's prices are external: any mark and any close, each possibly *)
(* missing. A close is drawn when the order loop comes to its symbol.      *)
(***************************************************************************)
EXTENDS PaperBook, Sequences

CONSTANTS
    Prices,
    Vols,              \* volatilities of symbols and of the market
    Confidences,       \* of the judge, in parts of Whole
    DailyLossLimit, MaxDrawdownLimit, RearmDrawdown,     \* the breaker's
    LastDay, MaxTicks, MaxFailures                       \* bounds

ASSUME PortfolioAssumption ==
    /\ Prices \subseteq Nat \ {0}
    /\ Vols \subseteq Nat
    /\ Confidences \subseteq 0..Whole
    /\ LastDay \in Nat /\ MaxTicks \in Nat /\ MaxFailures \in Nat

Loss == INSTANCE Breaker

Days == 0..LastDay
Orders == [symbol : Symbols, side : Sides, qty : Nat, price : Prices, notional : Nat]
Decisions == [symbol : Symbols, side : Sides]
NoMarks == [s \in Symbols |-> Unknown]

VARIABLES
    day,
    book,          \* PaperStateRow, PaperPositionRow
    bought,        \* orders table: [Days -> buy_notional_today]
    equityDays,    \* PaperEquityRow: its trade dates
    breaker,       \* the process's circuit breaker
    savedBreaker,  \* EngineStateRow
    at,            \* step of the tick
    inHours,       \* now of the tick is within market hours
    marks,         \* live prices of the positions
    forced,        \* symbols to exit by rule
    regime,        \* volatility of the market proxy
    todo,          \* decisions not yet turned into orders
    dailyUsed,     \* daily_used of run_tick
    accepted,      \* the tick's DRY_RUN orders, in their order
    paper,         \* the book in memory, while it is filled
    missed,        \* history: a forced exit had no close to be priced by
    entered,       \* history: day since when a symbol has been in the book
    wholeDays,     \* history: days with a whole tick that could sell
    ticks, failures

db == <<book, bought, equityDays, savedBreaker>>
tick == <<inHours, marks, forced, regime, todo, dailyUsed, accepted, paper, missed>>
history == <<entered, wholeDays>>
bounds == <<ticks, failures>>
vars == <<day, db, breaker, at, tick, history, bounds>>

Init ==
    /\ day = 0
    /\ book = NewBook
    /\ bought = [d \in Days |-> 0] /\ equityDays = {} /\ savedBreaker = Unknown
    /\ breaker = Loss!FreshBreaker
    /\ at = "idle"
    /\ inHours = FALSE /\ marks = NoMarks /\ forced = {} /\ regime = Unknown
    /\ todo = {} /\ dailyUsed = 0 /\ accepted = <<>> /\ paper = NewBook /\ missed = FALSE
    /\ entered = NoMarks /\ wholeDays = {}
    /\ ticks = 0 /\ failures = 0
-----------------------------------------------------------------------------
(* The locals of a tick are gone when it ends.                             *)
Forgotten ==
    /\ inHours' = FALSE /\ marks' = NoMarks /\ forced' = {} /\ regime' = Unknown
    /\ todo' = {} /\ dailyUsed' = 0 /\ accepted' = <<>> /\ paper' = NewBook
    /\ missed' = FALSE

(* One batch of prices: of each position, or of none when the call fails.  *)
MarksOf(held) ==
    {[s \in Symbols |-> IF s \in held THEN m[s] ELSE Unknown] :
        m \in [Symbols -> Prices \cup {Unknown}]}

DueExits(m) == ForcedExits(book, m, equityDays)

(* Load the book, mark it and apply the exit rules.                        *)
Start ==
    /\ at = "idle" /\ at' = "judging"
    /\ ticks < MaxTicks /\ ticks' = ticks + 1
    /\ inHours' \in BOOLEAN
    /\ marks' \in MarksOf(Held(book))
    /\ forced' = DueExits(marks')
    /\ dailyUsed' = bought[day]
    /\ accepted' = <<>> /\ missed' = FALSE /\ todo' = {} /\ paper' = book
    /\ regime' = Unknown
    /\ UNCHANGED <<day, db, breaker, history, failures>>

(* The synthetic holdings say nothing of the day's profit or loss.         *)
Assessed == Loss!Assess(breaker, Equity(book, marks), Unknown, day)

On(symbols, side) == {[symbol |-> s, side |-> side] : s \in symbols}

JudgedWithForced == Symbols
Judged == Symbols \ forced

(* Exits by rule, and what the judge decided of the other symbols.         *)
Judge(buys, sells) ==
    /\ at = "judging" /\ at' = "ordering"
    /\ buys \subseteq Judged
    /\ sells \subseteq (Held(book) \cap Judged) \ buys
    /\ breaker' = Assessed
    /\ regime' \in Vols \cup {Unknown}
    /\ todo' = On(forced \cup sells, "SELL") \cup On(buys, "BUY")
    /\ UNCHANGED <<day, db, inHours, marks, forced, dailyUsed, accepted, paper, missed,
                   history, bounds>>
-----------------------------------------------------------------------------
(* The order loop: exits by rule, then candidates, then other holdings.    *)
Rank(d) == CASE d.side = "SELL" /\ d.symbol \in forced -> 0
             [] d.symbol \notin Held(book) -> 1
             [] OTHER -> 2

IsNext(d) ==
    /\ at = "ordering"
    /\ d \in todo
    /\ \A e \in todo : Rank(d) <= Rank(e)

Quantity(d, price, confidence) ==
    IF IsBuy(d)
    THEN BuyQuantity(book.cash, Equity(book, marks), book.pos[d.symbol].qty, price,
                     confidence, RegimeMultiplier(regime))
    ELSE book.pos[d.symbol].qty

OrderOf(d, price, qty) ==
    [symbol |-> d.symbol, side |-> d.side, qty |-> qty, price |-> price,
     notional |-> Money(qty, price)]

Context(o) ==
    [inHours |-> inHours, killSwitch |-> FALSE, breakerHalt |-> Loss!Tripped(breaker),
     held |-> Held(book), dailyUsed |-> dailyUsed, portfolio |-> Equity(book, marks),
     symbolValue |-> Money(book.pos[o.symbol].qty, o.price)]

(* No close, closed by the cost gate, or less than one share.              *)
Drop(d) ==
    /\ todo' = todo \ {d}
    /\ missed' = (missed \/ d.symbol \in forced)
    /\ UNCHANGED <<day, db, breaker, at, inHours, marks, forced, regime, dailyUsed,
                   accepted, paper, history, bounds>>

PassOver(d) == IsNext(d) /\ Drop(d)

(* Refused by a guardrail, or accepted as DRY_RUN.                         *)
Submit(d, price, qty) ==
    LET o == OrderOf(d, price, qty)
        refused == Violates(o, Context(o))
    IN  /\ qty >= 1
        /\ todo' = todo \ {d}
        /\ accepted' = IF refused THEN accepted ELSE Append(accepted, o)
        /\ dailyUsed' = IF IsBuy(o) /\ ~refused THEN dailyUsed + o.notional ELSE dailyUsed
        /\ UNCHANGED <<day, db, breaker, at, inHours, marks, forced, regime, paper, missed,
                       history, bounds>>

Order(d, price, confidence, vol) ==
    /\ IsNext(d)
    /\ IsBuy(d) => GatePasses(confidence, vol)
    /\ Submit(d, price, Quantity(d, price, confidence))
-----------------------------------------------------------------------------
AcceptedBuys == {i \in DOMAIN accepted : IsBuy(accepted[i])}
BoughtNow == SumFunctionOnSet([i \in DOMAIN accepted |-> accepted[i].notional], AcceptedBuys)

(* repo.record_tick; the locals of run_tick are gone.                      *)
Record ==
    /\ at = "ordering" /\ todo = {} /\ at' = "recorded"
    /\ bought' = [bought EXCEPT ![day] = @ + BoughtNow]
    /\ regime' = Unknown /\ dailyUsed' = 0
    /\ UNCHANGED <<day, book, equityDays, savedBreaker, breaker, inHours, marks, forced,
                   todo, accepted, paper, missed, history, bounds>>

(* repo.save_engine_state                                                  *)
SaveState ==
    /\ at = "recorded" /\ at' = "filling"
    /\ savedBreaker' = breaker
    /\ UNCHANGED <<day, book, bought, equityDays, breaker, tick, history, bounds>>

Fill ==
    /\ at = "filling" /\ accepted # <<>>
    /\ paper' = ApplyFill(paper, Head(accepted), day)
    /\ accepted' = Tail(accepted)
    /\ UNCHANGED <<day, db, breaker, at, inHours, marks, forced, regime, todo, dailyUsed,
                   missed, history, bounds>>

Entered == [s \in Symbols |-> IF paper.pos[s].qty = 0 THEN Unknown
                               ELSE IF book.pos[s].qty = 0 THEN day ELSE entered[s]]

(* repo.save_paper                                                         *)
SaveBook ==
    /\ at = "filling" /\ accepted = <<>> /\ at' = "saved"
    /\ book' = paper
    /\ entered' = Entered
    /\ UNCHANGED <<day, bought, equityDays, savedBreaker, breaker, tick, wholeDays, bounds>>

(* repo.append_paper_equity                                                *)
AppendEquity ==
    /\ at = "saved" /\ at' = "idle"
    /\ equityDays' = equityDays \cup {day}
    /\ wholeDays' = IF inHours /\ ~missed THEN wholeDays \cup {day} ELSE wholeDays
    /\ Forgotten
    /\ UNCHANGED <<day, book, bought, savedBreaker, breaker, entered, bounds>>

(* A step of the tick raises; the book in memory is gone.                  *)
Abort ==
    /\ at # "idle" /\ at' = "idle"
    /\ todo = {}
    /\ failures < MaxFailures /\ failures' = failures + 1
    /\ Forgotten

StepFails ==
    /\ Abort
    /\ UNCHANGED <<day, db, breaker, history, ticks>>

Crash ==
    /\ Abort
    /\ breaker' = Loss!Restored(savedBreaker)
    /\ UNCHANGED <<day, db, history, ticks>>

NextDay ==
    /\ at = "idle"
    /\ day < LastDay /\ day' = day + 1
    /\ UNCHANGED <<db, breaker, at, tick, history, bounds>>

Next ==
    \/ Start
    \/ \E buys, sells \in SUBSET Symbols : Judge(buys, sells)
    \/ \E d \in todo : PassOver(d)
    \/ \E d \in todo, price \in Prices, c \in Confidences, v \in Vols : Order(d, price, c, v)
    \/ Record \/ SaveState \/ Fill \/ SaveBook \/ AppendEquity
    \/ StepFails \/ Crash \/ NextDay

Spec == Init /\ [][Next]_vars
-----------------------------------------------------------------------------
(* What a tick keeps, and paper.py:73: cash is never overdrawn, however    *)
(* many buys one tick sized by the same cash.                              *)
TypeOK ==
    /\ day \in Days
    /\ book \in Book /\ paper \in Book
    /\ bought \in [Days -> Nat] /\ equityDays \subseteq Days
    /\ breaker \in Loss!BreakerState /\ savedBreaker \in Loss!BreakerState \cup {Unknown}
    /\ at \in {"idle", "judging", "ordering", "recorded", "filling", "saved"}
    /\ inHours \in BOOLEAN
    /\ marks \in [Symbols -> Prices \cup {Unknown}]
    /\ forced \subseteq Symbols
    /\ regime \in Vols \cup {Unknown}
    /\ todo \subseteq Decisions
    /\ dailyUsed \in Nat
    /\ accepted \in Seq(Orders)
    /\ missed \in BOOLEAN /\ entered \in [Symbols -> Days \cup {Unknown}] /\ wholeDays \subseteq Days
    /\ ticks \in 0..MaxTicks /\ failures \in 0..MaxFailures

(* paper.py:12, profit is taken net: cash and what the positions cost are  *)
(* always the seed and the profit realized so far, fees of both ways and   *)
(* the tax included.                                                       *)
BooksBalance == book.cash + Invested(book) = Seed + book.realized

(* exits.py:4, exits by rule: when a whole tick within market hours has    *)
(* saved its book, no position is left that was due for exit when it began,*)
(* the circuit breaker and the judge notwithstanding, unless a due one had *)
(* no close to be sold at.                                                 *)
DueExitsLeaveTheBook ==
    [][at' = "saved" /\ at # "saved" /\ inHours /\ ~missed
         => Held(book') \cap DueExits(marks) = {}]_vars

(* exits.py:9, the time stop: no position outlives TimeStopDays + 1 whole  *)
(* trading days after the one it was opened on, whatever is bought to it   *)
(* meanwhile.                                                              *)
OldPositionsAreClosed ==
    \A s \in Held(book) :
        Cardinality({d \in wholeDays : d > entered[s]}) <= TimeStopDays + 1

(* allocator.py:8, orders are sized within the limits that the guardrails  *)
(* enforce: whatever the close, confidence and regime, no buy that allocate*)
(* proposes is one the order or weight limit refuses.                      *)
OrdersFitTheLimits ==
    at = "ordering" =>
        \A d \in todo, price \in Prices, c \in Confidences :
            LET o == OrderOf(d, price, Quantity(d, price, c))
            IN  o.qty >= 1 => /\ ~PerOrderMaxExceeded(o)
                              /\ ~PerSymbolWeightExceeded(o, Context(o))
=============================================================================
