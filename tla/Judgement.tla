----------------------------- MODULE Judgement -----------------------------
(***************************************************************************)
(* How a tick finds the symbols to judge, researches and judges them       *)
(* (app/engine/pipeline.py, universe.py, screener.py, research.py, llm.py) *)
(* and what that costs: the caches of candles and research notes           *)
(* (app/toss/caching.py, research.py) and the cap on the judge's decisions *)
(* of a day (app/api/tick.py). Tick has the orders that follow; here they  *)
(* are the time until the tick is recorded. One tick runs at a time        *)
(* (TickLock).                                                             *)
(*                                                                         *)
(* External: the account, the stock master, candles, warnings, and the two *)
(* models, which answer anything or fail. Time is a number of hours.       *)
(***************************************************************************)
EXTENDS Integers, FiniteSets, Sequences

CONSTANTS
    Symbols, Unknown,
    Findings,                    \* what a tick can find of a symbol: is it on the
                                 \* watchlist, its record of the stock master, the
                                 \* figures of its candles, has it a warning
    ExcludedTypes,               \* UniverseConfig
    MinHistory, MinClose, MinVolume, Overbought,             \* ScreenConfig
    JudgeTop, ResearchTop, MaxContinuations,
    Cap,                         \* daily_llm_decision_cap
    Ttl, HeldTtl,                \* of the research cache
    CandleTtl,                   \* of the candle cache
    HoursPerDay,
    LastHour, MaxTicks, MaxFailures                          \* bounds

Maybe(S) == S \cup {Unknown}

(* Stock, and ScreenIndicators with the number of candles.                 *)
StockRecord == [common : Maybe(BOOLEAN), leveraged : BOOLEAN, active : Maybe(BOOLEAN),
                liquidation : BOOLEAN, suspended : BOOLEAN, type : STRING, named : STRING]
Quote == [history : Nat, close : Nat, volume : Nat, sma : Maybe(Nat), rsi : Maybe(0..100)]

ASSUME JudgementAssumption ==
    /\ Findings \subseteq [listed : BOOLEAN, stock : Maybe(StockRecord), quote : Quote,
                          warned : BOOLEAN]
    /\ IsFiniteSet(Symbols) /\ Unknown \notin Symbols \cup Int
    /\ JudgeTop \in Nat /\ ResearchTop \in Nat /\ MaxContinuations \in Nat
    /\ Cap \in Nat /\ {Ttl, HeldTtl, CandleTtl} \subseteq Nat \ {0}
    /\ HoursPerDay \in Nat \ {0}
    /\ LastHour \in Nat /\ MaxTicks \in Nat /\ MaxFailures \in Nat

Hours == 0..LastHour
DayOf(hour) == hour \div HoursPerDay
Days == {DayOf(h) : h \in Hours}

VARIABLES
    now,
    candles,     \* CandleCacheRow: fetched_at, or Unknown
    cache,       \* ResearchCacheRow: fetched_at, or Unknown
    decided,     \* DecisionRow: how many of each trade date
    at,          \* step of the tick
    date,        \* trade date of the tick
    llm,         \* judge and research of the tick are the models
    held,        \* symbols of the holdings
    forced,      \* of these, exits by rule
    screened,    \* when it got the candles
    queue,       \* judge_candidates, in their order
    next,        \* index in the queue
    turns,       \* continuations of the search under way
    sells,       \* symbols decided to be sold
    calls,       \* history: judge calls of each date
    failed,      \* history: ticks of each date that were not recorded
    notes,       \* history: notes saved of each symbol
    ticks, failures

db == <<candles, cache, decided>>
tick == <<date, llm, held, forced, screened, queue, next, turns, sells>>
history == <<calls, failed, notes>>
vars == <<now, db, at, tick, history, ticks, failures>>

Init ==
    /\ now = 0
    /\ candles = [s \in Symbols |-> Unknown] /\ cache = [s \in Symbols |-> Unknown]
    /\ decided = [d \in Days |-> 0]
    /\ at = "idle"
    /\ date = 0 /\ llm = FALSE /\ held = {} /\ forced = {} /\ screened = 0
    /\ queue = <<>> /\ next = 0 /\ turns = 0 /\ sells = {}
    /\ calls = [d \in Days |-> 0] /\ failed = [d \in Days |-> 0]
    /\ notes = [s \in Symbols |-> 0]
    /\ ticks = 0 /\ failures = 0
-----------------------------------------------------------------------------
(* The locals of a tick are gone when it ends.                             *)
Forgotten ==
    /\ date' = 0 /\ llm' = FALSE /\ held' = {} /\ forced' = {} /\ screened' = 0
    /\ queue' = <<>> /\ next' = 0 /\ turns' = 0 /\ sells' = {}

CappedLate == Cap > 0 /\ decided[DayOf(now)] > Cap
Capped == Cap > 0 /\ decided[DayOf(now)] >= Cap

Start(holding, exits) ==
    /\ at = "idle" /\ at' = "screening"
    /\ ticks < MaxTicks /\ ticks' = ticks + 1
    /\ exits \subseteq holding
    /\ date' = DayOf(now) /\ llm' = ~Capped
    /\ held' = holding /\ forced' = exits
    /\ UNCHANGED <<now, db, screened, queue, next, turns, sells, history, failures>>
-----------------------------------------------------------------------------
(* evaluate_stock: flags first; a name counts against a common share only  *)
(* when the flag is missing, against the excluded types in any case.       *)
Included(stock) ==
    /\ stock.common # FALSE
    /\ ~stock.leveraged
    /\ stock.active # FALSE
    /\ ~stock.liquidation /\ ~stock.suspended
    /\ stock.type \notin ExcludedTypes
    /\ ~(stock.common = Unknown /\ stock.named = "preferred")
    /\ stock.named \notin {"SPAC", "ETN"}

(* screen_symbol; an average or RSI is unknown when the history is short.  *)
Passes(quote) ==
    /\ quote.history >= MinHistory
    /\ quote.close >= MinClose
    /\ quote.volume >= MinVolume
    /\ quote.sma = Unknown \/ quote.close >= quote.sma
    /\ quote.rsi = Unknown \/ quote.rsi <= Overbought

OnMaster(found) ==
    {s \in Symbols : /\ found[s].listed \/ s \in held
                     /\ found[s].stock # Unknown
                     /\ Included(found[s].stock)}

EligibleByMaster(found) == OnMaster(found)
Eligible(found) == OnMaster(found) \cup held

(* The best JudgeTop of what passes, but for those with a warning.         *)
BuyCandidates(passing) ==
    IF Cardinality(passing) <= JudgeTop THEN {passing}
    ELSE {best \in SUBSET passing : Cardinality(best) = JudgeTop}

InAnyOrder(S) == {q \in [1..Cardinality(S) -> S] : \A i, j \in DOMAIN q : q[i] = q[j] => i = j}

(* CachingToss.get_candles, save_cached_candles, for each symbol of S.     *)
Fetched(S) ==
    [s \in Symbols |-> IF s \notin S \/ (candles[s] # Unknown /\ now - candles[s] < CandleTtl)
                     THEN candles[s] ELSE now]

Screen(found) ==
    LET eligible == Eligible(found)
        passing == {s \in eligible \ held : Passes(found[s].quote)}
        warned == {s \in Symbols : found[s].warned}
    IN  /\ at = "screening" /\ at' = "researching"
        /\ candles' = Fetched(eligible) /\ screened' = now
        /\ \E best \in BuyCandidates(passing) :
             \E buys \in InAnyOrder(best \ warned), holdings \in InAnyOrder(held \ forced) :
                queue' = buys \o holdings
        /\ next' = 1 /\ sells' = forced
        /\ UNCHANGED <<now, cache, decided, date, llm, held, forced, turns, history, ticks,
                       failures>>
-----------------------------------------------------------------------------
(* research_candidates: the first of the queue, one after the other.       *)
Current == queue[next]
ToResearch ==
    /\ at = "researching"
    /\ llm
    /\ next <= Len(queue) /\ next <= ResearchTop

TtlOf(s) == IF s \in held THEN HeldTtl ELSE Ttl
Fresh(s) == cache[s] # Unknown /\ now - cache[s] < TtlOf(s)

(* CachingResearch.research                                                *)
ReadNote ==
    /\ ToResearch
    /\ Fresh(Current)
    /\ next' = next + 1
    /\ UNCHANGED <<now, db, at, date, llm, held, forced, screened, queue, turns, sells,
                   history, ticks, failures>>

Search ==
    /\ ToResearch
    /\ ~Fresh(Current)
    /\ at' = "searching" /\ turns' = 0
    /\ UNCHANGED <<now, db, date, llm, held, forced, screened, queue, next, sells,
                   history, ticks, failures>>

(* A turn that pauses is continued, up to a limit; whatever there is then  *)
(* is the note, and a text stands for an empty one.                        *)
Continue ==
    /\ at = "searching"
    /\ turns < MaxContinuations /\ turns' = turns + 1
    /\ UNCHANGED <<now, db, at, date, llm, held, forced, screened, queue, next, sells,
                   history, ticks, failures>>

FirstTimeKept(s) == IF cache[s] = Unknown THEN now ELSE cache[s]
FetchedAt(s) == now

(* save_cached_research                                                    *)
SaveNote ==
    /\ at = "searching" /\ at' = "researching"
    /\ cache' = [cache EXCEPT ![Current] = FetchedAt(Current)]
    /\ notes' = [notes EXCEPT ![Current] = @ + 1]
    /\ next' = next + 1 /\ turns' = 0
    /\ UNCHANGED <<now, candles, decided, date, llm, held, forced, screened, queue, sells,
                   calls, failed, ticks, failures>>

Researched ==
    /\ at = "researching"
    /\ ~ToResearch
    /\ at' = "judging" /\ next' = 1
    /\ UNCHANGED <<now, db, date, llm, held, forced, screened, queue, turns, sells,
                   history, ticks, failures>>
-----------------------------------------------------------------------------
Actions == {"BUY", "SELL", "HOLD"}

(* A sale of what is not held is a HOLD.                                   *)
AsAnswered(s, action) == action
Normalized(s, action) == IF action = "SELL" /\ s \notin held THEN "HOLD" ELSE action

(* DeterministicJudge: what is held is kept.                               *)
Fallback(s) == IF s \in held THEN {"HOLD"} ELSE {"BUY", "HOLD"}
Verdicts(s) == IF llm THEN {Normalized(s, a) : a \in Actions} ELSE Fallback(s)

Called == IF llm THEN [calls EXCEPT ![date] = @ + 1] ELSE calls

Decide(action) ==
    /\ at = "judging" /\ next <= Len(queue)
    /\ action \in Verdicts(Current)
    /\ sells' = IF action = "SELL" THEN sells \cup {Current} ELSE sells
    /\ calls' = Called
    /\ next' = next + 1
    /\ UNCHANGED <<now, db, at, date, llm, held, forced, screened, queue, turns,
                   failed, notes, ticks, failures>>

(* record_tick, when every candidate is judged; what fails after it leaves *)
(* the decisions.                                                          *)
Record ==
    /\ at = "judging" /\ next > Len(queue)
    /\ at' = "idle"
    /\ decided' = [decided EXCEPT ![date] = @ + Cardinality(forced) + Len(queue)]
    /\ Forgotten
    /\ UNCHANGED <<now, candles, cache, history, ticks, failures>>

(* The tick raises, or the process crashes, before its record.             *)
Aborted ==
    /\ at # "idle" /\ at' = "idle"
    /\ failures < MaxFailures /\ failures' = failures + 1
    /\ failed' = [failed EXCEPT ![date] = @ + 1]
    /\ Forgotten

StepFails ==
    /\ Aborted
    /\ UNCHANGED <<now, db, calls, notes, ticks>>

(* Candles that cannot be had fail the tick; those fetched before stay.    *)
CandlesFail(found, before) ==
    /\ at = "screening"
    /\ before \subseteq Eligible(found) /\ before # Eligible(found)
    /\ candles' = Fetched(before)
    /\ Aborted
    /\ UNCHANGED <<now, cache, decided, calls, notes, ticks>>

(* A refusal, an answer without text or one that does not parse.           *)
JudgeFails ==
    /\ at = "judging" /\ next <= Len(queue) /\ llm
    /\ calls' = Called
    /\ Aborted
    /\ UNCHANGED <<now, db, notes, ticks>>

Hour ==
    /\ now < LastHour /\ now' = now + 1
    /\ UNCHANGED <<db, at, tick, history, ticks, failures>>

Next ==
    \/ \E holding, exits \in SUBSET Symbols : Start(holding, exits)
    \/ \E found \in [Symbols -> Findings] :
          \/ Screen(found)
          \/ \E before \in SUBSET Symbols : CandlesFail(found, before)
    \/ ReadNote \/ Search \/ Continue \/ SaveNote \/ Researched
    \/ \E action \in Actions : Decide(action)
    \/ Record \/ StepFails \/ JudgeFails \/ Hour

Spec == Init /\ [][Next]_vars
-----------------------------------------------------------------------------
(* What a tick keeps. llm.py:188, nothing is sold that is not held: a tick *)
(* sells of its holdings only, exits by rule among them.                   *)
TypeOK ==
    /\ now \in Hours
    /\ candles \in [Symbols -> Maybe(Hours)] /\ cache \in [Symbols -> Maybe(Hours)]
    /\ decided \in [Days -> Nat]
    /\ at \in {"idle", "screening", "researching", "searching", "judging"}
    /\ date \in Days /\ llm \in BOOLEAN
    /\ forced \subseteq held /\ held \subseteq Symbols
    /\ screened \in Hours /\ queue \in Seq(Symbols)
    /\ next \in 0..(Len(queue) + 1) /\ turns \in 0..MaxContinuations
    /\ sells \subseteq held
    /\ calls \in [Days -> Nat] /\ failed \in [Days -> Nat] /\ notes \in [Symbols -> Nat]
    /\ ticks \in 0..MaxTicks /\ failures \in 0..MaxFailures

(* settings.py:54, the daily cap: a day's calls of the judge exceed it by  *)
(* less than one tick, and by one tick more for each tick that failed and  *)
(* left no record of its calls, even over midnight.                        *)
CallsStayNearTheCap ==
    Cap > 0 =>
        \A d \in Days :
            calls[d] <= Cap - 1 + (1 + failed[d]) * Cardinality(Symbols)

(* pipeline.py:7, holdings are judged whatever the stock master, the       *)
(* screener, the cut to the best and the warnings say: when a tick is to be*)
(* recorded, each one is an exit by rule or was judged; and its candles,   *)
(* by which a sale is priced unless the list is empty, were younger than   *)
(* the period of their cache.                                              *)
HoldingsAreJudged ==
    at = "judging" =>
        \A s \in held : /\ candles[s] # Unknown
                        /\ screened - candles[s] < CandleTtl
                        /\ s \in forced \/ \E i \in DOMAIN queue : queue[i] = s

(* research.py:115, no symbol is searched for many times a day: notes of   *)
(* one symbol are saved at least the shorter of the two periods apart, over*)
(* failing ticks, crashes, and changes of what is held.                    *)
SearchesAreSpaced ==
    \A s \in Symbols : notes[s] > 0 =>
        \/ (notes[s] - 1) * Ttl <= now
        \/ (notes[s] - 1) * HeldTtl <= now
=============================================================================
