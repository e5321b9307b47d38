# TLA+ models of the auto-trading server

Specifications of the trading core of `src/server/app` (Python, asyncio, FastAPI,
SQLAlchemy), TLC configurations that model-check them on small instances, and TLAPS
proofs of the properties that matter most for every value of the constants.
`PROJECT.json` lists, for every definition, the source lines it models, and the hazards
at the lines where they bite.

## 1. The system

A *tick* is one trading round: read the account, reconcile it with the records, assess
the loss breaker, choose symbols, ask the judge (an LLM) about each, close positions
that must be closed, size and submit orders, record everything. Ticks are started by
`POST /internal/tick` (an external scheduler) and by the server's own loop. Orders pass
`OrderService`, which lets one out to the broker only in LIVE mode.

### Components

| Component (under `src/server/app`) | State | Operations | Interacts with | What makes it correct |
|---|---|---|---|---|
| Circuit breaker `orders/circuit_breaker.py` | high-water mark, drawdown latch with hysteresis, daily-loss halt and its date | assess, reset, dump/restore | assessed by the tick, read by the order service, kept in `engine_state` | a deep drawdown is halted whatever is saved or restarted; it opens only on a measured recovery |
| Guardrails `orders/guardrails.py`, `context.py` | none | seven checks of an order against a captured context | called by submit | sells stay open when buys are blocked; caps are not exceeded |
| Order service `orders/service.py` | mode, executor, kill switch, breaker, results per `clientOrderId` | submit, set_kill_switch | every caller of submit; the broker's `place()` | an order is sent at most once, only in a granted LIVE mode, past both switches |
| Mode and start `core/config.py`, `main.py` | mode | determine_trading_mode, lifespan | order service | LIVE needs both settings, a database and an executor |
| Engine state `db/repo.py` (`engine_state` row) | kill switch, breaker dump | save, load | tick, kill-switch and reset routes, reconciliation | a halt that was saved survives restarts |
| Tick lock `db/lock.py`, `api/tick.py` | an asyncio lock per process, an advisory lock per database | execute_tick | requests, the loop, PostgreSQL | one tick at a time; the lock comes free; each call is answered |
| Tick `api/tick.py`, `engine/pipeline.py` | candidates, decisions, orders of the tick; the orders table; the paper book | the steps from load to fill | nearly everything | daily cap, halts, paper book that matches the records |
| Reconciliation `orders/reconcile.py`, `reconcile_and_enforce` | position snapshots, orders since the last one | reconcile, enforce, advance the baseline | tick, `GET /api/reconcile`, the account | reports what the records do not explain, and only that; its halt stays |
| Universe `engine/symbols.py`, `engine/universe.py` | liquidity statistics, count of ticks | resolve_universe, evaluate_stock, upsert_symbol_stats | tick | the places are filled, exploration goes on, every symbol is asked for in the end |
| Paper book `engine/paper.py` | cash and positions, the equity curve | fills, marks, load, save | tick in DRY_RUN | cash is never overdrawn; cash and cost are the seed and what was realized |
| Exits, allocator, costs, regime `engine/exits.py`, `allocator.py`, `costs.py`, `regime.py` | none (pure) | exit_signal, allocate, EntryGate, assess_regime | tick | due positions leave the book; no order is sized past its limits |
| Screener, indicators, candle cache `engine/screener.py`, `indicators.py`, `toss/caching.py` | cached candles | screen_symbol, get_candles | tick | holdings are never screened out; candles are fresh |
| LLM judge and research `engine/llm.py`, `research.py` | the cache of notes, the count of decisions of a day | decide_candidates, research_candidates | tick | the cost of a day is bounded; a symbol is not searched for again and again; what is not held is not sold |
| Broker client `toss/client.py` | token and its lock, the account number | requests with retries, one renewal on 401 | tick, routes, scripts | renewals are shared; one retry is enough; every request ends |
| Reports `engine/report.py`, `api/report.py` | the log of reports | scheduled_report, POST report, GET reports | tick loop, the rows ticks leave | no tick falls between two reports; each day is reported in the end |
| News `news/*.py` | collected news | collect, align | backtests | no page is left out |
| Evaluation, replay, stress, calibration `engine/*.py` | none | offline measurements | scripts | reproducible |
| Sandbox broker, routes, dashboard, auth, notifications, settings, calendar, scripts, infrastructure | little | thin | | |

### What is hard here

* **Interleavings.** Handlers and the tick are coroutines of one event loop: whatever
  is read before an `await` may be stale after it. The `engine_state` row is saved by
  four different coroutines, each with arguments of the time of its call. Processes share nothing but the database.
* **Captured context.** The guardrail context is captured once per tick; market hours
  and the trade date are those of its start.
* **Crashes and failing steps** between the orders, the orders table, the engine
  state and the paper book, each of which is a transaction of its own; a lost
  connection of the advisory lock; a `place()` that raises after the broker took the
  order; a save of the paper book without its day in the equity curve.
* **Missing data.** A mark, a close, a volatility, a stock record or an average may be
  unknown, and each rule says what that means in its own way.
* **Money decided before it is spent.** All buys of a tick are sized by the cash, the
  equity and the holdings of its start, and filled one after the other at its end.
* **Long sequences** that reach a bad state through legal calls: resets of the breaker,
  rotating windows over a list that changes; shares added to a position that is to be
  closed after some days; reports forced on the same period.
* **Boundaries**: midnight, equal to a limit, equity of zero, an unknown cost.

## 2. The modules

| Module | Models | Composition |
|---|---|---|
| `Breaker` | assess, reset, restore as operators on a record | pure |
| `CircuitBreaker` | the breaker over ticks, saves, restarts, resets | extends `Breaker` |
| `Guardrails` | the seven guards, the mode gate, determine_trading_mode | pure |
| `OrderGate` | abstract: an id is decided once, and let out at most once | the promise |
| `OrderService` | submit with its ledger, both switches, any caller | extends `Guardrails`, implements `OrderGate` |
| `StateRegister` | abstract: a save stores what it was called with, at once | the promise to callers that take turns |
| `EngineState` | save_engine_state and load, statement by statement | implements `StateRegister` while saves do not overlap |
| `TickMutex` | abstract: a tick begins only while no other has a claim to run alone | the promise |
| `TickLock` | execute_tick's two locks, over processes | implements `TickMutex` |
| `Tick` | ticks, operator requests, crashes and midnight | extends `Guardrails` |
| `Reconcile` | snapshots, orders, executions, tick and manual check | |
| `Universe` | resolve_universe and the statistics that feed it | |
| `PaperBook` | fills, marks, exits, sizing, gate and regime as operators on a book | pure, extends `Guardrails` |
| `Portfolio` | ticks that trade a paper book, over days, failing steps and crashes | extends `PaperBook`, instantiates `Breaker` |
| `Judgement` | what a tick screens, researches and judges; caches and the daily cap | |
| `TossClient` | requests of concurrent callers over one token and its lock | |
| `Reports` | requests for reports beside ticks, over holidays, failures and crashes | |
| `Broker_proof` | theorems on the way to the broker | extends `OrderService`, `TossClient` |
| `SharedState_proof` | theorems on what goes through the database | extends `EngineState`, `TickLock` |
| `Halts_proof` | theorems on the two automatic halts | extends `CircuitBreaker`, `Reconcile`, `Sums` |
| `Sums` | laws of the community modules' sums over finite sets | pure, for proofs |
| `Selection_proof` | theorems on what a tick looks at | extends `Judgement`, `Universe` |
| `Tick_proof`, `Portfolio_proof`, `Reports_proof` | theorems on the module before the underscore | extend it |
| `MC*` | values for TLC | extend the module |

Components whose theorems share a module have names of their own for `Init`, `Next`,
`Spec` and the type invariant: `LockSpec` in `TickLock`, `ReconcileSpec` in `Reconcile`,
`ClientSpec` in `TossClient`, `UniverseSpec` in `Universe`.

How state and actions correspond to the code:

* **Breaker / CircuitBreaker.** `hwm`, `drawdown`, `drawdownHalt`, `dailyHalt`,
  `dailyHaltDate` are the fields of `CircuitBreaker`. A drawdown is the fraction
  lost / of, compared exactly as `Decimal` does. `TickAssess` is `assess` with any
  equity and rate (or none), `Save` and `Restart` go through the dump. History
  variables keep the equity curve independently, with a durable copy, as the reference
  the latch is compared with.
* **Guardrails / OrderService.** `Violates` says whether an order breaks any of the guards.
  `submit` is four actions: duplicate, rejected by guards, kept in (DRY_RUN), sent. It
  has no await before `place()`, hence each is one step. `seen` is the
  status remembered for each `clientOrderId`, `ledger` the final results in order; `calls`
  and `executed` are what the broker saw. A `place()` that raises leaves FAILED whether
  or not the broker executed the order.
* **EngineState.** A save is `Call` (arguments are evaluated), `Read` (the row as
  found), `Commit` (an UPDATE of the columns that differ from the row read, or an
  INSERT); `DatabaseFails` ends it anywhere, `CrashAndRestart` loses memory and loads
  the row. The saver of a tick takes the arguments at its end. For `StateRegister` the
  pending save is the arguments of the one in flight.
* **TickLock.** `at` says where each call is in `execute_tick`; `local` is the
  asyncio.Lock, `session` the database session that holds the advisory key. `Disconnect`
  drops the connection under a running tick; `SessionEnds` is PostgreSQL noticing.
  `ImplementsMutex` maps it to `TickMutex`: what runs is what is past both locks, and its
  claim is the connection that holds the key.
  Whatever shares a database is an instance: the key is one per database, so a
  sandbox deployment on the same database waits for production ticks too.
* **Tick.** `Start`, `Load`, `Reconcile`, `OpenBook`, `Assess`, `Judge`, one of
  `PassOver`, `SubmitRefused` and `SubmitAccepted` per decision, `Record`, `Fill`; any
  step may fail (`StepFails`, `JudgeFails`) or the process crash (`Crash`).
  `SetKillSwitch`, `ResetBreaker` and `ManualReconcile` are handlers that run where the
  tick awaits, which the order loop never does; `Clock` moves at any time.
* **Reconcile.** `Fetch`, `Load`, then `CreateBaseline`, `Consistent` or `Mismatched`,
  then `Tolerate` or `Engage` and `Halt` (with its save), `Advance`; the tick goes on
  with `Send`, `Record`, `SaveState`. The account executes orders late, never, or though
  `place()` raised, and the owner trades in it by hand; a trail in each snapshot
  remembers, for the properties only, which of these it reflects.
* **Universe.** `Choose` is `resolve_universe` (watchlist, pool of the most liquid
  rotated, stale ones rotated, seeds as a fallback), `RecordTick` counts the tick, `Upsert`
  stores what was measured, in the order of the code. `Evaluated` is what a tick asks
  candles for: its universe without what is screened out, and its holdings in any case;
  those with an empty list of candles are not stored. `Kept` is the filter of a list
  comprehension: the element at place k of the result is the one of rank k among the
  places that are kept, which says what a recursive filter does and can be proved about.
* **PaperBook / Portfolio.** `book` is the saved `PaperStateRow` with its positions,
  `paper` the one in memory that a tick fills; `equityDays` are the trade dates of the
  equity curve, `bought` the sum of accepted buys of each day. `Start` loads the book,
  marks it and applies the exit rules; `Judge` assesses the breaker and takes any
  verdict; `Order` and `PassOver` are the order loop in its order (forced exits,
  candidates, holdings), with gate, sizing and guardrails; then `Record`, `SaveState`,
  one `Fill` per order, `SaveBook`, `AppendEquity`. Any price, close or volatility may be
  missing. A position keeps its cost in all, of which `avg_cost` is the share, so that
  the arithmetic stays in integers, as exact as the code's `Decimal`.
* **Judgement.** `Screen` is the whole choice from master record, candles, screener and
  warnings to the queue; `ReadNote`, `Search`, `Continue`, `SaveNote` are
  `research_candidates` over the cache; `Decide` is one verdict, `Record` the end. A
  tick that raises (`CandlesFail`, `JudgeFails`, `StepFails`) leaves the caches and
  no decisions. A symbol is described by a finding: what master, candles and warnings
  say of it at that tick.
* **TossClient.** `req[c]` is the frame of a caller: waiting for the token lock, fetching a
  token, or sending; `outer` is the frame below it while `get_accounts` runs for another
  request. That nested request looks for a token of its own: it finds the one at hand, or,
  if the token was issued with less time left than the margin, fetches another, behind
  those who wait; the outer one keeps its own. `Refused` is a 401, `RenewAndRetry` its single retry, `SendAgain` the retry of
  a transport error, 429 or 5xx. `Age` and `Drop` are the two ends of a token: near its
  expiry in the client, no longer accepted at the broker.
* **Reports.** A request is `LoadEquity`, `LoadLast`, `LoadActivity` and `Insert`, each a
  transaction of its own; a tick is `RecordTick` and `AppendEquity`. The report's text is
  the set of ticks it tells of.

## 3. The runs

Passing runs:

| Run | Shows | Bounds and why they are enough |
|---|---|---|
| `circuit_breaker` | The halt equals what the equity curve demands (`HaltFollowsEquityCurve`), a daily halt is of its day, a deep drawdown is halted, the latch opens only on evidence | default limits; equities on and between the limits, zero and unknown; curves of 4, 2 days, one restart: enough to trip, stay within the hysteresis, recover and start over |
| `order_service` | Sent at most once and only in a granted LIVE mode; what the broker executed is in the ledger; switches bind callers with old contexts; `OrderGate` is implemented | two ids, costs and contexts on and beside each limit |
| `engine_state` | A sealed kill switch (saved, no older save in flight) is durable; a settled state is saved in the end | the tick and two requests, two dumps, one failure: three saves overlap in every order |
| `tick_lock` | `TickMutex` is implemented; ticks are serial unless a connection is lost; the key always has an owner and comes free; every call is answered | two processes of two calls and one break (a lost connection, a failing statement, or a crash) |
| `tick` | Accepted buys of a day stay within the cap; a halted tick trades nothing; the book holds nothing that was never recorded | two interchangeable symbols, buys of 1 to 3 against a cap of 3, two days, one failure or crash: a tick can reach the cap, two can meet at it, and a buy can fit on one side of midnight only |
| `reconcile` | A check reports exactly the symbols whose change the recorded orders do not explain; an absorbed mismatch leaves its halt | one symbol, two orders, one trade by hand, one failure or crash, tick and manual check interleaved: symbols do not interact, and two orders put a recorded one before and a lost one after a baseline |
| `universe` | What is screened out enters the statistics only while it is held; the universe starts with the watchlist, repeats nothing, leaves no place empty that a seed could fill and is as long as the limit or the watchlist allows; it explores while the watchlist leaves exploration a place; without a watchlist every eligible symbol is asked for in the end | four seeds, two or three screened out, one of these held now and then, limit 3, pool 2, one failing tick; a watchlist that is empty, leaves exploration a place, or is as long as the limit and pushes the universe beyond it |
| `portfolio` | Cash and cost balance with what was realized, and cash is never overdrawn (`BooksBalance`, `TypeOK`); due exits leave the book past judge and breaker; no position outlives the time stop; `allocate` fits the guardrails' limits | two symbols, prices 8 and 12 (a third apart, past the stop loss of 30 %), cash for three shares, three days, three ticks, one failure: buy, add to the position, lose, be halted, sell; two buys of one tick can cost more than the cash |
| `toss_client` | Renewals are shared; a request is refused for good only if another token was dropped; every request ends | two callers, one retry of a send, two dropped tokens, two that come near their expiry, at once or later: a late 401 clears a new token, the nested request for the account number is refused within a request that was, or has to fetch a token again behind a caller who waits |
| `judgement` | Calls of a day stay within a tick of the cap; holdings are always judged, on fresh candles; searches for a symbol are spaced; sales are of holdings | two interchangeable symbols with eight findings, a cap of 2, days of two hours, three ticks, one failure: a tick crosses midnight or the cap, and a symbol is bought or sold within a cache's period |
| `reports` | No tick falls between two reports; each day of the curve is covered by a listed report | four days with two holidays, two ticks, the loop beside one POST, two forced reports, one failure: a tick spans a report, two requests overlap, and a holiday is missed |

The run that finds a disagreement between the code and what its documents say:

| Run | The code does |
|---|---|
| `lost_kill` | The save of a `POST /api/kill-switch` that releases the switch has been called with False; the reconciliation of a tick engages the switch on a mismatch and saves it; the first save reads the row only now, finds a column that differs, and takes the switch back in the row, while memory has it engaged. The finding in `PROJECT.json` quotes the text. |

The type invariants of `CircuitBreaker`, `OrderService`, `EngineState`, `TickLock`, `Tick`,
`Reconcile` and `TossClient`, and `TickLock`'s `OneCallPerProcess`, are proved for every
value of the constants and no run repeats them.

Deadlock is checked in every run but `portfolio` and `judgement`: their ticks, hours and
days are bounded, and with the last of them there is nothing left to do. The others can
always go on.

### Known limits of the code

Met while modelling. They hold in the models as they do in the code, and the properties
are stated around them.

* A manual reset in a drawdown takes the next equity for the new peak
  (`circuit_breaker.py:101`); the comments at `circuit_breaker.py:98` and `routes.py:119`
  say that a reset cannot hide a loss. That is so for the daily loss only.
  `OpensOnlyOnEvidence` counts a reset as evidence.
* The number of open positions is captured before the order loop (`pipeline.py:216`), so
  that one tick can buy past `max_positions`. The same holds of a symbol's value.
* A judge that raises (`llm.py:97`) keeps the forced exits of its tick, already decided,
  from being ordered, although `exits.py:4` and `README.md:57` describe them as
  independent of the judge. `DueExitsLeaveTheBook` is about whole ticks.
* A watchlist takes its places from exploration, whose offset moves on as if it had not
  (`symbols.py:146`): some symbols may never be measured. `CoverageWithoutWatchlist`
  leaves watchlists out. A watchlist that reaches into the places of exploration also
  pushes the universe beyond `UNIVERSE_MAX_SYMBOLS`, which `README.md:161` calls an upper
  limit, up to its own length and the places of exploitation (`symbols.py:149`): the upper
  bound of `SlotsAreFilled`.
* A holding is evaluated although it is screened out (`pipeline.py:120`), and its average
  is stored. After its sale it stays in the pool and takes places of exploitation without
  being evaluated. `UniverseTypeOK` says that there is no other way into the statistics.
* A position without a mark is valued at its cost (`paper.py:117`): when prices fail in a
  drawdown, the equity looks recovered and may open the latch.
* The synthetic holdings of paper mode carry no `dailyProfitLoss` (`paper.py:146`): there
  the daily halt never comes on.
* Holdings come last in the queue of research (`pipeline.py:199`), of which only the first
  `research_top_n` are researched.
* Two overlapping requests can insert two reports of one period (`report.py:27`), and a
  forced one adds a third. A tick of a day that a report closed before the tick was
  recorded is in no later report, and one whose day is missing from the equity curve,
  because `append_paper_equity` failed, can be told of twice. `EveryTickIsReported` says
  which ticks are safe.
* The name rules of `universe.py:11` exclude a stock by SPAC or ETN in its name whatever
  its security type says.
* A mismatch found when the switch is on already is absorbed without a save of its own
  (`tick.py:65`), hence `AbsorbedMismatchIsKept` is stated for the tick that engaged it.

### Abstractions that a reader should know

* Money is a small integer, rates are whole percents or parts of a whole, a day is a
  number. A calendar is reduced to whether the captured `now` is in market hours. The
  staleness of that `now` during a long tick is a known limit of the code and is not
  modelled as time.
* `Tick` assumes a database: without one there are no orders to count and the cap is per
  tick. The guard on the weight of a symbol is in `OrderService` and `Portfolio` only,
  since `Tick` has no prices. What the judge, sizing and the breaker decide is a free
  choice in `Tick`.
* `Portfolio` has the kill switch off, one tick at a time, and each tick within a day:
  what interleaves with a tick is `Tick`'s subject. A close is drawn when the order loop
  comes to its symbol. The judge's verdicts are any set of buys and sales.
* Money in `PaperBook` is counted in units of which `Whole * Whole` make 1 KRW, so that
  slippage, commission and tax come out whole.
* `Judgement` reduces time to hours and a name to one of a few classes; averages and RSI
  are given, not computed. Its ticks end at the record: the orders are in `Tick` and
  `Portfolio`.
* `TossClient` leaves delays of retries out, since nothing depends on them, and reads the
  clock once from one await to the next; a broker drops a token only by itself, not by
  issuing another.
* `Reports` leaves files and notifications out: they are best effort, after the row, and
  their failures change nothing.
* `CircuitBreaker`, `Tick`, `Portfolio` and `Reconcile` treat a save of the engine state as
  one step; its interleavings are `EngineState`'s subject.
* `main.lifespan` never injects an executor, so that a deployed server always stays in
  DRY_RUN; `OrderService` has the executor as a parameter of its environment.
* `Universe` takes the holdings of a tick from a given set of sets and leaves what the
  screen excludes as it is (that what is excluded is in the statistics only if it was held
  presumes this: a stock that becomes excluded later stays in them). It breaks ties of the
  ADV in any way, and counts ticks modulo `TickCycle`, a common multiple of the lengths
  that are rotated, which loses nothing. `MaxDays` bounds how often freshness lapses: with
  lapses for ever, timed by an adversary, a symbol may be passed over although there is no
  watchlist. `MaxAbandoned` bounds failing ticks: a tick that fails is not counted, hence
  it chooses the same universe again, and a symbol whose candles can never be fetched
  stops all ticks.

### Fairness

* `EngineState`: weak fairness of the save that ends a tick, and of each save's read and
  commit. Ticks go on, by the scheduler or the loop. The event loop resumes a
  coroutine whose statement is done; a statement ends or fails. Nothing makes a request
  arrive. `SettledStateIsSaved` is stated for a memory that settles, and failures are
  bounded.
* `TickLock`: weak fairness of each call's own steps and of `SessionEnds` (PostgreSQL
  drops the session of a dead client). No fairness for lost connections or new calls.
* `Universe`: weak fairness of the tick's steps, that is, ticks go on, as the scheduler
  and the loop make them; none for failures and days. That of `Choose` is stated as that
  of a step from idle to chosen, which no other action takes.
* `TossClient`: weak fairness of each caller's `Resolve`: an HTTP call is answered, fails
  or times out (the client has a timeout), and the event loop runs what is ready. Which
  of the outcomes it is, nobody promises: no action of the broker is fair by itself.
* `Reports`: days pass, and the tick loop goes on with its own steps (it wakes up every
  interval and swallows failures). No request and no tick need ever come.
* The other modules state safety only and assume none.

## 4. The proofs

Every theorem holds for all values of the constants under the assumptions named in
the module that declares the constants, which TLC evaluates in the runs: limits and bounds
are naturals, amounts are integers, rates are parts of a whole; a missing value or an absent
row is none of the values; an order's id and side are of their sets, and a context says what
the kill switch and the breaker were; where something is summed or counted over the symbols,
they are finitely many; the symbols that may be chosen are, too, and no list of them that is
configured repeats one, since `symbols.py` drops repetitions as it reads them.

| Module | Proved | Inductive invariant and why |
|---|---|---|
| `Halts_proof`, breaker | types; `DeepDrawdownIsHalted`; `OpensOnlyOnEvidence` | `CoveredInv`: a breaker whose drawdown is deep has its latch set, in memory *and* in the saved copy, since a restart swaps one for the other |
| | `DailyHaltIsForItsDay` | `DatedInv`: the halt's date is the last day of a loss, and no loss is later than the breaker's day, of memory with its history and of the saved copy with the history saved beside it |
| | `HaltFollowsEquityCurve` | `FollowsInv`: the high-water mark is the peak of the curve since the last reset, the drawdown is that of its last point, and the latch is set exactly if some point sank to the limit and none since recovered; of memory and of the saved copy. One point more leaves the peaks and drawdowns of the points before it alone |
| `Halts_proof`, reconciliation | types; `AbsorbedMismatchIsKept` | `HaltIsKept`: absorbed implies the switch in memory and in the row; a coroutine that halted has the switch on, and past its save the row has it |
| | `MismatchExactlyOnSurprise` | `TraceInv`: what a snapshot holds, less the trades by hand and the executions behind it, is what the account holds now, less those behind that. Two snapshots differ then by what happened between them, and the sum that is compared with it leaves over exactly the executions the orders table does not tell of |
| `Broker_proof`, order service | types; `SentAtMostOnce`; `OnlyGrantedLiveSends`; `ImplementsGate` | `OnceInv`: an id without an entry in the ledger has never been passed to `place()`; LIVE implies the grant. For the refinement, the gate's `armed`, `outcome` and `reached` are functions of mode, `seen` and `executed` |
| | `LedgerCoversBroker` | `LedgerInv`: the ledger and the remembered results say the same, with one entry for each id; what the broker executed is SUBMITTED or FAILED there |
| | `SwitchesBindStaleCallers` | the types suffice: the guardrails are given a context in which the service's own switches replace the caller's |
| `Broker_proof`, client | types; `FetchesAreShared`; `RefusedOnlyIfDroppedAgain` | `IInv`: a request that was refused once holds, or will be given, a token that is accepted or that was dropped after the refusal, through the nested request and back, where the outer frame keeps such a token while the nested request fetches another; whoever is in the lock's queue waits there once |
| `SharedState_proof` | types; `SealedKillIsDurable` | *sealed* implies that memory, row and the arguments of every save in flight have the switch on |
| | `ApartSavesAreAtomic`, `LostKillNeedsOverlap`, of the runs in which each save ends before the next is called (`SavesApart`, a hypothesis, not an assumption on the code) | `ApartInv`: a save in flight carries the switch as memory has it, and what it has read is the row. Hence an UPDATE of the changed columns stores all its arguments, every step is one of `StateRegister` or a stutter, and the counterexample of `lost_kill` needs two saves that overlap |
| | types; `OneCallPerProcess`; `TicksAreSerialised`; `ImplementsMutex` | `LockInv`: the call past the asyncio lock is the one that holds it; a call inside with its connection holds the key. A step of one call then adds it to those that run, takes it out, cuts its claim, or is invisible |
| | `KeyHasAnOwner` | `KeyInv`: the key has a live owner inside or is orphaned, and without PostgreSQL nobody takes it |
| `Tick_proof` | types; `DailyCapHolds`; `HaltedTickTradesNothing`; `BookIsAccountedFor` | what the tick captured as used bounds what the table has for the captured date, and orders are added to both; the flags captured at the loop's start agree with the switches while nothing can interleave |
| `Portfolio_proof` | types, with cash that is never overdrawn; `BooksBalance` | a buy fills only what the cash pays for, whatever it was sized by; `BalanceInv`: the saved book and the one in memory both balance, since a crash swaps one for the other. A sale is of the whole position, with its whole cost |
| | `OrdersFitTheLimits` | arithmetic of `BuyQuantity`: a quantity rounded down from a part of the ceiling costs no more than any of the amounts the ceiling is the least of, which are the limits the guardrails compare with |
| | `DueExitsLeaveTheBook` | `StepInv` (what a tick keeps from its start), `OneSideInv` (nothing is both bought and sold in one tick, nothing due is bought, nothing sold is bought back) and `ExitInv` (the sale of a due position waits as a decision or an order until it is filled) |
| | `OldPositionsAreClosed` | `AgeInv`: a position was opened on the day since when it is in the book, whatever was added; `CountInv`: a whole tick leaves no position older than the time stop by the days it counted |
| `Selection_proof`, universe | types, with nothing screened out in the statistics that was never held; `SlotsAreFilled` | the types: a universe is a list of codes. Ranks are a bijection of the places that are kept to the places of the result (`KeptProperties`), so a filter keeps repetition out; a rotation permutes (`RotateProperties`); taking from a stream keeps what is there, adds only new elements and stops at the cap or at the end of the stream (`ExtendProperties`); the last stream is all seeds |
| | `ExplorationIsGuaranteed` | of the elements of a list without repetition only so many fit into a prefix (`PrefixByElements`), so that exploitation leaves a place, and the first unmeasured or stale seed fills it unless one is there already |
| `Selection_proof`, judgement | types; `HoldingsAreJudged` | `PlaceInv`, `QueueInv`: queue and exits by rule name every holding and no symbol twice, with a candle that was fresh when it was needed |
| | `CallsStayNearTheCap` | `CallInv`: calls are accounted for by decisions recorded, by ticks that failed, and by the tick under way, which began below the cap; no tick judges a symbol twice |
| | `SearchesAreSpaced` | `NoteInv`: each note but the last took the shorter period at least; what is searched for is not in the cache or too old |
| `Reports_proof` | types; `EveryTickIsReported` | every recorded tick up to a period is in a report, or came after the ticks of a closing report were loaded; a request in flight has, past `LoadActivity`, all ticks that were there after the last report it saw |

Each theorem that names a property of a run was proved after TLC had checked that property,
and each inductive invariant after TLC had checked it on the bounds of that run. The
theorems about `SavesApart` were tried with TLC on the constants of `engine_state` and two
failures, with `SavesApart'` as a conjunct of the next-state relation.

`Sums` carries the proofs about money and shares. `MapThenSumSet` and
`SumFunctionOnSet` choose a function by a recursive equation over the subsets of a set, and
the library's induction needs an operator for a parameter. `Sums` gets the laws from a
smallest counterexample instead: a finite set of subsets that break a law has a member
none of whose smaller ones does. That such a function exists, that two agree, that any
element can be taken out first (`SumTakesAny`), and what a sum becomes when one
summand changes (`SumOfChange`) follow.

Every safety property of a passing run is a theorem. Only model-checked is liveness
(`LockComesFree`, `EveryCallAnswered`, `SettledStateIsSaved`, `CoverageWithoutWatchlist`,
`EveryRequestEnds`, `EveryDayIsReported`), which rests on fairness and is beyond TLAPS;
of `LockComesFree` the safety half, `KeyHasAnOwner`, is proved. The liveness is shown for the
bounds of its runs only.

## 5. Plan

The order is that of the money at risk. Done: models of the breaker, the order service with
its abstract gate, the engine state, the lock, the tick, reconciliation, the universe, the
paper book and its ticks, the broker client, judge and research, reports; theorems of every
safety property that a run checks, and of the refinements of the order gate, of the mutex of
ticks and, while saves do not overlap, of the register of the engine state.

What would come next:

1. A composition of `TickLock` with `EngineState`: a tick on a lost connection saves over
   another process's state.
2. `Tick` as the abstract specification of `Portfolio`, whose sizes, verdicts and fills are
   among the free choices of `Tick`.
3. The news collector, with its stop at the first page without a new row.

### Not modelled

* The sandbox broker, notifications, authentication, the dashboard, settings, logging,
  scripts and Terraform have no state of their own beyond what the modules have.
* The news collector and alignment feed a research data set beside the trading path; the
  hazard of its paging is listed.
* Evaluation, replay, stress and calibration, as well as the computation of the
  indicators and volatilities, are floating-point numerics over recorded data: what they
  compute is a number that a model checker does not judge.
* The calendar is a set of dates (`Reports`) and a flag (`Tick`); the arithmetic of KST is
  left out. Parsing of HTTP bodies, of prompts and of answers is reduced to whether it
  succeeds and what it yields.
