------------------------------ MODULE Universe ------------------------------
(***************************************************************************)
(* Which symbols a tick evaluates: resolve_universe of                     *)
(* app/engine/symbols.py, fed by the liquidity statistics that ticks leave *)
(* behind (app/api/tick.py, symbol_stats of app/db/repo.py) and by the     *)
(* number of ticks recorded so far.                                        *)
(*                                                                         *)
(* A tick evaluates its holdings in addition, and those are not screened   *)
(* out. What is held differs from tick to tick, and so does which symbols  *)
(* have candles at all. Days pass at any time. Ties of the ADV are broken  *)
(* by the database in any way.                                             *)
(***************************************************************************)
EXTENDS Integers, FiniteSets, Sequences, SequencesExt, FiniteSetsExt

CONSTANTS
    Seeds,          \* the codes of the seed file, in its order
    Watchlists,     \* watchlists that may be configured
    Screens,        \* sets of symbols that partition_universe may exclude
    Holdings,       \* sets of symbols that may be held
    Limit,          \* universe_max_symbols
    ExplorePercent, \* universe_explore_ratio
    PoolSize,       \* adv_pool_size
    FreshDays,      \* 14: days for which a measurement is fresh
    Values,         \* ADVs, told apart by their order only
    TickCycle,      \* bound: ticks are counted modulo this common multiple of
                    \* all lengths that a rotated list can have
    MaxAbandoned,   \* bound: ticks that fail
    MaxDays         \* bound: days on which something is fresh

Codes == ToSet(Seeds) \cup (UNION {ToSet(w) : w \in Watchlists}) \cup (UNION Holdings)

ASSUME UniverseAssumption ==
    /\ \A codes \in Watchlists \cup {Seeds} :
          codes \in Seq(ToSet(codes)) /\ Cardinality(ToSet(codes)) = Len(codes)
    /\ IsFiniteSet(Codes)
    /\ Screens \subseteq SUBSET Codes
    /\ Limit \in Nat /\ ExplorePercent \in 0..100
    /\ PoolSize \in Nat /\ FreshDays \in Nat \ {0} /\ Values \subseteq Nat \ {0}
    /\ TickCycle \in Nat \ {0} /\ \A n \in 1..Max({PoolSize, Len(Seeds)}) : TickCycle % n = 0
    /\ MaxAbandoned \in Nat /\ MaxDays \in Nat

VARIABLES
    watch,      \* settings.watchlist, normalized, without its repetitions
    ineligible, \* external: the symbols that partition_universe excludes
    tickCount,  \* rows of the ticks table, modulo TickCycle
    adv,        \* symbol_stats: [Codes -> ADV, or 0 if never measured]
    age,        \* symbol_stats: days since the measurement, at most FreshDays
    stage,      \* step of the tick
    universe,   \* the symbols of the tick
    owned,      \* the symbols of its holdings
    ownedOnce,  \* history: what has been held when statistics were stored
    abandoned, days \* bounds

setup == <<watch, ineligible>>
universeVars == <<setup, tickCount, adv, age, stage, universe, owned, ownedOnce,
                  abandoned, days>>

UniverseInit ==
    /\ watch \in Watchlists /\ ineligible \in Screens
    /\ tickCount = 0
    /\ adv = [s \in Codes |-> 0]
    /\ age = [s \in Codes |-> FreshDays]
    /\ stage = "idle" /\ universe = <<>> /\ owned = {} /\ ownedOnce = {}
    /\ abandoned = 0 /\ days = 0
-----------------------------------------------------------------------------
NExplore == LET ceiling == (Limit * ExplorePercent + 99) \div 100
            IN  IF ceiling > 1 THEN ceiling ELSE 1
NExploit == IF Limit > NExplore THEN Limit - NExplore ELSE 0

(* _rotate                                                                 *)
Rotate(s, offset) ==
    IF s = <<>> THEN s
    ELSE LET k == offset % Len(s)
         IN  SubSeq(s, k + 1, Len(s)) \o SubSeq(s, 1, k)

(* What of s is in T, in the order of s. By the rank of each index, as the *)
(* provers know no definition of SelectSeq.                                *)
Kept(s, T) ==
    LET kept == {i \in DOMAIN s : s[i] \in T}
        rank == [i \in kept |-> Cardinality({j \in kept : j <= i})]
    IN  [k \in 1..Cardinality(kept) |-> s[CHOOSE i \in kept : rank[i] = k]]

(* take: what is new in stream, until result has cap symbols.              *)
Extend(result, stream, cap) ==
    LET new == Kept(stream, ToSet(stream) \ ToSet(result))
    IN  result \o SubSeq(new, 1, Max({0, Min({Len(new), cap - Len(result)})}))

(* load_adv_pool: some order of the measured symbols by descending ADV.    *)
Pools ==
    LET measured == {s \in Codes : adv[s] > 0}
        orders == {p \in SetToSeqs(measured) :
                     \A i, j \in DOMAIN p : i < j => adv[p[i]] >= adv[p[j]]}
    IN  {SubSeq(p, 1, Min({Len(p), PoolSize})) : p \in orders}

(* load_fresh_symbols: measured after the cutoff; stale are the others.    *)
Stale(s) == adv[s] = 0 \/ age[s] >= FreshDays

(* resolve_universe                                                        *)
ExploitedInAllSlots(pool) ==
    Extend(watch, Rotate(pool, tickCount * Max({NExploit, 1})), Limit)
Exploited(pool) ==
    Extend(watch, Rotate(pool, tickCount * Max({NExploit, 1})), Len(watch) + NExploit)
Explored(pool) ==
    Extend(Exploited(pool), Rotate(Kept(Seeds, {s \in Codes : Stale(s)}), tickCount * NExplore), Limit)
ResolvedWithoutFallback(pool) == Explored(pool)
Resolved(pool) == Extend(Explored(pool), Rotate(Seeds, tickCount * Limit), Limit)

Choose ==
    /\ stage = "idle"
    /\ stage' = "chosen"
    /\ owned' \in Holdings
    /\ UNCHANGED <<setup, tickCount, adv, age, ownedOnce, abandoned, days>>
    /\ \E pool \in Pools : universe' = Resolved(pool)

(* run_tick asks for the candles of what partition_universe left, and of   *)
(* what is held.                                                           *)
EvaluatedUnscreened == ToSet(universe) \cup owned
Evaluated == (ToSet(universe) \ ineligible) \cup owned

(* run_tick got all answers; record_tick.                                  *)
SameCount == tickCount
NextCount == (tickCount + 1) % TickCycle

RecordTick ==
    /\ stage = "chosen"
    /\ stage' = "recorded"
    /\ tickCount' = NextCount
    /\ UNCHANGED <<setup, adv, age, universe, owned, ownedOnce, abandoned, days>>

(* upsert_symbol_stats, of those whose candles were not an empty list.     *)
Store(measured, values) ==
    /\ adv' = [s \in Codes |-> IF s \in measured THEN values[s] ELSE adv[s]]
    /\ age' = [s \in Codes |-> IF s \in measured THEN 0 ELSE age[s]]

Upsert ==
    /\ stage = "recorded"
    /\ stage' = "idle" /\ universe' = <<>> /\ owned' = {}
    /\ ownedOnce' = ownedOnce \cup owned
    /\ UNCHANGED <<setup, tickCount, abandoned, days>>
    /\ \E measured \in SUBSET Evaluated :
          \E values \in [measured -> Values] : Store(measured, values)

(* A tick raises: before it is recorded, or before its statistics are.     *)
Fails ==
    /\ abandoned < MaxAbandoned
    /\ stage # "idle"
    /\ stage' = "idle" /\ universe' = <<>> /\ owned' = {}
    /\ abandoned' = abandoned + 1
    /\ UNCHANGED <<setup, tickCount, adv, age, ownedOnce, days>>

NextDay ==
    /\ days < MaxDays /\ days' = days + 1
    /\ \E s \in Codes : age[s] < FreshDays
    /\ age' = [s \in Codes |-> Min({age[s] + 1, FreshDays})]
    /\ UNCHANGED <<setup, tickCount, adv, stage, universe, owned, ownedOnce, abandoned>>

UniverseNext == Choose \/ RecordTick \/ Upsert \/ Fails \/ NextDay

UniverseSpec == UniverseInit /\ [][UniverseNext]_universeVars

(* The tick loop and the scheduler never stop calling, and a tick that     *)
(* does not fail goes on. A step out of idle is a Choose.                  *)
UniverseFairSpec ==
    /\ UniverseSpec
    /\ WF_stage(stage = "idle" /\ stage' = "chosen")
    /\ WF_universeVars(RecordTick \/ Upsert)
-----------------------------------------------------------------------------
(* Types; and what is screened out is measured only as a holding           *)
(* (pipeline.py:120): if it is in the statistics, and so in the pool, it   *)
(* was held once.                                                          *)
UniverseTypeOK ==
    /\ watch \in Watchlists /\ ineligible \in Screens
    /\ tickCount \in 0..(TickCycle - 1)
    /\ adv \in [Codes -> Values \cup {0}] /\ age \in [Codes -> 0..FreshDays]
    /\ stage \in {"idle", "chosen", "recorded"}
    /\ universe \in Seq(Codes)
    /\ owned \subseteq Codes /\ ownedOnce \subseteq Codes
    /\ \A s \in ineligible : adv[s] > 0 => s \in ownedOnce
    /\ abandoned \in 0..MaxAbandoned /\ days \in 0..MaxDays

(* resolve_universe: the watchlist comes first, nothing comes twice, and   *)
(* no slot stays empty while there are symbols left, whatever the          *)
(* statistics and the offsets are. Nor is a slot made up: only a watchlist *)
(* that reaches into the slots of exploration pushes the universe beyond   *)
(* the limit, since the slots of exploitation come on top of it.           *)
SlotsAreFilled ==
    stage # "idle" =>
        /\ IsPrefix(watch, universe)
        /\ Cardinality(ToSet(universe)) = Len(universe)
        /\ Len(universe) >= Min({Limit, Cardinality(ToSet(watch) \cup ToSet(Seeds))})
        /\ Len(universe) <= Max({Limit, Len(watch) + NExploit})

(* symbols.py:146, exploration is guaranteed at least one slot: as long as *)
(* some symbol is unmeasured or stale, a tick evaluates one such symbol.   *)
(* Of a watchlist that leaves exploration a slot, that is: a longer one    *)
(* fills them itself.                                                      *)
ExplorationIsGuaranteed ==
    [][ /\ stage = "idle" /\ stage' = "chosen"
        /\ Len(watch) + NExploit < Limit
        /\ \E s \in ToSet(Seeds) : Stale(s)
        => \E s \in ToSet(universe') : Stale(s) ]_universeVars

(* test_symbols.py:162-168, all seeds are covered without a bias: an       *)
(* eligible symbol of the seed file that is unmeasured or stale is asked   *)
(* for its candles in the end, and again and again as long as there are    *)
(* none, whatever holdings and other seeds are measured meanwhile. It takes*)
(* two conditions: days are long, and there is no watchlist, since one     *)
(* takes its slots from the exploration, whose offset moves on by NExplore *)
(* a tick nevertheless.                                                    *)
CoverageWithoutWatchlist ==
    \A s \in ToSet(Seeds) :
        watch = <<>> /\ s \notin ineligible /\ Stale(s)
          ~> ~Stale(s) \/ (stage = "recorded" /\ s \in Evaluated)
=============================================================================
