----------------------------- MODULE Reconcile -----------------------------
(***************************************************************************)
(* Reconciliation over many ticks: reconcile of app/orders/reconcile.py,   *)
(* reconcile_and_enforce of app/api/tick.py, the position snapshots and    *)
(* submitted_qty_since of app/db/repo.py. Two coroutines run it: the tick, *)
(* which then trades and records its orders, and GET /api/reconcile.       *)
(*                                                                         *)
(* External: the account at the broker, which executes orders late, never, *)
(* or although place() raised, and in which the owner trades by hand.      *)
(* Orders are numbered in the order they were made; a time stamp is the    *)
(* number of orders made before it. Saving the engine state is one step    *)
(* here; EngineState has its interleavings.                                *)
(***************************************************************************)
EXTENDS Integers, Sequences, FiniteSetsExt

CONSTANTS
    Symbols,
    None,
    Held,          \* quantities of a symbol that may be held at first
    MaxOrders,     \* bound: orders sent
    MaxTrades,     \* bound: trades by hand
    MaxFailures    \* bound: failing awaits and crashes

ASSUME ReconcileAssumption ==
    Held \subseteq Nat /\ MaxOrders \in Nat /\ MaxTrades \in Nat /\ MaxFailures \in Nat

Coroutines == {"tick", "manual"}
Order == [symbol : Symbols, qty : {1, -1}, status : {"SUBMITTED", "FAILED"}]

VARIABLES
    mode,         \* OrderService.mode
    killSwitch, savedKill,  \* in memory; in engine_state
    baseline,     \* latest position snapshot, or None
    at, run,      \* [Coroutines -> step], [Coroutines -> its locals]
    sent,         \* orders in the order they were made
    recorded,     \* those (their numbers) that are in the orders table
    account,      \* external: [Symbols -> quantity held]
    executed,     \* external: orders the broker has executed; it may never
                  \* execute the others, and some have never reached it
    byHand,       \* external: [Symbols -> net quantity traded by hand]
    absorbed,     \* history: see AbsorbedMismatchIsKept
    trades, failures   \* bounds

broker == <<account, executed, byHand, trades>>
system == <<mode, killSwitch, savedKill, baseline, at, run, sent, recorded, absorbed>>
reconcileVars == <<system, broker, failures>>

(* The locals of a coroutine. History: trail, the causes of all that       *)
(* happened to the account until its holdings were fetched; and that nobody*)
(* has released the switch since this coroutine halted.                    *)
NoTrail == [hand |-> [s \in Symbols |-> 0], done |-> {}]
NoSnapshot == [qty |-> [s \in Symbols |-> 0], ts |-> 0, trail |-> NoTrail]
Fresh == [seen |-> NoSnapshot, prev |-> None, halted |-> FALSE]

ReconcileInit ==
    /\ mode \in {"DRY_RUN", "LIVE"}
    /\ killSwitch = FALSE /\ savedKill = FALSE
    /\ baseline = None
    /\ at = [c \in Coroutines |-> "idle"]
    /\ run = [c \in Coroutines |-> Fresh]
    /\ sent = <<>> /\ recorded = {}
    /\ account \in [Symbols -> Held]
    /\ executed = {}
    /\ byHand = [s \in Symbols |-> 0]
    /\ absorbed = FALSE
    /\ trades = 0 /\ failures = 0

Move(c, from, to) == at[c] = from /\ at' = [at EXCEPT ![c] = to]
-----------------------------------------------------------------------------
(* The order loop of a tick has no await: while it runs nothing else does. *)
Awaiting == at["tick"] # "ordering"

(* toss.get_holdings. A tick stamps its snapshot with the time it began, a *)
(* manual check, if it makes the first one, with that of the answer.       *)
Fetch(c) ==
    /\ Awaiting
    /\ Move(c, "idle", "fetched")
    /\ run' = [run EXCEPT ![c] =
         [Fresh EXCEPT !.seen = [qty |-> account, ts |-> Len(sent),
                                 trail |-> [hand |-> byHand, done |-> executed]]]]
    /\ UNCHANGED <<mode, killSwitch, savedKill, baseline, sent, recorded, absorbed,
                   broker, failures>>

(* repo.load_latest_positions                                              *)
Load(c) ==
    /\ Awaiting
    /\ Move(c, "fetched", IF baseline = None THEN "first" ELSE "loaded")
    /\ \E now \in run[c].seen.ts..Len(sent) :
          /\ c = "tick" \/ baseline # None => now = run[c].seen.ts
          /\ run' = [run EXCEPT ![c].prev = baseline, ![c].seen.ts = now]
    /\ UNCHANGED <<mode, killSwitch, savedKill, baseline, sent, recorded, absorbed,
                   broker, failures>>

(* A tick goes on with its orders; a manual check is over.                 *)
GoesOn(c, from, to) ==
    /\ Move(c, from, IF c = "tick" THEN to ELSE "idle")
    /\ run' = IF c = "tick" THEN [run EXCEPT ![c].prev = None] ELSE [run EXCEPT ![c] = Fresh]

CreateBaseline(c) ==
    /\ Awaiting
    /\ GoesOn(c, "first", "ordering")
    /\ baseline' = run[c].seen
    /\ UNCHANGED <<mode, killSwitch, savedKill, sent, recorded, absorbed, broker, failures>>

(* repo.submitted_qty_since: sent, not executed; FAILED does not count.    *)
CountedOfAllTime(ts) == {n \in recorded : sent[n].status = "SUBMITTED"}
Counted(ts) == {n \in recorded : sent[n].status = "SUBMITTED" /\ n > ts}
Net(ns, s) == MapThenSumSet(LAMBDA n : sent[n].qty, {n \in ns : sent[n].symbol = s})

(* reconcile: every symbol of either side is compared.                     *)
Mismatch(prev, seen) ==
    \E s \in Symbols : seen.qty[s] # prev.qty[s] + Net(Counted(prev.ts), s)

Consistent(c) ==
    /\ Awaiting
    /\ GoesOn(c, "loaded", "compared")
    /\ ~ Mismatch(run[c].prev, run[c].seen)
    /\ UNCHANGED <<mode, killSwitch, savedKill, baseline, sent, recorded, absorbed,
                   broker, failures>>

Mismatched(c) ==
    /\ Awaiting
    /\ Move(c, "loaded", "mismatched")
    /\ Mismatch(run[c].prev, run[c].seen)
    /\ run' = [run EXCEPT ![c].prev = None]
    /\ UNCHANGED <<mode, killSwitch, savedKill, baseline, sent, recorded, absorbed,
                   broker, failures>>

(* After the mismatch was audited. With the switch on nothing is saved.    *)
Engages == mode = "LIVE" /\ ~killSwitch

Tolerate(c) ==
    /\ Awaiting /\ ~Engages
    /\ GoesOn(c, "mismatched", "compared")
    /\ UNCHANGED <<mode, killSwitch, savedKill, baseline, sent, recorded, absorbed,
                   broker, failures>>

Engage(c) ==
    /\ Awaiting /\ Engages
    /\ Move(c, "mismatched", "halting")
    /\ killSwitch' = TRUE
    /\ run' = [run EXCEPT ![c].halted = TRUE]
    /\ UNCHANGED <<mode, savedKill, baseline, sent, recorded, absorbed, broker, failures>>

(* save_engine_state                                                       *)
SaveNothing == savedKill
SaveSwitch == killSwitch

Halt(c) ==
    /\ Awaiting
    /\ GoesOn(c, "halting", "compared")
    /\ savedKill' = SaveSwitch
    /\ UNCHANGED <<mode, killSwitch, baseline, sent, recorded, absorbed, broker, failures>>

(* Only a tick advances the baseline, over whatever it found.              *)
Advance ==
    /\ Move("tick", "compared", "ordering")
    /\ baseline' = run["tick"].seen
    /\ absorbed' = (absorbed \/ run["tick"].halted)
    /\ UNCHANGED <<mode, killSwitch, savedKill, run, sent, recorded, broker, failures>>
-----------------------------------------------------------------------------
(* A LIVE order; the guardrails of Tick and OrderService, of which only the*)
(* kill switch matters here, let it through. A sale sells what was seen.   *)
Send(order) ==
    /\ at["tick"] = "ordering"
    /\ mode = "LIVE" /\ ~killSwitch
    /\ Len(sent) < MaxOrders
    /\ order.qty < 0 => run["tick"].seen.qty[order.symbol] > 0
    /\ sent' = Append(sent, order)
    /\ UNCHANGED <<mode, killSwitch, savedKill, baseline, at, run, recorded, absorbed,
                   broker, failures>>

OrdersMade ==
    /\ Move("tick", "ordering", "recording")
    /\ UNCHANGED <<mode, killSwitch, savedKill, baseline, run, sent, recorded, absorbed,
                   broker, failures>>

(* record_tick, then the save of the engine state at the end of the tick.  *)
MadeInThisTick == (run["tick"].seen.ts + 1)..Len(sent)

Record ==
    /\ Move("tick", "recording", "saving")
    /\ recorded' = recorded \cup MadeInThisTick
    /\ UNCHANGED <<mode, killSwitch, savedKill, baseline, run, sent, absorbed,
                   broker, failures>>

SaveState ==
    /\ Move("tick", "saving", "idle")
    /\ run' = [run EXCEPT !["tick"] = Fresh]
    /\ savedKill' = killSwitch
    /\ UNCHANGED <<mode, killSwitch, baseline, sent, recorded, absorbed, broker, failures>>

Fail == failures < MaxFailures /\ failures' = failures + 1

(* An await raises: the coroutine ends where it is.                        *)
StepFails(c) ==
    /\ Fail
    /\ Awaiting /\ at[c] # "idle"
    /\ at' = [at EXCEPT ![c] = "idle"]
    /\ run' = [run EXCEPT ![c] = Fresh]
    /\ UNCHANGED <<mode, killSwitch, savedKill, baseline, sent, recorded, absorbed, broker>>

CrashAndRestart ==
    /\ Fail
    /\ at' = [c \in Coroutines |-> "idle"]
    /\ run' = [c \in Coroutines |-> Fresh]
    /\ killSwitch' = savedKill
    /\ UNCHANGED <<mode, savedKill, baseline, sent, recorded, absorbed, broker>>

(* POST /api/kill-switch, the only way out of a halt.                      *)
Release ==
    /\ Awaiting /\ killSwitch
    /\ killSwitch' = FALSE /\ savedKill' = FALSE
    /\ absorbed' = FALSE
    /\ run' = [c \in Coroutines |-> [run[c] EXCEPT !.halted = FALSE]]
    /\ UNCHANGED <<mode, baseline, at, sent, recorded, broker, failures>>
-----------------------------------------------------------------------------
Execute(n) ==
    /\ n \in DOMAIN sent \ executed
    /\ account[sent[n].symbol] + sent[n].qty >= 0
    /\ account' = [account EXCEPT ![sent[n].symbol] = @ + sent[n].qty]
    /\ executed' = executed \cup {n}
    /\ UNCHANGED <<system, byHand, trades, failures>>

TradeByHand(s, qty) ==
    /\ trades < MaxTrades
    /\ account[s] + qty >= 0
    /\ account' = [account EXCEPT ![s] = @ + qty]
    /\ byHand' = [byHand EXCEPT ![s] = @ + qty]
    /\ trades' = trades + 1
    /\ UNCHANGED <<system, executed, failures>>

ReconcileNext ==
    \/ \E c \in Coroutines :
          \/ Fetch(c) \/ Load(c) \/ CreateBaseline(c)
          \/ Consistent(c) \/ Mismatched(c) \/ Tolerate(c) \/ Engage(c) \/ Halt(c)
          \/ StepFails(c)
    \/ Advance
    \/ \E order \in Order : Send(order)
    \/ OrdersMade \/ Record \/ SaveState
    \/ CrashAndRestart \/ Release
    \/ \E n \in DOMAIN sent : Execute(n)
    \/ \E s \in Symbols, qty \in {1, -1} : TradeByHand(s, qty)

ReconcileSpec == ReconcileInit /\ [][ReconcileNext]_reconcileVars
-----------------------------------------------------------------------------
Snapshot == [qty : [Symbols -> Nat], ts : Nat,
             trail : [hand : [Symbols -> Int], done : SUBSET Nat]]

(* Types; and rows and executions are of orders made.                      *)
ReconcileTypeOK ==
    /\ mode \in {"DRY_RUN", "LIVE"} /\ killSwitch \in BOOLEAN /\ savedKill \in BOOLEAN
    /\ baseline \in Snapshot \cup {None}
    /\ at \in [Coroutines -> {"idle", "fetched", "first", "loaded", "mismatched", "halting",
                              "compared", "ordering", "recording", "saving"}]
    /\ run \in [Coroutines -> [seen : Snapshot, prev : Snapshot \cup {None},
                               halted : BOOLEAN]]
    /\ sent \in Seq(Order)
    /\ recorded \subseteq DOMAIN sent
    /\ account \in [Symbols -> Nat]
    /\ executed \subseteq DOMAIN sent
    /\ byHand \in [Symbols -> Int] /\ absorbed \in BOOLEAN
    /\ trades \in Nat /\ failures \in Nat

(* What happened to a symbol from the baseline to the holdings fetched that*)
(* the orders table does not account for: trades by hand, executions of    *)
(* orders that failed, were never recorded or are older than the baseline, *)
(* less the counted orders that were not executed.                         *)
Surprise(prev, seen, s) ==
    LET expected == {n \in DOMAIN sent : n > prev.ts /\ n \in recorded
                                           /\ sent[n].status # "FAILED"}
    IN  (seen.trail.hand[s] - prev.trail.hand[s])
        + Net(seen.trail.done, s) - Net(prev.trail.done, s) - Net(expected, s)

(* reconcile.py:3-4, with nothing forgotten and nothing counted twice over *)
(* any run of ticks, crashes, late executions and manual checks: a check   *)
(* reports a mismatch exactly if some symbol has a surprise.               *)
MismatchExactlyOnSurprise ==
    [][ \A c \in Coroutines :
          (at[c] = "loaded" /\ at'[c] # "loaded" /\ failures' = failures)
            => (at'[c] = "mismatched" <=>
                  \E s \in Symbols : Surprise(run[c].prev, run[c].seen, s) # 0) ]_reconcileVars

(* reconcile_and_enforce, tick.py:65-80: once the baseline has absorbed a  *)
(* mismatch, so that no later tick sees it again, the halt of the tick that*)
(* found it stays until an operator ends it, also across a crash. (A tick  *)
(* that finds the switch on already saves nothing, so that a halt whose own*)
(* save failed is lost to a crash in the rest of that tick.)               *)
AbsorbedMismatchIsKept == absorbed => killSwitch
=============================================================================
