---------------------------- MODULE EngineState ----------------------------
(***************************************************************************)
(* The engine_state row (id 1) that carries the kill switch and the breaker*)
(* over a restart, and the coroutines that save it: the end of every tick, *)
(* the kill-switch and reset routes, and the reconciliation that halts     *)
(* trading. save_engine_state takes its arguments when it is called, awaits*)
(* the row, and commits an UPDATE of the columns that differ from the row  *)
(* it READ (SQLAlchemy writes only changed attributes), or an INSERT if it *)
(* found no row. Between these awaits the other coroutines run.            *)
(*                                                                         *)
(* The breaker is one of a few dumps here; CircuitBreaker has its rules.   *)
(***************************************************************************)
EXTENDS Integers, FiniteSets

CONSTANTS
    Ticker,        \* the coroutine running the ticks
    Callers,       \* request handlers and manual reconciliations
    Dumps,         \* what dump_state may return
    FreshDump,     \* the dump of a breaker that was never assessed
    NoRow,
    MaxFailures    \* bound: database failures and process crashes

ASSUME EngineStateAssumption ==
    /\ Ticker \notin Callers
    /\ FreshDump \in Dumps
    /\ NoRow \notin [kill : BOOLEAN, breaker : Dumps]
    /\ MaxFailures \in Nat

Savers == Callers \cup {Ticker}
State == [kill : BOOLEAN, breaker : Dumps]
FreshState == [kill |-> FALSE, breaker |-> FreshDump]

VARIABLES
    memory,      \* OrderService.kill_switch and its breaker
    row,         \* the engine_state row, NoRow before the first save
    saver,       \* [Savers -> progress of the coroutine's save]
    sealed,      \* history: an engaged kill switch was saved and nothing
                 \* contradicted it since (see SealedKillIsDurable)
    failures     \* bound

vars == <<memory, row, saver, sealed, failures>>

Idle == [at |-> "idle", args |-> FreshState, found |-> NoRow]
Called(args) == [at |-> "called", args |-> args, found |-> NoRow]
ReadRow(p, found) == [at |-> "read", args |-> p.args, found |-> found]

InFlight(s) == saver[s].at # "idle"
-----------------------------------------------------------------------------
Init ==
    /\ memory = FreshState
    /\ row = NoRow
    /\ saver = [s \in Savers |-> Idle]
    /\ sealed = FALSE
    /\ failures = 0

Call(s, args) ==
    /\ ~InFlight(s)
    /\ saver' = [saver EXCEPT ![s] = Called(args)]

(* POST /api/kill-switch: the switch and the call are one step, there is no*)
(* await between them.                                                     *)
SetKillSwitch(s, engaged) ==
    /\ memory' = [memory EXCEPT !.kill = engaged]
    /\ Call(s, memory')
    /\ sealed' = (sealed /\ engaged)
    /\ UNCHANGED <<row, failures>>

(* POST /api/circuit-breaker/reset                                         *)
ResetBreaker(s) ==
    /\ memory' = [memory EXCEPT !.breaker = FreshDump]
    /\ Call(s, memory')
    /\ UNCHANGED <<row, sealed, failures>>

(* reconcile_and_enforce on a LIVE mismatch, from a tick or from           *)
(* /api/reconcile                                                          *)
HaltOnMismatch(s) ==
    /\ ~memory.kill
    /\ memory' = [memory EXCEPT !.kill = TRUE]
    /\ Call(s, memory')
    /\ UNCHANGED <<row, sealed, failures>>

(* A tick assesses the breaker ...                                         *)
TickAssess(dump) ==
    /\ ~InFlight(Ticker)
    /\ memory' = [memory EXCEPT !.breaker = dump]
    /\ UNCHANGED <<row, saver, sealed, failures>>

(* ... and after record_tick saves what the service holds by then.         *)
TickArgs(state) == state

TickSave ==
    /\ Call(Ticker, TickArgs(memory))
    /\ UNCHANGED <<memory, row, sealed, failures>>

Read(s) ==
    /\ saver[s].at = "called"
    /\ saver' = [saver EXCEPT ![s] = ReadRow(@, row)]
    /\ UNCHANGED <<memory, row, sealed, failures>>

(* The columns an UPDATE leaves alone keep whatever the row holds now.     *)
UpdateUnlessEngaged(now, found, args) ==
    [kill    |-> now.kill,
     breaker |-> IF args.breaker # found.breaker THEN args.breaker ELSE now.breaker]
Update(now, found, args) ==
    [kill    |-> IF args.kill # found.kill THEN args.kill ELSE now.kill,
     breaker |-> IF args.breaker # found.breaker THEN args.breaker ELSE now.breaker]

(* No other save in flight would take an engaged kill switch back.         *)
NoStaleSaver(s) == \A t \in Savers \ {s} : InFlight(t) => saver[t].args.kill

Commit(s) ==
    /\ saver[s].at = "read"
    /\ \/ saver[s].found # NoRow
       \/ row = NoRow
    /\ row' = IF saver[s].found = NoRow THEN saver[s].args
              ELSE Update(row, saver[s].found, saver[s].args)
    /\ saver' = [saver EXCEPT ![s] = Idle]
    /\ sealed' = (sealed \/ (memory.kill /\ saver[s].args.kill
                               /\ row'.kill /\ NoStaleSaver(s)))
    /\ UNCHANGED <<memory, failures>>

(* Two first saves: the second INSERT breaks the primary key and raises.   *)
InsertConflict(s) ==
    /\ saver[s].at = "read" /\ saver[s].found = NoRow /\ row # NoRow
    /\ saver' = [saver EXCEPT ![s] = Idle]
    /\ UNCHANGED <<memory, row, sealed, failures>>

DatabaseFails(s) ==
    /\ failures < MaxFailures
    /\ InFlight(s)
    /\ saver' = [saver EXCEPT ![s] = Idle]
    /\ failures' = failures + 1
    /\ UNCHANGED <<memory, row, sealed>>

(* main.lifespan: the next process starts from the row.                    *)
RestoredBreakerOnly(r) ==
    IF r = NoRow THEN FreshState ELSE [FreshState EXCEPT !.breaker = r.breaker]
Restored(r) == IF r = NoRow THEN FreshState ELSE r

CrashAndRestart ==
    /\ failures < MaxFailures
    /\ memory' = Restored(row)
    /\ saver' = [s \in Savers |-> Idle]
    /\ failures' = failures + 1
    /\ UNCHANGED <<row, sealed>>

Next ==
    \/ \E s \in Callers, engaged \in BOOLEAN : SetKillSwitch(s, engaged)
    \/ \E s \in Callers : ResetBreaker(s)
    \/ \E s \in Savers : HaltOnMismatch(s)
    \/ \E dump \in Dumps : TickAssess(dump)
    \/ TickSave
    \/ \E s \in Savers : Read(s) \/ Commit(s) \/ InsertConflict(s) \/ DatabaseFails(s)
    \/ CrashAndRestart

Spec == Init /\ [][Next]_vars

(* The tick loop (or the scheduler) keeps ticking, and the database answers*)
(* a query that was sent; requests owe nobody anything.                    *)
FairSpec ==
    /\ Spec
    /\ WF_vars(TickSave)
    /\ \A s \in Savers : WF_vars(Read(s)) /\ WF_vars(Commit(s) \/ InsertConflict(s))
-----------------------------------------------------------------------------
TypeOK ==
    /\ memory \in State
    /\ row \in State \cup {NoRow}
    /\ saver \in [Savers -> [at : {"idle", "called", "read"}, args : State,
                             found : State \cup {NoRow}]]
    /\ sealed \in BOOLEAN
    /\ failures \in Nat

(* repo.py:9, the kill switch survives a restart: once an engaged switch   *)
(* has been committed while no save carrying an older, released value was  *)
(* still in flight, the row and every later process have it engaged until  *)
(* somebody releases it, through any interleaving of saves, failures and   *)
(* crashes.                                                                *)
SealedKillIsDurable ==
    sealed => /\ memory.kill
              /\ row # NoRow /\ row.kill
              /\ \A s \in Savers : InFlight(s) => saver[s].args.kill

(* A switch or breaker that stays as it is reaches the row and stays there:*)
(* what a stale save may have taken back, the next tick's save restores.   *)
(* Failures are bounded, so they end.                                      *)
SettledStateIsSaved ==
    /\ (<>[]memory.kill) => <>[](row # NoRow /\ row.kill)
    /\ \A dump \in Dumps :
          (<>[](memory.breaker = dump)) => <>[](row # NoRow /\ row.breaker = dump)

(* The same promise without the condition on other saves: while the switch *)
(* is engaged, a row that has it engaged keeps it so. A save that was      *)
(* called with the older value and reads the row afterwards breaks this.   *)
SavedKillStaysSaved ==
    [][ (memory.kill /\ memory'.kill /\ row # NoRow /\ row.kill) => row'.kill ]_vars

(* One save at a time: each ends before the next is called.                *)
SavesApart == \A s, t \in Savers : InFlight(s) /\ InFlight(t) => s = t

(* repo.py:441, as long as that is so, the row is the register that the    *)
(* callers take it to be: a save stores what it was called with.           *)
Register == INSTANCE StateRegister WITH
    Fresh <- FreshState,
    pending <- {saver[s].args : s \in {t \in Savers : InFlight(t)}}
=============================================================================
