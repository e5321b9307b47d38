---------------------------- MODULE OrderService ----------------------------
(***************************************************************************)
(* app/orders/service.py: one OrderService from the start of its process,  *)
(* where main.lifespan settles the mode, to its end. Callers submit orders *)
(* with a captured context, possibly the same clientOrderId again; the     *)
(* operator works the kill switch; ticks assess the breaker. The broker    *)
(* behind the executor is external: place() returns an id, or raises       *)
(* whether or not the order was executed.                                  *)
(***************************************************************************)
EXTENDS Guardrails, Sequences

CONSTANTS
    Ids,        \* clientOrderIds
    Orders,     \* orders a caller may submit
    Contexts    \* contexts a caller may have captured

ASSUME OrderServiceAssumption ==
    /\ \A o \in Orders : o.id \in Ids /\ o.side \in Sides
    /\ \A ctx \in Contexts : {"killSwitch", "breakerHalt"} \subseteq DOMAIN ctx

Environments == [requested : BOOLEAN,   \* TRADING_MODE=LIVE
                 confirmed : BOOLEAN,   \* I_UNDERSTAND_LIVE_REAL_MONEY=YES
                 database  : BOOLEAN,   \* DATABASE_URL is set
                 sandbox   : BOOLEAN,   \* SANDBOX_MODE
                 executor  : BOOLEAN]   \* an OrderExecutor was injected

VARIABLES
    env,          \* what the process was started with
    mode,         \* OrderService.mode
    killSwitch,
    tripped,      \* circuit_breaker.tripped
    seen,         \* _seen: [Ids -> status of the first result, or "NONE"]
    ledger,       \* ledger: final results in order
    calls,        \* external: how often place() was called for an id
    executed      \* external: ids the broker executed

vars == <<env, mode, killSwitch, tripped, seen, ledger, calls, executed>>
-----------------------------------------------------------------------------
Init ==
    /\ env \in Environments
    /\ mode = TradingMode(env)
    /\ killSwitch \in BOOLEAN       \* restored from engine_state
    /\ tripped \in BOOLEAN
    /\ seen = [i \in Ids |-> "NONE"]
    /\ ledger = <<>>
    /\ calls = [i \in Ids |-> 0]
    /\ executed = {}

AlwaysNew(o) == TRUE
IsNew(o) == seen[o.id] = "NONE"

(* _finalize: remembered under its id and appended to the ledger.          *)
Finalize(o, status) ==
    /\ seen' = [seen EXCEPT ![o.id] = status]
    /\ ledger' = Append(ledger, [id |-> o.id, side |-> o.side, status |-> status])
    /\ UNCHANGED <<env, mode, killSwitch, tripped>>

(* A known id returns a DUPLICATE copy of its first result; the copy goes  *)
(* to the audit sink only.                                                 *)
SubmitDuplicate(o) ==
    /\ ~IsNew(o)
    /\ UNCHANGED vars

SubmitRejected(o, ctx) ==
    /\ IsNew(o)
    /\ Violates(o, EffectiveContext(ctx, killSwitch, tripped))
    /\ Finalize(o, "REJECTED")
    /\ UNCHANGED <<calls, executed>>

(* The mode gate: recorded only in DRY_RUN, refused without an executor.   *)
SubmitKept(o, ctx) ==
    /\ IsNew(o)
    /\ ~Violates(o, EffectiveContext(ctx, killSwitch, tripped))
    /\ ~CallsExecutor(mode, env.executor)
    /\ \E status \in GateOutcomes(mode, env.executor) : Finalize(o, status)
    /\ UNCHANGED <<calls, executed>>

SubmitSent(o, ctx) ==
    /\ IsNew(o)
    /\ ~Violates(o, EffectiveContext(ctx, killSwitch, tripped))
    /\ CallsExecutor(mode, env.executor)
    /\ calls' = [calls EXCEPT ![o.id] = @ + 1]
    /\ \E status \in GateOutcomes(mode, env.executor), arrived \in BOOLEAN :
          /\ status = "SUBMITTED" => arrived
          /\ executed' = IF arrived THEN executed \cup {o.id} ELSE executed
          /\ Finalize(o, status)

SetKillSwitch(engaged) ==
    /\ killSwitch' = engaged
    /\ UNCHANGED <<env, mode, tripped, seen, ledger, calls, executed>>

(* assess and reset move the breaker; CircuitBreaker says how.             *)
BreakerMoves ==
    /\ tripped' \in BOOLEAN
    /\ UNCHANGED <<env, mode, killSwitch, seen, ledger, calls, executed>>

Next ==
    \/ \E o \in Orders : SubmitDuplicate(o)
    \/ \E o \in Orders, ctx \in Contexts :
          SubmitRejected(o, ctx) \/ SubmitKept(o, ctx) \/ SubmitSent(o, ctx)
    \/ \E engaged \in BOOLEAN : SetKillSwitch(engaged)
    \/ BreakerMoves

Spec == Init /\ [][Next]_vars
-----------------------------------------------------------------------------
TypeOK ==
    /\ env \in Environments
    /\ mode \in Modes
    /\ killSwitch \in BOOLEAN /\ tripped \in BOOLEAN
    /\ seen \in [Ids -> Statuses \cup {"NONE"}]
    /\ ledger \in Seq([id : Ids, side : Sides, status : Statuses])
    /\ calls \in [Ids -> Nat]
    /\ executed \subseteq Ids

(* service.py:4 and config.py:3-6: no order leaves a process unless LIVE   *)
(* was both requested and confirmed, a database is there and the sandbox is*)
(* off, whatever the sequence of submissions and switches.                 *)
OnlyGrantedLiveSends ==
    (\E i \in Ids : calls[i] > 0) =>
        /\ env.requested /\ env.confirmed
        /\ env.database /\ ~env.sandbox
        /\ env.executor

(* service.py:6: an id is handed to the executor at most once, also when   *)
(* its first call failed and the caller asks again.                        *)
SentAtMostOnce == \A i \in Ids : calls[i] <= 1

(* The ledger is the whole truth about the broker: an executed order has a *)
(* single entry, SUBMITTED or FAILED, and a SUBMITTED entry was executed.  *)
LedgerCoversBroker ==
    /\ \A i \in executed :
          Cardinality({n \in DOMAIN ledger : ledger[n].id = i}) = 1
    /\ \A n \in DOMAIN ledger :
          /\ ledger[n].status = "SUBMITTED" => ledger[n].id \in executed
          /\ ledger[n].id \in executed => ledger[n].status \in {"SUBMITTED", "FAILED"}

(* No order is accepted while the service's kill switch is on and no buy   *)
(* while its breaker is tripped, even if the caller captured its context   *)
(* before either came on.                                                  *)
SwitchesBindStaleCallers ==
    [][ LET entry == ledger'[Len(ledger')]
        IN  (ledger' # ledger /\ entry.status # "REJECTED")
              => ~killSwitch /\ (entry.side = "BUY" => ~tripped) ]_vars

Gate == INSTANCE OrderGate WITH
            armed   <- CallsExecutor(mode, env.executor),
            outcome <- [i \in Ids |-> IF seen[i] = "NONE" THEN "undecided" ELSE seen[i]],
            reached <- executed

(* The service implements the gate it promises.                            *)
ImplementsGate == Gate!GateSpec
=============================================================================
