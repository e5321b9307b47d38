---------------------------- MODULE Broker_proof ----------------------------
(***************************************************************************)
(* Proofs about the way to the broker. The order service, for every set of *)
(* ids, orders and contexts and every limit: its types, that only a granted*)
(* LIVE process calls the executor, that it calls it once per id, that the *)
(* ledger accounts for the broker, that the switches bind every caller, and*)
(* that the service implements OrderGate. The API client, for any number of*)
(* callers: its types, that renewals of the token are shared, and that a   *)
(* request is refused for good only if the broker drops another token.     *)
(***************************************************************************)
EXTENDS OrderService, TossClient, FiniteSetTheorems, TLAPS

LEMMA GateStatuses ==
    ASSUME NEW m, NEW executor, NEW status \in GateOutcomes(m, executor)
    PROVE  status \in Statuses \ {"REJECTED"}
  BY DEF GateOutcomes, Statuses

LEMMA FinalizeType ==
    ASSUME TypeOK, NEW o \in Orders, NEW status \in Statuses, Finalize(o, status)
    PROVE  /\ seen' \in [Ids -> Statuses \cup {"NONE"}]
           /\ ledger' \in Seq([id : Ids, side : Sides, status : Statuses])
           /\ UNCHANGED <<env, mode, killSwitch, tripped>>
  <1>1. o.id \in Ids /\ o.side \in Sides
    BY OrderServiceAssumption
  <1>2. [id |-> o.id, side |-> o.side, status |-> status]
          \in [id : Ids, side : Sides, status : Statuses]
    BY <1>1
  <1>3. QED
    BY <1>1, <1>2 DEF Finalize, TypeOK

(* Every reachable state of the service is of its declared type.           *)
THEOREM TypeCorrect == Spec => []TypeOK
  <1>1. Init => TypeOK
    BY DEF Init, TypeOK, TradingMode, Modes
  <1>2. TypeOK /\ [Next]_vars => TypeOK'
    <2> SUFFICES ASSUME TypeOK, [Next]_vars PROVE TypeOK'
      OBVIOUS
    <2>1. ASSUME NEW o \in Orders, SubmitDuplicate(o) PROVE TypeOK'
      BY <2>1 DEF SubmitDuplicate, vars, TypeOK
    <2>2. ASSUME NEW o \in Orders, NEW ctx \in Contexts, SubmitRejected(o, ctx)
          PROVE  TypeOK'
      <3>1. Finalize(o, "REJECTED") /\ UNCHANGED <<calls, executed>>
        BY <2>2 DEF SubmitRejected
      <3>2. "REJECTED" \in Statuses
        BY DEF Statuses
      <3>3. QED
        BY <3>1, <3>2, FinalizeType DEF TypeOK
    <2>3. ASSUME NEW o \in Orders, NEW ctx \in Contexts, SubmitKept(o, ctx)
          PROVE  TypeOK'
      <3>1. PICK status \in GateOutcomes(mode, env.executor) : Finalize(o, status)
        BY <2>3 DEF SubmitKept
      <3>2. status \in Statuses
        BY GateStatuses
      <3>3. UNCHANGED <<calls, executed>>
        BY <2>3 DEF SubmitKept
      <3>4. QED
        BY <3>1, <3>2, <3>3, FinalizeType DEF TypeOK
    <2>4. ASSUME NEW o \in Orders, NEW ctx \in Contexts, SubmitSent(o, ctx)
          PROVE  TypeOK'
      <3>1. PICK status \in GateOutcomes(mode, env.executor), arrived \in BOOLEAN :
                /\ executed' = IF arrived THEN executed \cup {o.id} ELSE executed
                /\ Finalize(o, status)
        BY <2>4 DEF SubmitSent
      <3>2. status \in Statuses
        BY GateStatuses
      <3>3. o.id \in Ids
        BY OrderServiceAssumption
      <3>4. executed' \subseteq Ids
        BY <3>1, <3>3 DEF TypeOK
      <3>5. calls' \in [Ids -> Nat]
        BY <2>4, <3>3 DEF SubmitSent, TypeOK
      <3>6. QED
        BY <3>1, <3>2, <3>4, <3>5, FinalizeType DEF TypeOK
    <2>5. ASSUME NEW engaged \in BOOLEAN, SetKillSwitch(engaged) PROVE TypeOK'
      BY <2>5 DEF SetKillSwitch, TypeOK
    <2>6. ASSUME BreakerMoves PROVE TypeOK'
      BY <2>6 DEF BreakerMoves, TypeOK
    <2>7. CASE UNCHANGED vars
      BY <2>7 DEF vars, TypeOK
    <2>8. QED
      BY <2>1, <2>2, <2>3, <2>4, <2>5, <2>6, <2>7 DEF Next
  <1>3. QED
    BY <1>1, <1>2, PTL DEF Spec
-----------------------------------------------------------------------------
(* An id that was handed to the executor is remembered, which is what stops*)
(* its second call; and the mode never changes after start.                *)
OnceInv ==
    /\ mode = TradingMode(env)
    /\ \A i \in Ids : /\ calls[i] \in {0, 1}
                      /\ calls[i] = 1 => seen[i] # "NONE"
                      /\ calls[i] = 1 => CallsExecutor(mode, env.executor)

LEMMA OnceInvariant == Spec => []OnceInv
  <1>1. Init => OnceInv
    BY DEF Init, OnceInv
  <1>2. TypeOK /\ OnceInv /\ [Next]_vars => OnceInv'
    <2> SUFFICES ASSUME TypeOK, OnceInv, [Next]_vars PROVE OnceInv'
      OBVIOUS
    <2>1. ASSUME NEW o \in Orders, SubmitDuplicate(o) PROVE OnceInv'
      BY <2>1 DEF SubmitDuplicate, vars, OnceInv
    <2>2. ASSUME NEW o \in Orders, NEW status \in Statuses, Finalize(o, status),
                 UNCHANGED calls
          PROVE  OnceInv'
      <3>1. \A i \in Ids : seen[i] # "NONE" => seen'[i] # "NONE"
        BY <2>2 DEF Finalize, TypeOK, Statuses
      <3>2. QED
        BY <2>2, <3>1 DEF Finalize, OnceInv
    <2>3. ASSUME NEW o \in Orders, NEW ctx \in Contexts, SubmitRejected(o, ctx)
          PROVE  OnceInv'
      BY <2>2, <2>3 DEF SubmitRejected, Statuses
    <2>4. ASSUME NEW o \in Orders, NEW ctx \in Contexts, SubmitKept(o, ctx)
          PROVE  OnceInv'
      BY <2>2, <2>4, GateStatuses DEF SubmitKept
    <2>5. ASSUME NEW o \in Orders, NEW ctx \in Contexts, SubmitSent(o, ctx)
          PROVE  OnceInv'
      <3>1. PICK status \in Statuses \ {"REJECTED"} : Finalize(o, status)
        BY <2>5, GateStatuses DEF SubmitSent
      <3>2. o.id \in Ids /\ seen[o.id] = "NONE" /\ CallsExecutor(mode, env.executor)
        BY <2>5, OrderServiceAssumption DEF SubmitSent, IsNew
      <3>3. calls[o.id] = 0
        BY <3>2 DEF OnceInv
      <3>4. calls' = [calls EXCEPT ![o.id] = 1]
        BY <2>5, <3>3 DEF SubmitSent
      <3>5. seen' = [seen EXCEPT ![o.id] = status] /\ UNCHANGED <<env, mode>>
        BY <3>1 DEF Finalize
      <3>6. status # "NONE"
        BY <3>1 DEF Statuses
      <3>7. QED
        BY <3>2, <3>4, <3>5, <3>6 DEF OnceInv, TypeOK
    <2>6. ASSUME NEW engaged \in BOOLEAN, SetKillSwitch(engaged) PROVE OnceInv'
      BY <2>6 DEF SetKillSwitch, OnceInv
    <2>7. ASSUME BreakerMoves PROVE OnceInv'
      BY <2>7 DEF BreakerMoves, OnceInv
    <2>8. CASE UNCHANGED vars
      BY <2>8 DEF vars, OnceInv
    <2>9. QED
      BY <2>1, <2>3, <2>4, <2>5, <2>6, <2>7, <2>8 DEF Next
  <1>3. QED
    BY <1>1, <1>2, TypeCorrect, PTL DEF Spec

(* No id is ever handed to the executor twice.                             *)
THEOREM AtMostOnce == Spec => []SentAtMostOnce
  <1>1. OnceInv => SentAtMostOnce
    BY DEF OnceInv, SentAtMostOnce
  <1>2. QED
    BY <1>1, OnceInvariant, PTL

(* A process that was not granted LIVE, or has no executor, sends nothing. *)
THEOREM OnlyLiveSends == Spec => []OnlyGrantedLiveSends
  <1>1. OnceInv => OnlyGrantedLiveSends
    <2> SUFFICES ASSUME OnceInv, NEW i \in Ids, calls[i] > 0
                 PROVE  LiveGranted(env) /\ env.executor
      BY DEF OnlyGrantedLiveSends, LiveGranted
    <2>1. calls[i] = 1
      BY DEF OnceInv
    <2>2. TradingMode(env) = "LIVE" /\ env.executor
      BY <2>1 DEF OnceInv, CallsExecutor
    <2>3. QED
      BY <2>2 DEF TradingMode
  <1>2. QED
    BY <1>1, OnceInvariant, PTL
-----------------------------------------------------------------------------
(* The ledger and the remembered results say the same: every remembered id *)
(* has one entry, with its status, and what the broker executed was sent.  *)
LedgerInv ==
    /\ \A n \in DOMAIN ledger : seen[ledger[n].id] = ledger[n].status
    /\ \A n, m \in DOMAIN ledger : ledger[n].id = ledger[m].id => n = m
    /\ \A i \in Ids : seen[i] # "NONE" => \E n \in DOMAIN ledger : ledger[n].id = i
    /\ \A i \in executed : seen[i] \in {"SUBMITTED", "FAILED"}
    /\ \A i \in Ids : seen[i] = "SUBMITTED" => i \in executed

LEMMA LedgerEntries ==
    ASSUME TypeOK, NEW n \in DOMAIN ledger
    PROVE  ledger[n].id \in Ids /\ ledger[n].status \in Statuses
  <1> DEFINE Entries == [id : Ids, side : Sides, status : Statuses]
  <1>1. ledger \in Seq(Entries)
    BY DEF TypeOK
  <1> HIDE DEF Entries
  <1>2. ledger[n] \in Entries
    BY <1>1
  <1>3. QED
    BY <1>2 DEF Entries

(* A first result is one new entry at the end of the ledger; the broker's  *)
(* side must agree with it.                                                *)
LEMMA FinalizeKeepsLedger ==
    ASSUME TypeOK, LedgerInv, NEW o \in Orders, NEW status \in Statuses,
           IsNew(o), Finalize(o, status),
           \/ executed' = executed /\ status # "SUBMITTED"
           \/ executed' = executed \cup {o.id} /\ status \in {"SUBMITTED", "FAILED"}
    PROVE  LedgerInv'
  <1> DEFINE entry == [id |-> o.id, side |-> o.side, status |-> status]
             k == Len(ledger) + 1
  <1>1. o.id \in Ids /\ seen[o.id] = "NONE" /\ status # "NONE"
    BY OrderServiceAssumption DEF IsNew, Statuses
  <1>2. seen' = [seen EXCEPT ![o.id] = status] /\ ledger' = Append(ledger, entry)
    BY DEF Finalize
  <1>3. /\ ledger \in Seq([id : Ids, side : Sides, status : Statuses])
        /\ seen \in [Ids -> Statuses \cup {"NONE"}]
        /\ executed \subseteq Ids
    BY DEF TypeOK
  <1>4. /\ DOMAIN ledger' = DOMAIN ledger \cup {k}
        /\ k \notin DOMAIN ledger
        /\ \A n \in DOMAIN ledger : ledger'[n] = ledger[n]
        /\ ledger'[k] = entry
    <2> HIDE DEF entry
    <2>1. QED
      BY <1>2, <1>3
  <1>5. \A n \in DOMAIN ledger : /\ ledger[n].id \in Ids
                                 /\ ledger[n].status \in Statuses
    BY LedgerEntries
  <1>6. \A n \in DOMAIN ledger : ledger[n].id # o.id
    BY <1>1, <1>5 DEF LedgerInv, Statuses
  <1>7. entry.id = o.id /\ entry.status = status
    OBVIOUS
  <1>8. \A n \in DOMAIN ledger' : seen'[ledger'[n].id] = ledger'[n].status
    BY <1>1, <1>2, <1>3, <1>4, <1>5, <1>6, <1>7 DEF LedgerInv
  <1>9. \A n, m \in DOMAIN ledger' : ledger'[n].id = ledger'[m].id => n = m
    <2> SUFFICES ASSUME NEW n \in DOMAIN ledger', NEW m \in DOMAIN ledger',
                        ledger'[n].id = ledger'[m].id
                 PROVE  n = m
      OBVIOUS
    <2>1. CASE n = k /\ m = k
      BY <2>1
    <2>2. CASE n \in DOMAIN ledger /\ m \in DOMAIN ledger
      BY <2>2, <1>4 DEF LedgerInv
    <2>3. QED
      BY <2>1, <2>2, <1>4, <1>6, <1>7
  <1>10. \A i \in Ids : seen'[i] # "NONE" => \E n \in DOMAIN ledger' : ledger'[n].id = i
    BY <1>2, <1>3, <1>4, <1>7 DEF LedgerInv
  <1>11. \A i \in executed' : seen'[i] \in {"SUBMITTED", "FAILED"}
    BY <1>1, <1>2, <1>3 DEF LedgerInv
  <1>12. \A i \in Ids : seen'[i] = "SUBMITTED" => i \in executed'
    BY <1>1, <1>2, <1>3 DEF LedgerInv
  <1>13. QED
    BY <1>8, <1>9, <1>10, <1>11, <1>12 DEF LedgerInv

LEMMA LedgerInvariant == Spec => []LedgerInv
  <1>1. Init => LedgerInv
    BY DEF Init, LedgerInv
  <1>2. TypeOK /\ LedgerInv /\ [Next]_vars => LedgerInv'
    <2> SUFFICES ASSUME TypeOK, LedgerInv, [Next]_vars PROVE LedgerInv'
      OBVIOUS
    <2>1. ASSUME NEW o \in Orders, SubmitDuplicate(o) PROVE LedgerInv'
      BY <2>1 DEF SubmitDuplicate, vars, LedgerInv
    <2>2. ASSUME NEW o \in Orders, NEW ctx \in Contexts, SubmitRejected(o, ctx)
          PROVE  LedgerInv'
      <3>1. IsNew(o) /\ Finalize(o, "REJECTED") /\ executed' = executed
        BY <2>2 DEF SubmitRejected
      <3>2. QED
        BY <3>1, FinalizeKeepsLedger DEF Statuses
    <2>3. ASSUME NEW o \in Orders, NEW ctx \in Contexts, SubmitKept(o, ctx)
          PROVE  LedgerInv'
      <3>1. PICK status \in GateOutcomes(mode, env.executor) : Finalize(o, status)
        BY <2>3 DEF SubmitKept
      <3>2. status \in {"DRY_RUN", "FAILED"}
        BY <2>3 DEF SubmitKept, GateOutcomes
      <3>3. IsNew(o) /\ executed' = executed
        BY <2>3 DEF SubmitKept
      <3>4. QED
        BY <3>1, <3>2, <3>3, FinalizeKeepsLedger DEF Statuses
    <2>4. ASSUME NEW o \in Orders, NEW ctx \in Contexts, SubmitSent(o, ctx)
          PROVE  LedgerInv'
      <3>1. PICK status \in GateOutcomes(mode, env.executor), arrived \in BOOLEAN :
                /\ status = "SUBMITTED" => arrived
                /\ executed' = IF arrived THEN executed \cup {o.id} ELSE executed
                /\ Finalize(o, status)
        BY <2>4 DEF SubmitSent
      <3>2. IsNew(o) /\ status \in {"SUBMITTED", "FAILED"}
        BY <2>4 DEF SubmitSent, GateOutcomes
      <3>3. QED
        BY <3>1, <3>2, FinalizeKeepsLedger DEF Statuses
    <2>5. ASSUME NEW engaged \in BOOLEAN, SetKillSwitch(engaged) PROVE LedgerInv'
      BY <2>5 DEF SetKillSwitch, LedgerInv
    <2>6. ASSUME BreakerMoves PROVE LedgerInv'
      BY <2>6 DEF BreakerMoves, LedgerInv
    <2>7. CASE UNCHANGED vars
      BY <2>7 DEF vars, LedgerInv
    <2>8. QED
      BY <2>1, <2>2, <2>3, <2>4, <2>5, <2>6, <2>7 DEF Next
  <1>3. QED
    BY <1>1, <1>2, TypeCorrect, PTL DEF Spec

(* What the broker executed has a single ledger entry, SUBMITTED or FAILED,*)
(* and a SUBMITTED entry was executed, whatever was asked twice and        *)
(* whichever calls raised after the broker had the order.                  *)
THEOREM LedgerAccountsForBroker == Spec => []LedgerCoversBroker
  <1>1. TypeOK /\ LedgerInv => LedgerCoversBroker
    <2> SUFFICES ASSUME TypeOK, LedgerInv PROVE LedgerCoversBroker
      OBVIOUS
    <2>1. ASSUME NEW i \in executed
          PROVE  Cardinality({n \in DOMAIN ledger : ledger[n].id = i}) = 1
      <3>1. i \in Ids /\ seen[i] # "NONE"
        BY DEF TypeOK, LedgerInv
      <3>2. PICK n \in DOMAIN ledger : ledger[n].id = i
        BY <3>1 DEF LedgerInv
      <3>3. {m \in DOMAIN ledger : ledger[m].id = i} = {n}
        BY <3>2 DEF LedgerInv
      <3>4. QED
        BY <3>3, FS_Singleton
    <2>2. \A n \in DOMAIN ledger : ledger[n].id \in Ids
      BY LedgerEntries
    <2>3. ASSUME NEW n \in DOMAIN ledger
          PROVE  /\ ledger[n].status = "SUBMITTED" => ledger[n].id \in executed
                 /\ ledger[n].id \in executed
                      => ledger[n].status \in {"SUBMITTED", "FAILED"}
      BY <2>2 DEF LedgerInv
    <2>4. QED
      BY <2>1, <2>3 DEF LedgerCoversBroker
  <1>2. QED
    BY <1>1, LedgerInvariant, TypeCorrect, PTL
-----------------------------------------------------------------------------
(* What submit judges by holds the service's own switches, whatever the    *)
(* caller captured.                                                        *)
LEMMA SwitchesReachContext ==
    ASSUME NEW o \in Orders, NEW ctx \in Contexts,
           ~Violates(o, EffectiveContext(ctx, killSwitch, tripped))
    PROVE  ~killSwitch /\ (o.side = "BUY" => ~tripped)
  <1> DEFINE effective == EffectiveContext(ctx, killSwitch, tripped)
  <1>1. {"killSwitch", "breakerHalt"} \subseteq DOMAIN ctx
    BY OrderServiceAssumption
  <1>2. /\ effective.killSwitch = (ctx.killSwitch \/ killSwitch)
        /\ effective.breakerHalt = (ctx.breakerHalt \/ tripped)
    BY <1>1 DEF EffectiveContext
  <1> HIDE DEF effective
  <1>3. ~effective.killSwitch /\ (o.side = "BUY" => ~effective.breakerHalt)
    BY DEF Violates, KillSwitchBlocks, CircuitBreakerBlocks, IsBuy, effective
  <1>4. QED
    BY <1>2, <1>3

(* No submission is accepted while the service's kill switch is on, and no *)
(* buy while its breaker is tripped, for every context a caller may still  *)
(* hold from before.                                                       *)
THEOREM SwitchesBindEveryCaller == Spec => SwitchesBindStaleCallers
  <1> DEFINE entry == ledger'[Len(ledger')]
  <1>1. ASSUME TypeOK, [Next]_vars, ledger' # ledger, entry.status # "REJECTED"
        PROVE  ~killSwitch /\ (entry.side = "BUY" => ~tripped)
    <2>1. ASSUME NEW o \in Orders, NEW status \in Statuses, Finalize(o, status)
          PROVE  entry.side = o.side /\ entry.status = status
      <3> DEFINE new == [id |-> o.id, side |-> o.side, status |-> status]
      <3>1. ledger' = Append(ledger, new)
        BY <2>1 DEF Finalize
      <3>2. ledger \in Seq([id : Ids, side : Sides, status : Statuses])
        BY <1>1 DEF TypeOK
      <3> HIDE DEF new
      <3>3. entry = new
        BY <3>1, <3>2
      <3>4. QED
        BY <3>3 DEF new
    <2>2. ASSUME NEW o \in Orders, NEW ctx \in Contexts, SubmitRejected(o, ctx)
          PROVE  FALSE
      BY <1>1, <2>1, <2>2 DEF SubmitRejected, Statuses
    <2>3. ASSUME NEW o \in Orders, NEW ctx \in Contexts,
                 SubmitKept(o, ctx) \/ SubmitSent(o, ctx)
          PROVE  ~killSwitch /\ (entry.side = "BUY" => ~tripped)
      <3>1. PICK status \in Statuses : Finalize(o, status)
        BY <2>3, GateStatuses DEF SubmitKept, SubmitSent
      <3>2. entry.side = o.side
        BY <2>1, <3>1
      <3>3. ~Violates(o, EffectiveContext(ctx, killSwitch, tripped))
        BY <2>3 DEF SubmitKept, SubmitSent
      <3>4. QED
        BY <3>2, <3>3, SwitchesReachContext
    <2>4. (\E o \in Orders : SubmitDuplicate(o)) \/ BreakerMoves \/ UNCHANGED vars
            \/ (\E engaged \in BOOLEAN : SetKillSwitch(engaged))
          => ledger' = ledger
      BY DEF SubmitDuplicate, SetKillSwitch, BreakerMoves, vars
    <2>5. QED
      BY <1>1, <2>2, <2>3, <2>4 DEF Next
  <1>2. TypeOK /\ [Next]_vars
          => [ (ledger' # ledger /\ entry.status # "REJECTED")
                 => ~killSwitch /\ (entry.side = "BUY" => ~tripped) ]_vars
    BY <1>1
  <1>3. QED
    BY <1>2, TypeCorrect, PTL DEF Spec, SwitchesBindStaleCallers
-----------------------------------------------------------------------------
(* Every submission is a decision of the gate or, for a known id, a        *)
(* stutter; the switches are invisible to it.                              *)
THEOREM ServiceImplementsGate == Spec => ImplementsGate
  <1> DEFINE armed == CallsExecutor(mode, env.executor)
             outcome == [i \in Ids |-> IF seen[i] = "NONE" THEN "undecided" ELSE seen[i]]
  <1>1. Init => Gate!GateInit
    BY DEF Init, Gate!GateInit, CallsExecutor, Environments
  <1>2. TypeOK /\ [Next]_vars => [Gate!GateNext]_(Gate!gateVars)
    <2> SUFFICES ASSUME TypeOK, [Next]_vars
                 PROVE  Gate!GateNext \/ UNCHANGED Gate!gateVars
      OBVIOUS
    <2>1. ASSUME NEW o \in Orders, NEW status \in Statuses, IsNew(o), Finalize(o, status)
          PROVE  /\ o.id \in Ids
                 /\ Gate!Decide(o.id, status)
      <3>1. o.id \in Ids
        BY OrderServiceAssumption
      <3>2. outcome[o.id] = "undecided"
        BY <2>1, <3>1 DEF IsNew
      <3>3. outcome' = [outcome EXCEPT ![o.id] = status]
        BY <2>1, <3>1 DEF Finalize, TypeOK, Statuses
      <3>4. armed' = armed
        BY <2>1 DEF Finalize
      <3>5. QED
        BY <3>1, <3>2, <3>3, <3>4 DEF Gate!Decide
    <2>2. ASSUME NEW o \in Orders, SubmitDuplicate(o) PROVE UNCHANGED Gate!gateVars
      BY <2>2 DEF SubmitDuplicate, vars, Gate!gateVars
    <2>3. ASSUME NEW o \in Orders, NEW ctx \in Contexts, SubmitRejected(o, ctx)
          PROVE  Gate!GateNext
      <3>1. o.id \in Ids /\ Gate!Decide(o.id, "REJECTED") /\ executed' = executed
        BY <2>1, <2>3 DEF SubmitRejected, Statuses
      <3>2. QED
        BY <3>1 DEF Gate!GateNext, Gate!KeepIn
    <2>4. ASSUME NEW o \in Orders, NEW ctx \in Contexts, SubmitKept(o, ctx)
          PROVE  Gate!GateNext
      <3>1. PICK status \in GateOutcomes(mode, env.executor) : Finalize(o, status)
        BY <2>4 DEF SubmitKept
      <3>2. status \in {"DRY_RUN", "FAILED"}
        BY <2>4 DEF SubmitKept, GateOutcomes
      <3>3. o.id \in Ids /\ Gate!Decide(o.id, status) /\ executed' = executed
        BY <2>1, <2>4, <3>1, <3>2 DEF SubmitKept, Statuses
      <3>4. QED
        BY <3>2, <3>3 DEF Gate!GateNext, Gate!KeepIn
    <2>5. ASSUME NEW o \in Orders, NEW ctx \in Contexts, SubmitSent(o, ctx)
          PROVE  Gate!GateNext
      <3>1. PICK status \in GateOutcomes(mode, env.executor), arrived \in BOOLEAN :
                /\ status = "SUBMITTED" => arrived
                /\ executed' = IF arrived THEN executed \cup {o.id} ELSE executed
                /\ Finalize(o, status)
        BY <2>5 DEF SubmitSent
      <3>2. status \in {"SUBMITTED", "FAILED"} /\ armed
        BY <2>5 DEF SubmitSent, GateOutcomes
      <3>3. o.id \in Ids /\ Gate!Decide(o.id, status)
        BY <2>1, <2>5, <3>1, <3>2 DEF SubmitSent, Statuses
      <3>4. CASE arrived
        <4>1. Gate!LetOut(o.id)
          BY <3>1, <3>2, <3>3, <3>4 DEF Gate!LetOut
        <4>2. QED
          BY <3>3, <4>1 DEF Gate!GateNext
      <3>5. CASE ~arrived
        <4>1. status = "FAILED" /\ executed' = executed
          BY <3>1, <3>2, <3>5
        <4>2. Gate!KeepIn(o.id)
          BY <3>3, <4>1 DEF Gate!KeepIn
        <4>3. QED
          BY <3>3, <4>2 DEF Gate!GateNext
      <3>6. QED
        BY <3>4, <3>5
    <2>6. ASSUME NEW engaged \in BOOLEAN, SetKillSwitch(engaged)
          PROVE  UNCHANGED Gate!gateVars
      BY <2>6 DEF SetKillSwitch, Gate!gateVars
    <2>7. ASSUME BreakerMoves PROVE UNCHANGED Gate!gateVars
      BY <2>7 DEF BreakerMoves, Gate!gateVars
    <2>8. CASE UNCHANGED vars
      BY <2>8 DEF vars, Gate!gateVars
    <2>9. QED
      BY <2>2, <2>3, <2>4, <2>5, <2>6, <2>7, <2>8 DEF Next
  <1>3. QED
    BY <1>1, <1>2, TypeCorrect, PTL DEF Spec, ImplementsGate, Gate!GateSpec
-----------------------------------------------------------------------------
(* The client.                                                             *)
Good(token, refusedAt, accepted, dropped) == token \in accepted \/ dropped > refusedAt

(* Of a call that was refused once: its token is good, or one was dropped  *)
(* since; while it waits for a token, so it is of the one that is cached,  *)
(* as its refusal cleared the one before. The same holds of the outer call.*)
Renewed(r, token, accepted, dropped) ==
    /\ r.refusedAt <= dropped /\ r.outer.refusedAt <= dropped
    /\ r.pc = "sending" /\ r.retried => Good(r.token, r.refusedAt, accepted, dropped)
    /\ r.pc \in {"waiting", "fetching"} /\ r.retried =>
          token = NoToken \/ Good(token, r.refusedAt, accepted, dropped)
    /\ r.nested /\ r.outer.retried =>
          Good(r.outer.token, r.outer.refusedAt, accepted, dropped)

(* The lock's queue: each waits there, once.                               *)
QueueHolds ==
    \A i \in DOMAIN waiters :
        /\ req[waiters[i]].pc = "waiting"
        /\ \A j \in DOMAIN waiters : waiters[i] = waiters[j] => i = j

IInv ==
    /\ ClientTypeOK
    /\ QueueHolds
    /\ FetchesAreShared
    /\ \A c \in Clients : Renewed(req[c], cached, live, drops)
-----------------------------------------------------------------------------
LEMMA IdleIsARequest == Idle \in Requests
BY ClientAssumption DEF Idle, Requests, NoOuter, Tokens

LEMMA IdleIsRenewed ==
    ASSUME NEW token, NEW accepted, NEW dropped \in Nat
    PROVE  Renewed(Idle, token, accepted, dropped)
BY DEF Idle, NoOuter, Renewed

(* A request with a token in hand is sent, nested or not.                  *)
LEMMA TokenInHand ==
    ASSUME NEW r \in Requests, NEW t \in Tokens,
           NEW token, NEW accepted, NEW dropped \in Nat,
           r.refusedAt <= dropped, r.outer.refusedAt <= dropped,
           r.retried => Good(t, r.refusedAt, accepted, dropped),
           r.nested /\ r.outer.retried =>
              Good(r.outer.token, r.outer.refusedAt, accepted, dropped)
    PROVE  /\ WithToken(r, t) \in Requests
           /\ WithToken(r, t).pc = "sending"
           /\ Renewed(WithToken(r, t), token, accepted, dropped)
<1>1. CASE NeedsAccount(r)
  <2>1. WithToken(r, t) =
          [pc |-> "sending", account |-> r.account, nested |-> TRUE, token |-> t,
           retried |-> FALSE, attempt |-> 0, refusedAt |-> 0,
           outer |-> [token |-> t, retried |-> r.retried, refusedAt |-> r.refusedAt]]
    BY <1>1 DEF WithToken, Sending, Nested, Requests
  <2> QED  BY <2>1, ClientAssumption DEF Requests, Renewed
<1>2. CASE ~NeedsAccount(r)
  <2>1. WithToken(r, t) = [r EXCEPT !.pc = "sending", !.token = t, !.attempt = 0]
    BY <1>2 DEF WithToken, Sending
  <2> DEFINE w == [r EXCEPT !.pc = "sending", !.token = t, !.attempt = 0]
  <2>2. w \in Requests
    <3>1. 0 \in 0..MaxRetries
      BY ClientAssumption
    <3> QED  BY <3>1 DEF Requests
  <2>3. /\ w.pc = "sending" /\ w.token = t /\ w.retried = r.retried
        /\ w.refusedAt = r.refusedAt /\ w.outer = r.outer /\ w.nested = r.nested
    BY DEF Requests
  <2> HIDE DEF w
  <2>4. Renewed(w, token, accepted, dropped)
    BY <2>3 DEF Renewed
  <2> QED  BY <2>1, <2>2, <2>3, <2>4 DEF w
<1> QED  BY <1>1, <1>2

(* get_accounts is called: what the outer call has is kept in its frame.   *)
LEMMA NestedCall ==
    ASSUME NEW q \in Requests, NEW t \in Tokens
    PROVE  /\ Nested(q, t) \in Requests /\ Nested(q, t).nested = TRUE
           /\ Nested(q, t).retried = FALSE /\ Nested(q, t).refusedAt = 0
           /\ Nested(q, t).outer =
                [token |-> t, retried |-> q.retried, refusedAt |-> q.refusedAt]
<1> DEFINE o == [token |-> t, retried |-> q.retried, refusedAt |-> q.refusedAt]
           n == [q EXCEPT !.nested = TRUE, !.retried = FALSE, !.attempt = 0,
                          !.refusedAt = 0, !.outer = o]
<1>1. o \in [token : Tokens, retried : BOOLEAN, refusedAt : Nat]
  BY DEF Requests
<1>2. Nested(q, t) = n
  BY DEF Nested
<1> HIDE DEF o
<1>3. /\ n \in Requests /\ n.nested = TRUE /\ n.retried = FALSE
      /\ n.refusedAt = 0 /\ n.outer = o
  <2>1. 0 \in 0..MaxRetries
    BY ClientAssumption
  <2> QED  BY <1>1, <2>1 DEF Requests
<1> HIDE DEF n
<1> QED  BY <1>2, <1>3 DEF o

(* How a client that becomes r leaves the queue.                           *)
QueueMoves(c, r) ==
    \/ waiters' = waiters /\ req[c].pc # "waiting"
    \/ waiters' = Append(waiters, c) /\ req[c].pc # "waiting" /\ r.pc = "waiting"
    \/ waiters # <<>> /\ c = Head(waiters) /\ waiters' = Tail(waiters)

LEMMA Unmoved ==
    ASSUME NEW c, NEW r, UNCHANGED waiters, req[c].pc # "waiting"
    PROVE  QueueMoves(c, r)
BY Zenon DEF QueueMoves

LEMMA QueueStep ==
    ASSUME IInv, NEW c \in Clients, NEW r, req' = [req EXCEPT ![c] = r], QueueMoves(c, r)
    PROVE  waiters' \in Seq(Clients) /\ QueueHolds'
<1>1. /\ waiters \in Seq(Clients) /\ req \in [Clients -> Requests]
      /\ DOMAIN waiters = 1..Len(waiters) /\ Len(waiters) \in Nat
      /\ \A i \in DOMAIN waiters : waiters[i] \in Clients /\ req[waiters[i]].pc = "waiting"
      /\ \A i, j \in DOMAIN waiters : waiters[i] = waiters[j] => i = j
  BY DEF IInv, ClientTypeOK, QueueHolds
<1>2. req'[c] = r /\ \A d \in Clients \ {c} : req'[d] = req[d]
  BY <1>1
<1>3. CASE waiters' = waiters /\ req[c].pc # "waiting"
  <2>1. \A i \in DOMAIN waiters : waiters[i] # c
    BY <1>1, <1>3
  <2> QED  BY <1>1, <1>2, <1>3, <2>1 DEF QueueHolds
<1>4. CASE waiters' = Append(waiters, c) /\ req[c].pc # "waiting" /\ r.pc = "waiting"
  <2>1. \A i \in DOMAIN waiters : waiters[i] # c
    BY <1>1, <1>4
  <2>2. /\ waiters' \in Seq(Clients) /\ DOMAIN waiters' = 1..(Len(waiters) + 1)
        /\ waiters'[Len(waiters) + 1] = c
        /\ \A i \in DOMAIN waiters : waiters'[i] = waiters[i]
    BY <1>1, <1>4
  <2>3. \A i \in DOMAIN waiters' : i \in DOMAIN waiters \/ i = Len(waiters) + 1
    BY <1>1, <2>2
  <2> QED  BY <1>1, <1>2, <1>4, <2>1, <2>2, <2>3 DEF QueueHolds
<1>5. CASE waiters # <<>> /\ c = Head(waiters) /\ waiters' = Tail(waiters)
  <2>1. /\ waiters' \in Seq(Clients) /\ DOMAIN waiters' = 1..(Len(waiters) - 1)
        /\ \A i \in DOMAIN waiters' : waiters'[i] = waiters[i + 1]
        /\ waiters[1] = c /\ 1 \in DOMAIN waiters
    BY <1>1, <1>5
  <2>2. \A i \in DOMAIN waiters' : i + 1 \in DOMAIN waiters /\ i + 1 # 1 /\ i \in Nat
    BY <1>1, <2>1
  <2>3. \A i \in DOMAIN waiters' : waiters'[i] \in Clients \ {c} /\ req[waiters'[i]].pc = "waiting"
    BY <1>1, <2>1, <2>2
  <2>4. \A i, j \in DOMAIN waiters' : waiters'[i] = waiters'[j] => i = j
    <3> TAKE i, j \in DOMAIN waiters'
    <3>1. waiters'[i] = waiters'[j] => i + 1 = j + 1
      BY <1>1, <2>1, <2>2
    <3> QED  BY <2>2, <3>1
  <2> QED  BY <1>2, <2>1, <2>3, <2>4 DEF QueueHolds
<1> QED  BY <1>3, <1>4, <1>5 DEF QueueMoves

(* What has to be shown of a step of one client.                           *)
LEMMA ClientStep ==
    ASSUME IInv, NEW c \in Clients, NEW r \in Requests, req' = [req EXCEPT ![c] = r],
           cached' \in Tokens, aged' \in BOOLEAN, accountSeq' \in BOOLEAN,
           issued' \in Nat, live' \subseteq 1..issued',
           agings' \in 0..MaxAged, drops' \in 0..MaxDrops, QueueMoves(c, r),
           Renewed(r, cached', live', drops'),
           \A d \in Clients \ {c} : /\ Renewed(req[d], cached', live', drops')
                                    /\ req[d].pc = "fetching" => ~Valid'
                                    /\ req[d].pc = "fetching" => r.pc # "fetching",
           r.pc = "fetching" => ~Valid'
    PROVE  IInv'
<1>1. req \in [Clients -> Requests]
  BY DEF IInv, ClientTypeOK
<1>2. req'[c] = r /\ \A d \in Clients \ {c} : req'[d] = req[d]
  BY <1>1
<1>3. ClientTypeOK' /\ QueueHolds'
  BY <1>1, QueueStep DEF ClientTypeOK
<1>4. FetchesAreShared'
  BY <1>2 DEF IInv, FetchesAreShared
<1>5. ASSUME NEW d \in Clients PROVE Renewed(req[d], cached, live, drops)'
  BY <1>2
<1> QED  BY <1>3, <1>4, <1>5 DEF IInv

(* A step of one client that leaves token and broker alone.                *)
LEMMA QuietStep ==
    ASSUME IInv, NEW c \in Clients, NEW r \in Requests, req' = [req EXCEPT ![c] = r],
           UNCHANGED <<cached, aged, broker, agings, drops>>,
           accountSeq' \in BOOLEAN, QueueMoves(c, r),
           Renewed(r, cached, live, drops),
           r.pc = "fetching" => ~Valid /\ \A d \in Clients \ {c} : req[d].pc # "fetching"
    PROVE  IInv'
<1>1. Valid' = Valid
  BY DEF Valid
<1>2. \A d \in Clients : Renewed(req[d], cached', live', drops')
  BY DEF IInv, broker
<1>3. \A d \in Clients : req[d].pc = "fetching" => ~Valid
  BY DEF IInv, FetchesAreShared
<1>4. /\ cached' \in Tokens /\ aged' \in BOOLEAN /\ issued' \in Nat /\ live' \subseteq 1..issued'
      /\ agings' \in 0..MaxAged /\ drops' \in 0..MaxDrops
  BY DEF IInv, ClientTypeOK, broker
<1>5. Renewed(r, cached', live', drops')
  BY DEF broker
<1> QED  BY <1>1, <1>2, <1>3, <1>4, <1>5, ClientStep

(* _ensure_token without a usable token: the lock or its queue.            *)
LEMMA Queues ==
    ASSUME IInv, NEW c \in Clients, NEW r \in Requests, WaitOrFetch(c, r),
           req[c].pc # "waiting",
           cached' \in Tokens, aged' \in BOOLEAN, accountSeq' \in BOOLEAN,
           issued' \in Nat, live' \subseteq 1..issued',
           agings' \in 0..MaxAged, drops' \in 0..MaxDrops, ~Valid',
           \A d \in Clients : Renewed(req[d], cached', live', drops'),
           \A step \in {"waiting", "fetching"} :
              Renewed([r EXCEPT !.pc = step], cached', live', drops')
    PROVE  IInv'
<1>1. CASE LockedByOther(c) \/ waiters # <<>>
  <2> DEFINE w == [r EXCEPT !.pc = "waiting"]
  <2>1. req' = [req EXCEPT ![c] = w] /\ waiters' = Append(waiters, c) /\ w.pc = "waiting"
    BY <1>1 DEF WaitOrFetch, Requests
  <2>2. QueueMoves(c, w)
    <3> HIDE DEF w
    <3> QED  BY <2>1, Zenon DEF QueueMoves
  <2>3. w \in Requests /\ w.pc = "waiting" /\ Renewed(w, cached', live', drops')
    BY DEF Requests
  <2> HIDE DEF w
  <2> QED  BY <2>1, <2>2, <2>3, ClientStep
<1>2. CASE ~(LockedByOther(c) \/ waiters # <<>>)
  <2> DEFINE w == [r EXCEPT !.pc = "fetching"]
  <2>1. req' = [req EXCEPT ![c] = w] /\ QueueMoves(c, w)
    BY <1>2, Unmoved DEF WaitOrFetch
  <2>2. w \in Requests /\ w.pc = "fetching" /\ Renewed(w, cached', live', drops')
    BY DEF Requests
  <2>3. \A d \in Clients \ {c} : req[d].pc # "fetching"
    BY <1>2 DEF LockedByOther
  <2> HIDE DEF w
  <2> QED  BY <2>1, <2>2, <2>3, ClientStep
<1> QED  BY <1>1, <1>2

(* The same when the broker was not asked.                                 *)
LEMMA Waits ==
    ASSUME IInv, NEW c \in Clients, NEW r \in Requests, WaitOrFetch(c, r),
           req[c].pc # "waiting",
           UNCHANGED <<accountSeq, broker, agings, drops>>, aged' = aged,
           cached' \in {cached, NoToken}, ~Valid',
           \A step \in {"waiting", "fetching"} :
              Renewed([r EXCEPT !.pc = step], cached', live, drops)
    PROVE  IInv'
<1>1. /\ cached' \in Tokens /\ aged' \in BOOLEAN /\ accountSeq' \in BOOLEAN
      /\ issued' \in Nat /\ live' = live /\ drops' = drops /\ live' \subseteq 1..issued'
      /\ agings' \in 0..MaxAged /\ drops' \in 0..MaxDrops
  BY DEF IInv, ClientTypeOK, broker, Tokens
<1>2. \A d \in Clients : Renewed(req[d], cached', live', drops')
  <2>1. \A d \in Clients : Renewed(req[d], cached, live, drops)
    BY DEF IInv
  <2> QED  BY <1>1, <2>1 DEF Renewed
<1> QED  BY <1>1, <1>2, Queues
-----------------------------------------------------------------------------
(* In each of the following, what IInv says of the request of client c.    *)
LEMMA Frame ==
    ASSUME IInv, NEW c \in Clients
    PROVE  /\ req[c] \in Requests /\ Renewed(req[c], cached, live, drops)
           /\ cached \in Tokens /\ aged \in BOOLEAN /\ accountSeq \in BOOLEAN
           /\ waiters \in Seq(Clients) /\ issued \in Nat /\ live \subseteq 1..issued
           /\ drops \in Nat
           /\ req[c].pc = "fetching" => ~Valid /\ \A d \in Clients \ {c} : req[d].pc # "fetching"
BY ClientAssumption DEF IInv, ClientTypeOK, FetchesAreShared

LEMMA Raises ==
    ASSUME IInv, NEW c \in Clients, Raise(c),
           UNCHANGED <<client, waiters, broker, agings, drops>>, req[c].pc # "waiting"
    PROVE  IInv'
<1>1. Renewed(Idle, cached, live, drops)
  BY Frame, IdleIsRenewed
<1>2. UNCHANGED <<cached, aged, accountSeq, waiters>>
  BY DEF client
<1>3. QueueMoves(c, Idle)
  BY <1>2, Unmoved
<1> QED  BY <1>1, <1>2, <1>3, Frame, IdleIsARequest, QuietStep DEF Raise, Idle

LEMMA Calls ==
    ASSUME IInv, NEW c \in Clients, NEW account \in BOOLEAN, Call(c, account)
    PROVE  IInv'
<1> DEFINE r == [Idle EXCEPT !.account = account]
<1>1. r \in Requests
  BY IdleIsARequest DEF Requests
<1>2. /\ r.retried = FALSE /\ r.nested = FALSE /\ r.refusedAt = 0 /\ r.outer.refusedAt = 0
  BY DEF Idle, NoOuter
<1>3. /\ EnsureToken(c, r, cached) /\ UNCHANGED <<client, broker, agings, drops>>
      /\ req[c].pc # "waiting"
  BY DEF Call
<1> HIDE DEF r
<1>4. CASE cached # NoToken /\ ~aged
  <2>1. req' = [req EXCEPT ![c] = WithToken(r, cached)] /\ UNCHANGED waiters
    BY <1>3, <1>4 DEF EnsureToken
  <2>2. /\ WithToken(r, cached) \in Requests /\ WithToken(r, cached).pc = "sending"
        /\ Renewed(WithToken(r, cached), cached, live, drops)
    BY <1>1, <1>2, Frame, TokenInHand
  <2>3. QueueMoves(c, WithToken(r, cached))
    BY <1>3, <2>1, Unmoved
  <2> QED  BY <1>3, <2>1, <2>2, <2>3, Frame, QuietStep DEF client
<1>5. CASE ~(cached # NoToken /\ ~aged)
  <2>1. WaitOrFetch(c, r) /\ UNCHANGED <<accountSeq, broker, agings, drops>>
        /\ aged' = aged /\ cached' = cached
    BY <1>3, <1>5 DEF EnsureToken, client
  <2>2. ~Valid'
    BY <1>5, <2>1 DEF Valid
  <2>3. \A step \in {"waiting", "fetching"} :
           Renewed([r EXCEPT !.pc = step], cached', live, drops)
    BY <1>1, <1>2, Frame DEF Renewed, Requests
  <2> QED  BY <1>1, <1>3, <2>1, <2>2, <2>3, Waits
<1> QED  BY <1>4, <1>5

LEMMA Acquires ==
    ASSUME IInv, NEW c \in Clients, Acquire(c)
    PROVE  IInv'
<1>1. /\ req' = [req EXCEPT ![c] = LookAgain(c)]
      /\ UNCHANGED <<client, broker, agings, drops>> /\ ~Locked
  BY DEF Acquire, Woken
<1>2. req[c].pc = "waiting"
  <2>1. waiters # <<>> /\ c = Head(waiters)
    BY DEF Acquire
  <2>2. 1 \in DOMAIN waiters /\ waiters[1] = c
    BY <2>1, Frame
  <2> QED  BY <2>2 DEF IInv, QueueHolds
<1>3. \A r : QueueMoves(c, r)
  BY Zenon DEF Acquire, QueueMoves
<1>4. CASE Valid
  <2>1. LookAgain(c) = WithToken(req[c], cached)
    BY <1>4 DEF LookAgain
  <2>2. req[c].retried => Good(cached, req[c].refusedAt, live, drops)
    BY <1>4, <1>2, Frame DEF Renewed, Valid
  <2>3. /\ WithToken(req[c], cached) \in Requests
        /\ WithToken(req[c], cached).pc = "sending"
        /\ Renewed(WithToken(req[c], cached), cached, live, drops)
    <3>1. /\ req[c].refusedAt <= drops /\ req[c].outer.refusedAt <= drops
          /\ req[c].nested /\ req[c].outer.retried =>
                Good(req[c].outer.token, req[c].outer.refusedAt, live, drops)
      BY Frame DEF Renewed
    <3> QED  BY <2>2, <3>1, Frame, TokenInHand
  <2> QED  BY <1>1, <1>3, <2>1, <2>3, Frame, QuietStep DEF client
<1>5. CASE ~Valid
  <2> DEFINE r == [req[c] EXCEPT !.pc = "fetching"]
  <2>1. LookAgain(c) = r
    BY <1>5 DEF LookAgain
  <2>2. r \in Requests
    BY Frame DEF Requests
  <2>3. Renewed(r, cached, live, drops)
    BY <1>2, Frame DEF Renewed, Requests
  <2>4. \A d \in Clients : req[d].pc # "fetching"
    BY <1>1 DEF Locked
  <2> HIDE DEF r
  <2> QED  BY <1>1, <1>5, <1>3, <2>1, <2>2, <2>3, <2>4, Frame, QuietStep DEF client
<1> QED  BY <1>4, <1>5

(* A new token is good for whoever was refused before, and for its own call*)
(* even if it is too old for the next one: outer.token is that token while *)
(* get_accounts waits for another.                                         *)
LEMMA Fetches ==
    ASSUME IInv, NEW c \in Clients, Fetched(c)
    PROVE  IInv'
<1> DEFINE t == issued + 1
<1>1. /\ req[c].pc = "fetching"
      /\ cached' = t /\ issued' = t /\ live' = live \cup {t} /\ drops' = drops
      /\ accountSeq' = accountSeq
  BY DEF Fetched
<1>2. aged' \in BOOLEAN /\ agings' \in 0..MaxAged
  <2>1. agings \in 0..MaxAged /\ MaxAged \in Nat
    BY ClientAssumption DEF IInv, ClientTypeOK
  <2>2. \/ aged' = FALSE /\ agings' = agings
        \/ aged' = TRUE /\ agings < MaxAged /\ agings' = agings + 1
    BY DEF Fetched
  <2>3. CASE aged' = FALSE /\ agings' = agings
    BY <2>1, <2>3
  <2>4. CASE aged' = TRUE /\ agings < MaxAged /\ agings' = agings + 1
    BY <2>1, <2>4
  <2> QED  BY <2>2, <2>3, <2>4
<1>3. t \in Tokens /\ t \in Nat /\ live' \subseteq 1..t /\ drops' \in 0..MaxDrops
  BY <1>1, Frame DEF Tokens, IInv, ClientTypeOK
<1>4. \A d \in Clients : Renewed(req[d], cached', live', drops')
  <2>1. \A d \in Clients : Renewed(req[d], cached, live, drops)
    BY DEF IInv
  <2> QED  BY <1>1, <2>1 DEF Renewed, Good
<1>5. Good(t, req[c].refusedAt, live', drops')
  BY <1>1 DEF Good
<1>6. \A d \in Clients \ {c} : req[d].pc # "fetching"
  BY <1>1, Frame
<1>7. accountSeq' \in BOOLEAN
  BY <1>1, Frame
<1>8. req[c] \in Requests /\ drops' \in Nat
  BY <1>1, Frame
<1>9. CASE aged' /\ NeedsAccount(req[c])
  <2> DEFINE n == Nested(req[c], t)
  <2>1. WaitOrFetch(c, n)
    BY <1>9 DEF Fetched
  <2> HIDE DEF t
  <2>2. /\ n \in Requests /\ n.nested = TRUE /\ n.retried = FALSE /\ n.refusedAt = 0
        /\ n.outer = [token |-> t, retried |-> req[c].retried, refusedAt |-> req[c].refusedAt]
    <3>1. req[c] \in Requests /\ t \in Tokens
      BY <1>3, <1>8
    <3> QED  BY <3>1, NestedCall DEF Requests
  <2> HIDE DEF n
  <2>3. ASSUME NEW step \in {"waiting", "fetching"}
        PROVE  Renewed([n EXCEPT !.pc = step], cached', live', drops')
    <3> DEFINE w == [n EXCEPT !.pc = step]
    <3>1. /\ w.pc = step /\ w.retried = FALSE /\ w.refusedAt = 0
          /\ w.outer.token = t /\ w.outer.refusedAt = req[c].refusedAt
      BY <2>2 DEF Requests
    <3> HIDE DEF w
    <3>2. req[c].refusedAt <= drops' /\ 0 <= drops'
      BY <1>4, <1>8 DEF Renewed
    <3>3. Renewed(w, cached', live', drops')
      BY <1>5, <3>1, <3>2 DEF Renewed
    <3> QED  BY <3>3 DEF w
  <2>4. ~Valid'
    BY <1>9 DEF Valid
  <2>5. req[c].pc # "waiting" /\ cached' \in Tokens /\ issued' \in Nat /\ live' \subseteq 1..issued'
    BY <1>1, <1>3
  <2> QED  BY <1>2, <1>3, <1>4, <1>7, <2>1, <2>2, <2>3, <2>4, <2>5, Queues
<1>10. CASE ~(aged' /\ NeedsAccount(req[c]))
  <2> DEFINE w == WithToken(req[c], t)
  <2>1. req' = [req EXCEPT ![c] = w] /\ UNCHANGED waiters
    BY <1>10 DEF Fetched
  <2>2. w \in Requests /\ w.pc = "sending" /\ Renewed(w, cached', live', drops')
    <3>1. /\ req[c].refusedAt <= drops' /\ req[c].outer.refusedAt <= drops'
          /\ req[c].nested /\ req[c].outer.retried =>
                Good(req[c].outer.token, req[c].outer.refusedAt, live', drops')
      BY <1>4 DEF Renewed
    <3> QED  BY <1>3, <1>5, <1>8, <3>1, TokenInHand
  <2>3. QueueMoves(c, w)
    BY <1>1, <2>1, Unmoved
  <2> HIDE DEF w, t
  <2> QED  BY <1>1, <1>2, <1>3, <1>4, <1>6, <1>7, <2>1, <2>2, <2>3, ClientStep
<1> QED  BY <1>9, <1>10

LEMMA SendsAgain ==
    ASSUME IInv, NEW c \in Clients, SendAgain(c)
    PROVE  IInv'
<1> DEFINE r == [req[c] EXCEPT !.attempt = @ + 1]
<1>1. /\ req' = [req EXCEPT ![c] = r] /\ req[c].pc = "sending"
      /\ UNCHANGED <<cached, aged, accountSeq, waiters, broker, agings, drops>>
  BY DEF SendAgain, client
<1>2. r \in Requests
  <2>1. req[c] \in Requests
    BY Frame
  <2>2. req[c].attempt + 1 \in 0..MaxRetries
    <3>1. req[c].attempt \in 0..MaxRetries /\ req[c].attempt < MaxRetries
      BY <2>1 DEF SendAgain, AttemptsLeft, Requests
    <3> QED  BY <3>1, ClientAssumption
  <2> QED  BY <2>1, <2>2 DEF Requests
<1>3. Renewed(r, cached, live, drops) /\ r.pc = "sending"
  BY <1>1, Frame DEF Requests, Renewed
<1>4. QueueMoves(c, r)
  BY <1>1, Unmoved
<1> HIDE DEF r
<1> QED  BY <1>1, <1>2, <1>3, <1>4, Frame, QuietStep

LEMMA Retries ==
    ASSUME IInv, NEW c \in Clients, RenewAndRetry(c)
    PROVE  IInv'
<1>1. /\ req[c].pc = "sending" /\ cached' = NoToken /\ aged' = aged
      /\ UNCHANGED <<accountSeq, broker, agings, drops>>
      /\ EnsureToken(c, Again(c), NoToken)
  BY DEF RenewAndRetry, TokenAfter401, Refused
<1>2. WaitOrFetch(c, Again(c)) /\ ~Valid'
  BY <1>1 DEF EnsureToken, Valid
<1>3. /\ Again(c) \in Requests
      /\ Again(c).refusedAt = drops /\ Again(c).outer = req[c].outer
      /\ Again(c).nested = req[c].nested
  <2>1. NoToken \in Tokens /\ 0 \in 0..MaxRetries
    BY ClientAssumption DEF Tokens
  <2> QED  BY <2>1, Frame DEF Again, Requests
<1>4. ASSUME NEW step \in {"waiting", "fetching"}
      PROVE  Renewed([Again(c) EXCEPT !.pc = step], cached', live, drops)
  <2> DEFINE w == [Again(c) EXCEPT !.pc = step]
  <2>1. /\ w.pc = step /\ w.refusedAt = drops /\ w.outer = req[c].outer
        /\ w.nested = req[c].nested
    BY <1>3 DEF Requests
  <2> HIDE DEF w
  <2>2. Renewed(w, cached', live, drops)
    BY <1>1, <2>1, Frame DEF Renewed
  <2> QED  BY <2>2 DEF w
<1> QED  BY <1>1, <1>2, <1>3, <1>4, Waits

LEMMA BackToTheOuter ==
    ASSUME NEW q \in Requests
    PROVE  LET o == q.outer
               x == [q EXCEPT !.nested = FALSE, !.retried = o.retried,
                              !.refusedAt = o.refusedAt, !.outer = NoOuter]
               r == Sending(x, o.token)
           IN  /\ r \in Requests /\ r.pc = "sending" /\ ~r.nested
               /\ r.token = o.token /\ r.retried = o.retried
               /\ r.refusedAt = o.refusedAt /\ r.outer = NoOuter
<1> DEFINE o == q.outer
           x == [q EXCEPT !.nested = FALSE, !.retried = o.retried,
                          !.refusedAt = o.refusedAt, !.outer = NoOuter]
<1>1. /\ o \in [token : Tokens, retried : BOOLEAN, refusedAt : Nat]
      /\ NoOuter \in [token : Tokens, retried : BOOLEAN, refusedAt : Nat]
  BY DEF Requests, NoOuter, Tokens
<1>2. o.token \in Tokens /\ o.retried \in BOOLEAN /\ o.refusedAt \in Nat
  BY <1>1
<1> HIDE DEF o
<1>3. /\ x \in Requests /\ x.nested = FALSE /\ x.retried = o.retried
      /\ x.refusedAt = o.refusedAt /\ x.outer = NoOuter
  BY <1>1, <1>2 DEF Requests
<1> HIDE DEF x
<1> DEFINE r == [x EXCEPT !.pc = "sending", !.token = o.token, !.attempt = 0]
<1>4. 0 \in 0..MaxRetries
  BY ClientAssumption
<1>5. /\ r \in Requests /\ r.pc = "sending" /\ r.token = o.token
      /\ r.nested = x.nested /\ r.retried = x.retried
      /\ r.refusedAt = x.refusedAt /\ r.outer = x.outer
  BY <1>2, <1>3, <1>4 DEF Requests
<1>6. Sending(x, o.token) = r
  BY DEF Sending
<1> HIDE DEF r
<1>7. LET s == Sending(x, o.token)
      IN  /\ s \in Requests /\ s.pc = "sending" /\ ~s.nested
          /\ s.token = o.token /\ s.retried = o.retried
          /\ s.refusedAt = o.refusedAt /\ s.outer = NoOuter
  BY <1>3, <1>5, <1>6
<1> QED  BY <1>7 DEF x, o

LEMMA GetsAccounts ==
    ASSUME IInv, NEW c \in Clients, GotAccounts(c)
    PROVE  IInv'
<1> DEFINE r == Sending([req[c] EXCEPT !.nested = FALSE, !.retried = req[c].outer.retried,
                                       !.refusedAt = req[c].outer.refusedAt,
                                       !.outer = NoOuter], req[c].outer.token)
<1>1. /\ req[c].pc = "sending" /\ req[c].nested /\ req' = [req EXCEPT ![c] = r]
      /\ accountSeq' \in BOOLEAN
      /\ UNCHANGED <<cached, aged, waiters, broker, agings, drops>>
  BY DEF GotAccounts, Accepted
<1>2. /\ r \in Requests /\ r.pc = "sending" /\ ~r.nested
      /\ r.token = req[c].outer.token /\ r.retried = req[c].outer.retried
      /\ r.refusedAt = req[c].outer.refusedAt /\ r.outer = NoOuter
  <2>1. req[c] \in Requests
    BY Frame
  <2> QED  BY <2>1, BackToTheOuter
<1> HIDE DEF r
<1>3. Renewed(r, cached, live, drops)
  BY <1>1, <1>2, Frame DEF Renewed, NoOuter
<1>4. QueueMoves(c, r)
  BY <1>1, Unmoved
<1> QED  BY <1>1, <1>2, <1>3, <1>4, QuietStep

LEMMA Ages ==
    ASSUME IInv, Age
    PROVE  IInv'
<1>1. /\ aged' = TRUE /\ agings' \in 0..MaxAged
      /\ UNCHANGED <<cached, accountSeq, req, waiters, broker, drops>>
  BY ClientAssumption DEF Age, IInv, ClientTypeOK
<1> QED  BY <1>1 DEF IInv, ClientTypeOK, QueueHolds, FetchesAreShared, Valid, broker

LEMMA Drops ==
    ASSUME IInv, NEW t \in live, Drop(t)
    PROVE  IInv'
<1>1. /\ drops' = drops + 1 /\ drops' \in 0..MaxDrops /\ drops \in Nat
      /\ live' \subseteq live
      /\ UNCHANGED <<cached, aged, accountSeq, req, waiters, issued, agings>>
  BY ClientAssumption DEF Drop, IInv, ClientTypeOK, client
<1>2. ClientTypeOK' /\ QueueHolds' /\ FetchesAreShared'
  BY <1>1 DEF IInv, ClientTypeOK, QueueHolds, FetchesAreShared, Valid
<1>3. ASSUME NEW c \in Clients PROVE Renewed(req[c], cached, live, drops)'
  <2>1. /\ req[c].refusedAt \in Nat /\ req[c].outer.refusedAt \in Nat
        /\ req[c].refusedAt <= drops /\ req[c].outer.refusedAt <= drops
    BY Frame DEF Requests, Renewed
  <2>2. drops' > req[c].refusedAt /\ drops' > req[c].outer.refusedAt
    BY <1>1, <2>1
  <2> QED  BY <1>1, <2>1, <2>2 DEF Renewed, Good
<1> QED  BY <1>2, <1>3 DEF IInv
-----------------------------------------------------------------------------
LEMMA Initially == ClientInit => IInv
<1> SUFFICES ASSUME ClientInit PROVE IInv
  OBVIOUS
<1>1. ClientTypeOK
  <2>1. req \in [Clients -> Requests]
    BY IdleIsARequest DEF ClientInit
  <2>2. agings \in 0..MaxAged /\ drops \in 0..MaxDrops
    BY ClientAssumption DEF ClientInit
  <2>3. waiters \in Seq(Clients)
    BY DEF ClientInit
  <2>4. /\ cached \in Tokens /\ aged \in BOOLEAN /\ accountSeq \in BOOLEAN
        /\ issued \in Nat /\ live \subseteq 1..issued
    BY DEF ClientInit, Tokens
  <2> QED  BY <2>1, <2>2, <2>3, <2>4 DEF ClientTypeOK
<1>2. \A c \in Clients : req[c] = Idle /\ Idle.pc = "idle"
  BY DEF ClientInit, Idle
<1>3. QueueHolds /\ FetchesAreShared
  BY <1>2 DEF ClientInit, QueueHolds, FetchesAreShared
<1>4. \A c \in Clients : Renewed(req[c], cached, live, drops)
  BY <1>2, IdleIsRenewed DEF ClientInit
<1> QED  BY <1>1, <1>3, <1>4 DEF IInv

LEMMA Inductive == IInv /\ [ClientNext]_clientVars => IInv'
<1> SUFFICES ASSUME IInv, [ClientNext]_clientVars PROVE IInv'
  OBVIOUS
<1>1. ASSUME NEW c \in Clients, NEW account \in BOOLEAN, Call(c, account) PROVE IInv'
  BY <1>1, Calls
<1>2. ASSUME NEW c \in Clients, Resolve(c) PROVE IInv'
  <2>1. CASE Acquire(c) \/ Fetched(c) \/ SendAgain(c) \/ RenewAndRetry(c) \/ GotAccounts(c)
    BY <2>1, Acquires, Fetches, SendsAgain, Retries, GetsAccounts
  <2>2. CASE FetchFails(c) \/ GiveUp(c) \/ FailRefused(c) \/ FailOtherwise(c) \/ Answered(c)
    <3>1. /\ Raise(c) /\ UNCHANGED <<client, waiters, broker, agings, drops>>
          /\ req[c].pc # "waiting"
      BY <2>2 DEF FetchFails, GiveUp, FailRefused, FailOtherwise, Answered, Refused, Accepted
    <3> QED  BY <3>1, Raises
  <2> QED  BY <1>2, <2>1, <2>2 DEF Resolve
<1>3. CASE Age
  BY <1>3, Ages
<1>4. ASSUME NEW t \in live, Drop(t) PROVE IInv'
  BY <1>4, Drops
<1>5. CASE UNCHANGED clientVars
  <2>1. UNCHANGED <<cached, aged, accountSeq, req, waiters, issued, live, agings, drops>>
    BY <1>5 DEF clientVars, client, broker
  <2> QED  BY <2>1 DEF IInv, ClientTypeOK, QueueHolds, FetchesAreShared, Valid
<1> QED  BY <1>1, <1>2, <1>3, <1>4, <1>5 DEF ClientNext

LEMMA Implies == IInv => RefusedOnlyIfDroppedAgain
<1> SUFFICES ASSUME IInv, NEW c \in Clients, Refused(c), ~MayRetry(c)
             PROVE  drops > req[c].refusedAt
  BY DEF RefusedOnlyIfDroppedAgain
<1> QED  BY Frame DEF Refused, MayRetry, Renewed, Good

(* The types of clients, queue and tokens, whoever calls and however often *)
(* the broker drops or refuses.                                            *)
THEOREM ClientTypeCorrect == ClientSpec => []ClientTypeOK
<1>1. IInv => ClientTypeOK
  BY DEF IInv
<1> QED  BY <1>1, Initially, Inductive, PTL DEF ClientSpec

(* client.py:132: any number of concurrent callers share one renewal of    *)
(* the token.                                                              *)
THEOREM RenewalsAreShared == ClientSpec => []FetchesAreShared
<1>1. IInv => FetchesAreShared
  BY DEF IInv
<1> QED  BY <1>1, Initially, Inductive, PTL DEF ClientSpec

(* client.py:7: one retry with a new token is enough, unless the broker    *)
(* drops another token after it refused the first.                         *)
THEOREM OneRetryIsEnough == ClientSpec => []RefusedOnlyIfDroppedAgain
BY Initially, Inductive, Implies, PTL DEF ClientSpec
=============================================================================
