----------------------------- MODULE Tick_proof -----------------------------
(* Proofs for Tick: its types, the daily cap over ticks and midnight, that *)
(* halted ticks trade nothing, and that the book is accounted for.         *)
EXTENDS Tick, TLAPS

LEMMA NothingType == NothingBought \in [Days -> Nat]
BY DEF NothingBought

(* The accepted notional of a day grows by that of one buy.                *)
LEMMA BoughtType ==
    ASSUME bought \in [Days -> Nat], day \in Days, NEW n \in Nat
    PROVE  /\ [bought EXCEPT ![day] = @ + n] \in [Days -> Nat]
           /\ [bought EXCEPT ![day] = @ + n][day] = bought[day] + n
           /\ \A d \in Days \ {day} : [bought EXCEPT ![day] = @ + n][d] = bought[d]
OBVIOUS

LEMMA DecisionsType ==
    ASSUME NEW symbols \in SUBSET Symbols, NEW side \in Sides
    PROVE  On(symbols, side) \subseteq Decisions
BY DEF On, Decisions

LEMMA SymbolsOfType == \A side : SymbolsOf(side) \subseteq Symbols
BY DEF SymbolsOf

(* Types that are Booleans, and the others.                                *)
Flags ==
    /\ executor \in BOOLEAN /\ killSwitch \in BOOLEAN /\ tripped \in BOOLEAN
    /\ open \in BOOLEAN /\ inHours \in BOOLEAN /\ ks \in BOOLEAN /\ mustHalt \in BOOLEAN

Data ==
    /\ mode \in Modes /\ day \in Days /\ tickDay \in Days
    /\ used \in [Days -> Nat] /\ book \subseteq Symbols /\ everBought \subseteq Symbols
    /\ at \in {"idle", "loading", "reconciling", "opening", "running", "judging",
               "ordering", "filling"}
    /\ held \subseteq Symbols /\ forced \subseteq held
    /\ dailyUsed \in Nat
    /\ todo \subseteq Decisions /\ bought \in [Days -> Nat] /\ accepted \subseteq Decisions
    /\ end \in {"none", "done", "judgeFailed", "stepFailed", "crashed"}
    /\ failures \in Nat

LEMMA TypeParts == TypeOK <=> Flags /\ Data
BY DEF TypeOK, Flags, Data

(* The exit rules run on the book, after the holdings are final: this is   *)
(* why the exits are always among the holdings.                            *)
NoExitsYet == at \in {"loading", "reconciling", "opening"} => forced = {}

Typed == Flags /\ Data /\ NoExitsYet

LEMMA FlagsAreInductive == Flags /\ [Next]_vars => Flags'
<1> SUFFICES ASSUME Flags, [Next]_vars PROVE Flags'
  OBVIOUS
<1> USE DEF Flags, setup, switches, clock, db, captured, orders, Abort
<1>1. CASE Start
  BY <1>1 DEF Start, Fresh
<1>2. CASE Load \/ OpenBook \/ Assess
  BY <1>2 DEF Load, OpenBook, Assess
<1>3. ASSUME NEW mismatch \in BOOLEAN, Reconcile(mismatch) PROVE Flags'
  BY <1>3 DEF Reconcile
<1>4. ASSUME NEW buys, NEW sells, Judge(buys, sells) PROVE Flags'
  BY <1>4 DEF Judge
<1>5. CASE JudgeFails \/ Record \/ StepFails
  BY <1>5 DEF JudgeFails, Record, StepFails
<1>6. ASSUME NEW d, NEW n, PassOver(d) \/ SubmitRefused(d, n) \/ SubmitAccepted(d, n)
      PROVE Flags'
  BY <1>6 DEF PassOver, SubmitRefused, SubmitAccepted
<1>7. ASSUME NEW skipped, Fill(skipped) PROVE Flags'
  BY <1>7 DEF Fill
<1>8. CASE Crash
  BY <1>8 DEF Crash
<1>9. ASSUME NEW engaged \in BOOLEAN, SetKillSwitch(engaged) PROVE Flags'
  BY <1>9 DEF SetKillSwitch
<1>10. CASE ResetBreaker \/ ManualReconcile
  BY <1>10 DEF ResetBreaker, ManualReconcile
<1>11. CASE Clock
  BY <1>11 DEF Clock
<1>12. CASE UNCHANGED vars
  BY <1>12 DEF vars
<1> QED
  BY <1>1, <1>2, <1>3, <1>4, <1>5, <1>6, <1>7, <1>8, <1>9, <1>10, <1>11, <1>12 DEF Next

LEMMA DataIsInductive == Data /\ NoExitsYet /\ [Next]_vars => (Data /\ NoExitsYet)'
<1> DEFINE Goal == Data /\ NoExitsYet
<1> SUFFICES ASSUME Data, NoExitsYet, [Next]_vars PROVE Goal'
  OBVIOUS
<1> USE NothingType
    DEF Data, NoExitsYet, setup, switches, clock, db, captured, orders
<1>1. CASE Start
  BY <1>1 DEF Start, Fresh
<1>2. CASE Load
  BY <1>2 DEF Load, UsedThatDay
<1>3. CASE OpenBook
  BY <1>3 DEF OpenBook
<1>4. CASE Assess
  BY <1>4 DEF Assess
<1>5. ASSUME NEW mismatch \in BOOLEAN, Reconcile(mismatch) PROVE Goal'
  BY <1>5 DEF Reconcile
<1>6. ASSUME NEW buys \in SUBSET Symbols, NEW sells \in SUBSET Symbols, Judge(buys, sells)
      PROVE  Goal'
  <2>1. todo' \subseteq Decisions
    BY <1>6, DecisionsType DEF Judge, Sides
  <2> QED
    BY <1>6, <2>1 DEF Judge
<1>7. CASE JudgeFails
  BY <1>7 DEF JudgeFails, Abort, Fail
<1>8. ASSUME NEW d \in todo, PassOver(d) PROVE Goal'
  BY <1>8 DEF PassOver
<1>9. ASSUME NEW d \in todo, NEW n \in Notionals, SubmitRefused(d, n) PROVE Goal'
  BY <1>9 DEF SubmitRefused
<1>10. ASSUME NEW d \in todo, NEW n \in Notionals, SubmitAccepted(d, n) PROVE Goal'
  <2>1. n \in Nat
    BY TickAssumption
  <2>2. PICK m \in Nat : bought' = [bought EXCEPT ![day] = @ + m]
    BY <1>10, <2>1 DEF SubmitAccepted
  <2>3. bought' \in [Days -> Nat]
    BY <2>2, BoughtType
  <2>4. dailyUsed' \in Nat
    BY <1>10, <2>1 DEF SubmitAccepted, CountsAsUsed
  <2>5. accepted' \subseteq Decisions /\ todo' \subseteq Decisions
    BY <1>10 DEF SubmitAccepted
  <2> QED
    BY <1>10, <2>3, <2>4, <2>5 DEF SubmitAccepted
<1>11. CASE Record
  <2>1. used' \in [Days -> Nat]
    BY <1>11 DEF Record
  <2>2. everBought' \subseteq Symbols
    BY <1>11, SymbolsOfType DEF Record
  <2> QED
    BY <1>11, <2>1, <2>2 DEF Record
<1>12. ASSUME NEW skipped \in SUBSET Symbols, Fill(skipped) PROVE Goal'
  <2>1. book' \subseteq Symbols
    BY <1>12, SymbolsOfType DEF Fill
  <2> QED
    BY <1>12, <2>1 DEF Fill
<1>13. CASE StepFails
  BY <1>13 DEF StepFails, Abort, Fail
<1>14. CASE Crash
  BY <1>14 DEF Crash, Abort, Fail
<1>15. ASSUME NEW engaged \in BOOLEAN, SetKillSwitch(engaged) PROVE Goal'
  BY <1>15 DEF SetKillSwitch
<1>16. CASE ResetBreaker \/ ManualReconcile
  BY <1>16 DEF ResetBreaker, ManualReconcile
<1>17. CASE Clock
  <2>1. day' \in Days
    BY <1>17, TickAssumption DEF Clock, Days
  <2> QED
    BY <1>17, <2>1 DEF Clock
<1>18. CASE UNCHANGED vars
  BY <1>18 DEF vars
<1> QED
  BY <1>1, <1>2, <1>3, <1>4, <1>5, <1>6, <1>7, <1>8, <1>9, <1>10, <1>11, <1>12,
     <1>13, <1>14, <1>15, <1>16, <1>17, <1>18 DEF Next

LEMMA AlwaysTyped == Spec => []Typed
<1>1. Init => Flags
  BY DEF Init, Flags
<1>2. Init => Data /\ NoExitsYet
  <2> SUFFICES ASSUME Init PROVE Data /\ NoExitsYet
    OBVIOUS
  <2>1. 0 \in Days
    BY TickAssumption DEF Days
  <2>2. used \in [Days -> Nat] /\ bought \in [Days -> Nat] /\ dailyUsed \in Nat /\ failures \in Nat
    BY NothingType DEF Init
  <2> QED
    BY <2>1, <2>2 DEF Init, Data, NoExitsYet
<1> QED
  BY <1>1, <1>2, FlagsAreInductive, DataIsInductive, PTL DEF Spec, Typed

(* Switches, clock, tables and the locals of the tick keep their types, and*)
(* an exit is always of a symbol that is held.                             *)
THEOREM TypeCorrect == Spec => []TypeOK
<1>1. Typed => TypeOK
  BY TypeParts DEF Typed
<1> QED
  BY <1>1, AlwaysTyped, PTL
-----------------------------------------------------------------------------
(* The daily cap. At every moment of a tick, daily_used is an upper bound  *)
(* of what its date will have used once the tick is recorded, and of what  *)
(* the tick bought on any later date: its own buys are the first of those. *)
Buying == at \in {"reconciling", "opening", "running", "judging", "ordering"}

CapRecorded == \A d \in Days : used[d] <= DailyBuyCap
NothingLater == \A d \in Days : d > day => used[d] = 0 /\ bought[d] = 0
StartsToday == at # "idle" => tickDay <= day
FirstOfItsDays ==
    at \notin {"idle", "filling"} =>
        \A d \in Days : /\ d > tickDay => used[d] = 0
                        /\ d < tickDay => bought[d] = 0
OnlyWhileOrdering == at # "ordering" => bought = NothingBought
UsedIsBound ==
    Buying => /\ dailyUsed <= DailyBuyCap
              /\ used[tickDay] + bought[tickDay] <= dailyUsed
              /\ \A d \in Days : bought[d] <= dailyUsed

CapInv == /\ CapRecorded /\ NothingLater /\ StartsToday
          /\ FirstOfItsDays /\ OnlyWhileOrdering /\ UsedIsBound

LEMMA NothingIsZero == \A d \in Days : NothingBought[d] = 0
BY DEF NothingBought

LEMMA DaysAreInts == Days \subseteq Int /\ DailyBuyCap \in Nat
BY TickAssumption, GuardrailAssumption DEF Days

(* A step that moves neither the tables nor the clock nor the buys, and    *)
(* keeps the tick on one side of its loop, keeps the invariant.            *)
LEMMA CapFrame ==
    ASSUME CapInv, UNCHANGED <<day, used, tickDay, dailyUsed, bought>>,
           at # "idle" /\ at' # "idle", Buying /\ Buying', at' = at \/ at # "ordering"
    PROVE  CapInv'
BY DEF CapInv, CapRecorded, NothingLater, StartsToday, FirstOfItsDays,
       OnlyWhileOrdering, UsedIsBound, Buying

(* A tick that ends without recording leaves the tables as they were.      *)
LEMMA CapAbort ==
    ASSUME CapInv, UNCHANGED <<day, used>>, at' = "idle", bought' = NothingBought
    PROVE  CapInv'
BY NothingIsZero DEF CapInv, CapRecorded, NothingLater, StartsToday, FirstOfItsDays,
       OnlyWhileOrdering, UsedIsBound, Buying

LEMMA CapIsInductive == Typed /\ CapInv /\ [Next]_vars => CapInv'
<1> SUFFICES ASSUME Typed, CapInv, [Next]_vars PROVE CapInv'
  OBVIOUS
<1>t. /\ day \in Days /\ tickDay \in Days /\ dailyUsed \in Nat
      /\ used \in [Days -> Nat] /\ bought \in [Days -> Nat]
  BY DEF Typed, Data
<1> USE DEF setup, switches, clock, db, captured, orders
<1>1. CASE Start
  BY <1>1, <1>t, NothingIsZero, DaysAreInts
     DEF Start, Fresh, CapInv, CapRecorded, NothingLater, StartsToday, FirstOfItsDays,
         OnlyWhileOrdering, UsedIsBound, Buying
<1>2. CASE Load
  BY <1>2, <1>t, NothingIsZero, DaysAreInts
     DEF Load, UsedThatDay, CapInv, CapRecorded, NothingLater, StartsToday,
         FirstOfItsDays, OnlyWhileOrdering, UsedIsBound, Buying
<1>3. CASE OpenBook \/ Assess
  BY <1>3, CapFrame DEF OpenBook, Assess, Buying
<1>4. ASSUME NEW mismatch \in BOOLEAN, Reconcile(mismatch) PROVE CapInv'
  BY <1>4, CapFrame DEF Reconcile, Buying
<1>5. ASSUME NEW buys, NEW sells, Judge(buys, sells) PROVE CapInv'
  BY <1>5, CapFrame DEF Judge, Buying
<1>6. ASSUME NEW d, NEW n, PassOver(d) \/ SubmitRefused(d, n) PROVE CapInv'
  BY <1>6, CapFrame DEF PassOver, SubmitRefused, IsNext, Buying
<1>7. ASSUME NEW d \in todo, NEW n \in Notionals, SubmitAccepted(d, n) PROVE CapInv'
  <2> DEFINE m == IF IsBuy(d) THEN n ELSE 0
  <2>1. n \in Nat /\ m \in Nat
    BY TickAssumption
  <2>2. bought' \in [Days -> Nat] /\ bought'[day] = bought[day] + m
        /\ \A e \in Days \ {day} : bought'[e] = bought[e]
    BY <1>7, <1>t, <2>1, BoughtType DEF SubmitAccepted
  <2>3. dailyUsed' = dailyUsed + m
    BY <1>7 DEF SubmitAccepted, CountsAsUsed
  <2>4. at = "ordering" /\ UNCHANGED <<at, day, used, tickDay>>
    BY <1>7 DEF SubmitAccepted, IsNext
  <2>5. dailyUsed' <= DailyBuyCap
    <3>1. CASE IsBuy(d)
      <4>1. OrderOf(d, n).notional # Unknown /\ Cost(OrderOf(d, n)) = n
        BY <2>1, GuardrailAssumption DEF OrderOf, Cost
      <4>2. ~DailyCapExceeded(OrderOf(d, n), Context)
        BY <1>7 DEF SubmitAccepted, Violates
      <4>3. Context.dailyUsed = dailyUsed
        BY DEF Context, EffectiveContext
      <4>4. IsBuy(OrderOf(d, n))
        BY <3>1 DEF IsBuy, OrderOf
      <4> QED
        BY <3>1, <4>1, <4>2, <4>3, <4>4, <2>1, <2>3, <1>t, DaysAreInts DEF DailyCapExceeded
    <3>2. CASE ~IsBuy(d)
      BY <3>2, <2>3, <2>4, <1>t DEF CapInv, UsedIsBound, Buying
    <3> QED
      BY <3>1, <3>2
  <2>6. UsedIsBound'
    BY <2>1, <2>2, <2>3, <2>4, <2>5, <1>t, DaysAreInts DEF CapInv, UsedIsBound, Buying
  <2>7. NothingLater' /\ FirstOfItsDays'
    BY <2>1, <2>2, <2>4, <1>t, DaysAreInts DEF CapInv, NothingLater, FirstOfItsDays, StartsToday
  <2> QED
    BY <2>4, <2>6, <2>7
       DEF CapInv, CapRecorded, StartsToday, OnlyWhileOrdering
<1>8. CASE Record
  <2>1. /\ used' \in [Days -> Nat]
        /\ \A d \in Days : used'[d] = used[d] + bought[d] /\ bought'[d] = 0
    BY <1>8, <1>t, NothingIsZero DEF Record
  <2>2. at = "ordering" /\ at' = "filling" /\ bought' = NothingBought
        /\ UNCHANGED <<day, tickDay, dailyUsed>>
    BY <1>8 DEF Record
  <2>3. \A d \in Days : used[d] + bought[d] <= DailyBuyCap
    BY <2>2, <1>t, DaysAreInts DEF CapInv, CapRecorded, FirstOfItsDays, UsedIsBound, Buying
  <2>4. CapRecorded'
    BY <2>1, <2>3 DEF CapRecorded
  <2>5. NothingLater'
    BY <2>1, <2>2 DEF CapInv, NothingLater
  <2> QED
    BY <2>2, <2>4, <2>5
       DEF CapInv, StartsToday, FirstOfItsDays, OnlyWhileOrdering, UsedIsBound, Buying
<1>9. ASSUME NEW skipped, Fill(skipped) PROVE CapInv'
  BY <1>9 DEF Fill, Recorded, CapInv, CapRecorded, NothingLater, StartsToday,
              FirstOfItsDays, OnlyWhileOrdering, UsedIsBound, Buying
<1>10. CASE JudgeFails \/ StepFails \/ Crash
  BY <1>10, CapAbort DEF JudgeFails, StepFails, Crash, Abort
<1>11. ASSUME UNCHANGED <<day, used, tickDay, dailyUsed, bought, at>> PROVE CapInv'
  BY <1>11 DEF CapInv, CapRecorded, NothingLater, StartsToday, FirstOfItsDays,
               OnlyWhileOrdering, UsedIsBound, Buying
<1>12. ASSUME NEW engaged, SetKillSwitch(engaged) PROVE CapInv'
  BY <1>11, <1>12 DEF SetKillSwitch
<1>13. CASE ResetBreaker \/ ManualReconcile
  BY <1>11, <1>13 DEF ResetBreaker, ManualReconcile
<1>14. CASE Clock
  <2>1. day' \in Int /\ day' >= day
    BY <1>14, <1>t, DaysAreInts DEF Clock
  <2> QED
    BY <1>14, <1>t, <2>1, DaysAreInts
       DEF Clock, CapInv, CapRecorded, NothingLater, StartsToday, FirstOfItsDays,
           OnlyWhileOrdering, UsedIsBound, Buying
<1>15. CASE UNCHANGED vars
  BY <1>11, <1>15 DEF vars
<1> QED
  BY <1>1, <1>2, <1>3, <1>4, <1>5, <1>6, <1>7, <1>8, <1>9, <1>10, <1>12, <1>13,
     <1>14, <1>15 DEF Next

LEMMA AlwaysWithinCap == Spec => [](Typed /\ CapInv)
<1>1. Init => CapInv
  <2> SUFFICES ASSUME Init PROVE CapInv
    OBVIOUS
  <2>1. used = NothingBought /\ bought = NothingBought /\ at = "idle"
    BY DEF Init
  <2> QED
    BY <2>1, NothingIsZero, DaysAreInts
       DEF CapInv, CapRecorded, NothingLater, StartsToday, FirstOfItsDays,
           OnlyWhileOrdering, UsedIsBound, Buying
<1> QED
  BY <1>1, AlwaysTyped, CapIsInductive, PTL DEF Spec

(* The daily cap over any number of ticks, days, symbols and amounts: also *)
(* for a tick that starts before midnight and orders after it.             *)
THEOREM DailyCap == Spec => []DailyCapHolds
<1>1. Typed /\ CapInv => DailyCapHolds
  <2> SUFFICES ASSUME Typed, CapInv, NEW d \in Days PROVE used[d] + bought[d] <= DailyBuyCap
    BY DEF DailyCapHolds
  <2>1. /\ d \in Int /\ tickDay \in Int /\ used[d] \in Nat /\ bought[d] \in Nat
        /\ dailyUsed \in Nat /\ used[d] <= DailyBuyCap
    BY DaysAreInts DEF Typed, Data, CapInv, CapRecorded
  <2>2. CASE at = "ordering"
    BY <2>1, <2>2, DaysAreInts DEF CapInv, FirstOfItsDays, UsedIsBound, Buying
  <2>3. CASE at # "ordering"
    BY <2>1, <2>3, NothingIsZero, DaysAreInts DEF CapInv, OnlyWhileOrdering
  <2> QED
    BY <2>2, <2>3
<1> QED
  BY <1>1, AlwaysWithinCap, PTL
-----------------------------------------------------------------------------
(* Halts. Who releases the switch also ends the obligation to halt; orders *)
(* are accepted in the loop only, after both switches were read.           *)
HaltInv ==
    /\ mustHalt => killSwitch
    /\ HaltedTickTradesNothing
    /\ at \notin {"ordering", "filling"} => accepted = {}

LEMMA SwitchReachesContext ==
    ASSUME NEW d, NEW n, killSwitch \/ ks
    PROVE  Violates(OrderOf(d, n), Context)
<1>1. Context.killSwitch = (ks \/ killSwitch)
  BY Zenon DEF Context, EffectiveContext
<1> QED
  BY <1>1, Zenon DEF Violates, KillSwitchBlocks

LEMMA HaltIsInductive == HaltInv /\ [Next]_vars => HaltInv'
<1> SUFFICES ASSUME HaltInv, [Next]_vars PROVE HaltInv'
  OBVIOUS
<1> USE DEF HaltInv, HaltedTickTradesNothing, setup, switches, clock, db, captured, orders
<1>1. CASE Start
  BY <1>1 DEF Start, Fresh
<1>2. CASE Load \/ OpenBook \/ Assess
  BY <1>2 DEF Load, OpenBook, Assess
<1>3. ASSUME NEW mismatch \in BOOLEAN, Reconcile(mismatch) PROVE HaltInv'
  BY <1>3 DEF Reconcile
<1>4. ASSUME NEW buys, NEW sells, Judge(buys, sells) PROVE HaltInv'
  BY <1>4 DEF Judge
<1>5. ASSUME NEW d, NEW n, PassOver(d) \/ SubmitRefused(d, n) PROVE HaltInv'
  BY <1>5 DEF PassOver, SubmitRefused, IsNext
<1>6. ASSUME NEW d, NEW n, SubmitAccepted(d, n) PROVE HaltInv'
  <2>1. ~(killSwitch \/ ks)
    BY <1>6, SwitchReachesContext DEF SubmitAccepted
  <2> QED
    BY <1>6, <2>1 DEF SubmitAccepted, IsNext
<1>7. ASSUME NEW skipped, Record \/ Fill(skipped) PROVE HaltInv'
  BY <1>7 DEF Record, Fill, Recorded
<1>8. CASE JudgeFails \/ StepFails \/ Crash
  BY <1>8 DEF JudgeFails, StepFails, Crash, Abort
<1>9. ASSUME NEW engaged \in BOOLEAN, SetKillSwitch(engaged) PROVE HaltInv'
  BY <1>9 DEF SetKillSwitch
<1>10. CASE ResetBreaker \/ ManualReconcile \/ Clock
  BY <1>10 DEF ResetBreaker, ManualReconcile, Clock
<1>11. CASE UNCHANGED vars
  BY <1>11 DEF vars
<1> QED
  BY <1>1, <1>2, <1>3, <1>4, <1>5, <1>6, <1>7, <1>8, <1>9, <1>10, <1>11 DEF Next

(* A tick that found a LIVE mismatch, or began under the kill switch,      *)
(* accepts nothing, whatever other requests do while it awaits.            *)
THEOREM HaltsHold == Spec => []HaltedTickTradesNothing
<1>1. Init => HaltInv
  BY DEF Init, HaltInv, HaltedTickTradesNothing
<1>2. HaltInv => HaltedTickTradesNothing
  BY DEF HaltInv
<1> QED
  BY <1>1, <1>2, HaltIsInductive, PTL DEF Spec
-----------------------------------------------------------------------------
(* The book. What a DRY_RUN tick works on was bought on the record, and by *)
(* the time it fills its own buys, these are too.                          *)
BookInv ==
    /\ BookIsAccountedFor
    /\ mode = "DRY_RUN" /\ at \in {"running", "judging", "ordering", "filling"}
         => held \subseteq everBought
    /\ at = "filling" => SymbolsOf("BUY") \subseteq everBought

LEMMA BookIsInductive == BookInv /\ [Next]_vars => BookInv'
<1> SUFFICES ASSUME BookInv, [Next]_vars PROVE BookInv'
  OBVIOUS
<1> USE DEF BookInv, BookIsAccountedFor, setup, switches, clock, db, captured, orders
<1>1. CASE Start \/ Load \/ Assess
  BY <1>1 DEF Start, Load, Assess
<1>2. CASE OpenBook
  BY <1>2 DEF OpenBook
<1>3. ASSUME NEW mismatch \in BOOLEAN, Reconcile(mismatch) PROVE BookInv'
  BY <1>3 DEF Reconcile
<1>4. ASSUME NEW buys, NEW sells, Judge(buys, sells) PROVE BookInv'
  BY <1>4 DEF Judge
<1>5. ASSUME NEW d, NEW n, PassOver(d) \/ SubmitRefused(d, n) \/ SubmitAccepted(d, n)
      PROVE  BookInv'
  BY <1>5 DEF PassOver, SubmitRefused, SubmitAccepted, IsNext
<1>6. CASE Record
  BY <1>6 DEF Record, SymbolsOf
<1>7. ASSUME NEW skipped, Fill(skipped) PROVE BookInv'
  BY <1>7 DEF Fill, Recorded
<1>8. CASE JudgeFails \/ StepFails \/ Crash
  BY <1>8 DEF JudgeFails, StepFails, Crash, Abort
<1>9. ASSUME UNCHANGED <<mode, at, held, book, everBought, accepted>> PROVE BookInv'
  BY <1>9 DEF SymbolsOf
<1>10. ASSUME NEW engaged \in BOOLEAN, SetKillSwitch(engaged) PROVE BookInv'
  BY <1>9, <1>10 DEF SetKillSwitch
<1>11. CASE ResetBreaker \/ ManualReconcile \/ Clock
  BY <1>9, <1>11 DEF ResetBreaker, ManualReconcile, Clock
<1>12. CASE UNCHANGED vars
  BY <1>9, <1>12 DEF vars
<1> QED
  BY <1>1, <1>2, <1>3, <1>4, <1>5, <1>6, <1>7, <1>8, <1>10, <1>11, <1>12 DEF Next

(* No failure between the two transactions at the end of a tick puts a     *)
(* position into the paper book that no recorded order bought.             *)
THEOREM BookMatchesRecord == Spec => []BookIsAccountedFor
<1>1. Init => BookInv
  BY DEF Init, BookInv, BookIsAccountedFor
<1>2. BookInv => BookIsAccountedFor
  BY DEF BookInv
<1> QED
  BY <1>1, <1>2, BookIsInductive, PTL DEF Spec
=============================================================================
