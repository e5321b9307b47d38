------------------------- MODULE SharedState_proof -------------------------
(***************************************************************************)
(* Proofs about what instances and requests share through the database:    *)
(* the engine_state row (EngineState), whose sealed kill switch survives   *)
(* every interleaving of saves, failures and restarts, and which is a      *)
(* register (StateRegister) as long as saves do not overlap; and the lock  *)
(* of the tick (TickLock), which implements a mutex (TickMutex) and whose  *)
(* key always has an owner.                                                *)
(***************************************************************************)
EXTENDS EngineState, TickLock, TLAPS

Saving == [at : {"idle", "called", "read"}, args : State,
             found : State \cup {NoRow}]

LEMMA FreshIsState == FreshState \in State
BY EngineStateAssumption DEF FreshState, State

(* A save starts, reads and ends within the type of its progress.          *)
LEMMA SavingType ==
    /\ Idle \in Saving
    /\ \A args \in State : Called(args) \in Saving
    /\ \A p \in Saving, found \in State \cup {NoRow} : ReadRow(p, found) \in Saving
BY FreshIsState DEF Saving, Idle, Called, ReadRow

(* The columns of an UPDATE come from two states, so it is one.            *)
LEMMA UpdateType ==
    ASSUME NEW now \in State, NEW found \in State, NEW args \in State
    PROVE  Update(now, found, args) \in State
BY DEF Update, State

LEMMA KillSwitchType ==
    ASSUME NEW state \in State, NEW engaged \in BOOLEAN
    PROVE  /\ [state EXCEPT !.kill = engaged] \in State
           /\ [state EXCEPT !.kill = engaged].kill = engaged
BY DEF State

LEMMA BreakerType ==
    ASSUME NEW state \in State, NEW dump \in Dumps
    PROVE  /\ [state EXCEPT !.breaker = dump] \in State
           /\ [state EXCEPT !.breaker = dump].kill = state.kill
BY DEF State

(* A row that exists is a state; NoRow is none.                            *)
LEMMA RowType == NoRow \notin State
BY EngineStateAssumption DEF State

(* Starting, or leaving, a save keeps the table of saves well typed.       *)
LEMMA SaverType ==
    ASSUME TypeOK, NEW s \in Savers, NEW p \in Saving
    PROVE  [saver EXCEPT ![s] = p] \in [Savers -> Saving]
BY DEF TypeOK, Saving

(* No action deletes the row: who read one can still update it. TypeOK     *)
(* needs this, because the UPDATE of a missing row would have no value.    *)
RowsStay == \A s \in Savers : saver[s].found # NoRow => row # NoRow

Typed == TypeOK /\ RowsStay

LEMMA TypedIsInductive == Typed /\ [Next]_vars => Typed'
<1> SUFFICES ASSUME Typed, [Next]_vars PROVE Typed'
  OBVIOUS
<1> USE DEF Typed
<1>r. row # NoRow => row \in State
  BY DEF TypeOK
<1>c. ASSUME NEW s \in Savers, NEW args \in State, Call(s, args)
      PROVE  /\ saver' \in [Savers -> Saving]
             /\ UNCHANGED row => RowsStay'
  <2>1. saver' \in [Savers -> Saving]
    BY <1>c, SavingType, SaverType DEF Call
  <2>2. UNCHANGED row => RowsStay'
    BY <1>c DEF Call, Called, RowsStay, TypeOK
  <2> QED
    BY <2>1, <2>2
<1>1. ASSUME NEW s \in Callers, NEW engaged \in BOOLEAN, SetKillSwitch(s, engaged)
      PROVE  Typed'
  <2>1. memory' \in State
    BY <1>1, KillSwitchType DEF TypeOK, SetKillSwitch
  <2>2. saver' \in [Savers -> Saving] /\ RowsStay'
    BY <1>1, <1>c, <2>1 DEF SetKillSwitch, Savers
  <2> QED
    BY <1>1, <2>1, <2>2 DEF TypeOK, SetKillSwitch, Saving
<1>2. ASSUME NEW s \in Callers, ResetBreaker(s)
      PROVE  Typed'
  <2>1. memory' \in State
    BY <1>2, BreakerType, EngineStateAssumption DEF TypeOK, ResetBreaker
  <2>2. saver' \in [Savers -> Saving] /\ RowsStay'
    BY <1>2, <1>c, <2>1 DEF ResetBreaker, Savers
  <2> QED
    BY <1>2, <2>1, <2>2 DEF TypeOK, ResetBreaker, Saving
<1>3. ASSUME NEW s \in Savers, HaltOnMismatch(s)
      PROVE  Typed'
  <2>1. memory' \in State
    BY <1>3, KillSwitchType DEF TypeOK, HaltOnMismatch
  <2>2. saver' \in [Savers -> Saving] /\ RowsStay'
    BY <1>3, <1>c, <2>1 DEF HaltOnMismatch
  <2> QED
    BY <1>3, <2>1, <2>2 DEF TypeOK, HaltOnMismatch, Saving
<1>4. ASSUME NEW dump \in Dumps, TickAssess(dump)
      PROVE  Typed'
  BY <1>4, BreakerType DEF TypeOK, TickAssess, RowsStay
<1>5. CASE TickSave
  <2>1. saver' \in [Savers -> Saving] /\ RowsStay'
    BY <1>5, <1>c DEF TypeOK, TickSave, TickArgs, Savers
  <2> QED
    BY <1>5, <2>1 DEF TypeOK, TickSave, Saving
<1>6. ASSUME NEW s \in Savers, Read(s)
      PROVE  Typed'
  <2>1. saver' = [saver EXCEPT ![s] = ReadRow(saver[s], row)]
    BY <1>6 DEF Read
  <2>2. ReadRow(saver[s], row) \in Saving
    BY SavingType DEF TypeOK, Saving
  <2>3. saver' \in [Savers -> Saving]
    BY <2>1, <2>2, SaverType
  <2>4. RowsStay'
    BY <1>6, <2>1 DEF Read, ReadRow, RowsStay, TypeOK
  <2> QED
    BY <1>6, <2>3, <2>4 DEF TypeOK, Read, Saving
<1>7. ASSUME NEW s \in Savers, Commit(s)
      PROVE  Typed'
  <2>1. saver' \in [Savers -> Saving]
    BY <1>7, SavingType, SaverType DEF Commit
  <2>2. saver[s].args \in State /\ saver[s].found \in State \cup {NoRow}
    BY DEF TypeOK
  <2>3. row' \in State
    BY <1>7, <1>r, <2>2, UpdateType DEF Commit, RowsStay
  <2>4. RowsStay'
    BY <2>3, RowType DEF RowsStay
  <2> QED
    BY <1>7, <2>1, <2>3, <2>4 DEF TypeOK, Commit, Saving
<1>8. ASSUME NEW s \in Savers, InsertConflict(s) \/ DatabaseFails(s)
      PROVE  Typed'
  <2>1. saver' = [saver EXCEPT ![s] = Idle] /\ UNCHANGED row
    BY <1>8 DEF InsertConflict, DatabaseFails
  <2>2. saver' \in [Savers -> Saving]
    BY <2>1, SavingType, SaverType
  <2>3. RowsStay'
    BY <2>1 DEF RowsStay, Idle, TypeOK
  <2> QED
    BY <1>8, <2>2, <2>3 DEF TypeOK, InsertConflict, DatabaseFails, Saving
<1>9. CASE CrashAndRestart
  <2>1. memory' \in State
    BY <1>9, <1>r, FreshIsState DEF CrashAndRestart, Restored
  <2>2. saver' \in [Savers -> Saving] /\ RowsStay'
    BY <1>9, SavingType DEF CrashAndRestart, RowsStay, Idle
  <2> QED
    BY <1>9, <2>1, <2>2 DEF TypeOK, CrashAndRestart, Saving
<1>10. CASE UNCHANGED vars
  BY <1>10 DEF vars, TypeOK, RowsStay, InFlight
<1> QED
  BY <1>1, <1>2, <1>3, <1>4, <1>5, <1>6, <1>7, <1>8, <1>9, <1>10 DEF Next

LEMMA AlwaysTyped == Spec => []Typed
<1>1. Init => Typed
  <2>1. Init => TypeOK
    <3>1. Init => memory \in State /\ failures \in Nat
      BY FreshIsState DEF Init
    <3>2. Init => saver \in [Savers -> Saving]
      BY SavingType DEF Init
    <3> QED
      BY <3>1, <3>2 DEF Init, TypeOK, Saving
  <2>2. Init => RowsStay
    BY DEF Init, RowsStay, Idle
  <2> QED
    BY <2>1, <2>2 DEF Typed
<1> QED
  BY <1>1, TypedIsInductive, PTL DEF Spec

(* The switch, the row and every save in flight hold values of their kind; *)
(* in particular an UPDATE always finds the row it read.                   *)
THEOREM TypeCorrect == Spec => []TypeOK
<1>1. Typed => TypeOK
  BY DEF Typed
<1> QED
  BY <1>1, AlwaysTyped, PTL
-----------------------------------------------------------------------------
(* Once no save in flight carries a released switch, nothing but a release *)
(* brings one back: a new save takes its arguments from memory, an UPDATE  *)
(* mixes engaged values only, and a restart reads an engaged row.          *)
LEMMA SealHolds ==
    Typed /\ SealedKillIsDurable /\ [Next]_vars => SealedKillIsDurable'
<1> SUFFICES ASSUME Typed, SealedKillIsDurable, [Next]_vars
             PROVE  SealedKillIsDurable'
  OBVIOUS
<1> USE DEF Typed
<1>c. ASSUME NEW s \in Savers, NEW args \in State, Call(s, args), args.kill, sealed
      PROVE  \A t \in Savers : InFlight(t)' => saver'[t].args.kill
  BY <1>c DEF Call, Called, InFlight, SealedKillIsDurable, TypeOK
<1>1. ASSUME NEW s \in Callers, NEW engaged \in BOOLEAN, SetKillSwitch(s, engaged)
      PROVE  SealedKillIsDurable'
  <2>1. memory' \in State /\ memory'.kill = engaged
    BY <1>1, KillSwitchType DEF TypeOK, SetKillSwitch
  <2> QED
    BY <1>1, <1>c, <2>1 DEF SetKillSwitch, SealedKillIsDurable, Savers
<1>2. ASSUME NEW s \in Callers, ResetBreaker(s)
      PROVE  SealedKillIsDurable'
  <2>1. memory' \in State /\ memory'.kill = memory.kill
    BY <1>2, BreakerType, EngineStateAssumption DEF TypeOK, ResetBreaker
  <2> QED
    BY <1>2, <1>c, <2>1 DEF ResetBreaker, SealedKillIsDurable, Savers
<1>3. ASSUME NEW s \in Savers, HaltOnMismatch(s)
      PROVE  SealedKillIsDurable'
  BY <1>3 DEF HaltOnMismatch, SealedKillIsDurable
<1>4. ASSUME NEW dump \in Dumps, TickAssess(dump)
      PROVE  SealedKillIsDurable'
  BY <1>4, BreakerType DEF TickAssess, SealedKillIsDurable, TypeOK, InFlight
<1>5. CASE TickSave
  BY <1>5, <1>c DEF TickSave, TickArgs, SealedKillIsDurable, Savers, TypeOK
<1>6. ASSUME NEW s \in Savers, Read(s)
      PROVE  SealedKillIsDurable'
  BY <1>6 DEF Read, ReadRow, SealedKillIsDurable, InFlight, TypeOK
<1>7. ASSUME NEW s \in Savers, Commit(s), sealed'
      PROVE  SealedKillIsDurable'
  <2>1. saver[s].args \in State /\ saver[s].found \in State \cup {NoRow}
    BY DEF TypeOK
  <2>2. \A t \in Savers : InFlight(t)' => t # s /\ InFlight(t) /\ saver'[t] = saver[t]
    BY <1>7 DEF Commit, InFlight, Idle, TypeOK
  <2>3. CASE ~sealed
    <3>1. memory.kill /\ saver[s].args.kill /\ row'.kill /\ NoStaleSaver(s)
      BY <1>7, <2>3 DEF Commit, TypeOK
    <3>2. row' # NoRow
      BY <1>7, <2>1, UpdateType, RowType DEF Commit, RowsStay, TypeOK
    <3> QED
      BY <1>7, <2>2, <3>1, <3>2 DEF Commit, NoStaleSaver, SealedKillIsDurable
  <2>4. CASE sealed
    <3>1. memory.kill /\ row # NoRow /\ row.kill /\ saver[s].args.kill
      BY <1>7, <2>4 DEF SealedKillIsDurable, Commit, InFlight
    <3>2. row' = Update(row, saver[s].found, saver[s].args)
      BY <1>7, <3>1 DEF Commit
    <3>3. row'.kill
      BY <3>1, <3>2 DEF Update
    <3>4. row' # NoRow
      BY <1>7, <3>1, <3>2, <2>1, UpdateType, RowType DEF Commit, TypeOK
    <3> QED
      BY <1>7, <2>2, <2>4, <3>1, <3>3, <3>4 DEF Commit, SealedKillIsDurable
  <2> QED
    BY <2>3, <2>4
<1>8. ASSUME NEW s \in Savers, InsertConflict(s) \/ DatabaseFails(s)
      PROVE  SealedKillIsDurable'
  <2>1. saver' = [saver EXCEPT ![s] = Idle] /\ UNCHANGED <<memory, row, sealed>>
    BY <1>8 DEF InsertConflict, DatabaseFails
  <2> QED
    BY <2>1 DEF SealedKillIsDurable, InFlight, Idle, TypeOK
<1>9. CASE CrashAndRestart
  BY <1>9 DEF CrashAndRestart, Restored, SealedKillIsDurable, InFlight, Idle
<1>10. CASE UNCHANGED vars
  BY <1>10 DEF vars, SealedKillIsDurable, InFlight
<1> QED
  BY <1>1, <1>2, <1>3, <1>4, <1>5, <1>6, <1>7, <1>8, <1>9, <1>10
     DEF Next, SealedKillIsDurable

(* An engaged kill switch that was committed with no older release in      *)
(* flight is in the row and in every later process until it is released.   *)
THEOREM KillSwitchIsDurable == Spec => []SealedKillIsDurable
<1>1. Init => SealedKillIsDurable
  BY DEF Init, SealedKillIsDurable
<1> QED
  BY <1>1, SealHolds, AlwaysTyped, PTL DEF Spec
-----------------------------------------------------------------------------
Pending == {saver[s].args : s \in {t \in Savers : InFlight(t)}}

(* What a save in flight carries is the switch as it is, and what it has   *)
(* read is the row as it is.                                               *)
CarriesTheSwitch == \A s \in Savers : InFlight(s) => saver[s].args.kill = memory.kill
HasReadTheRow == \A s \in Savers : saver[s].at = "read" => saver[s].found = row

ApartInv == Typed /\ CarriesTheSwitch /\ HasReadTheRow

(* A call finds no other save under way, and is the only one then.         *)
LEMMA CalledAlone ==
    ASSUME Typed, SavesApart', NEW s \in Savers, NEW args \in State, Call(s, args)
    PROVE  /\ \A t \in Savers : ~InFlight(t)
           /\ \A t \in Savers \ {s} : ~InFlight(t)'
           /\ saver'[s] = Called(args) /\ InFlight(s)'
           /\ Pending = {} /\ Pending' = {args}
<1>1. /\ saver'[s] = Called(args) /\ InFlight(s)'
      /\ \A t \in Savers \ {s} : saver'[t] = saver[t]
  BY DEF Call, Called, InFlight, Typed, TypeOK
<1>2. \A t \in Savers \ {s} : ~InFlight(t)'
  BY <1>1 DEF SavesApart
<1>3. \A t \in Savers : ~InFlight(t)
  BY <1>1, <1>2 DEF InFlight, Call
<1>4. Pending = {}
  BY <1>3 DEF Pending
<1>5. Pending' = {args}
  BY <1>1, <1>2 DEF Pending, Called
<1> QED
  BY <1>1, <1>2, <1>3, <1>4, <1>5

(* With the end of a save none is under way any more.                      *)
LEMMA EndedAlone ==
    ASSUME Typed, SavesApart, NEW s \in Savers, InFlight(s),
           saver' = [saver EXCEPT ![s] = Idle]
    PROVE  /\ \A t \in Savers : ~InFlight(t)'
           /\ Pending = {saver[s].args} /\ Pending' = {}
<1>1. \A t \in Savers : ~InFlight(t)'
  BY DEF SavesApart, InFlight, Idle, Typed, TypeOK
<1>2. Pending = {saver[s].args}
  BY DEF SavesApart, Pending
<1>3. Pending' = {}
  BY <1>1 DEF Pending
<1> QED
  BY <1>1, <1>2, <1>3

(* An UPDATE of the very row that was read stores what it was called with. *)
LEMMA UpdateOfWhatWasRead ==
    ASSUME NEW now \in State, NEW args \in State
    PROVE  Update(now, now, args) = args
BY DEF Update, State

LEMMA ApartSaves ==
    /\ ApartInv /\ SavesApart /\ SavesApart' /\ [Next]_vars
    => /\ ApartInv'
       /\ Register!RegisterNext \/ UNCHANGED Register!registerVars
       /\ memory.kill /\ memory'.kill /\ row # NoRow /\ row.kill => row'.kill
<1> SUFFICES ASSUME ApartInv, SavesApart, SavesApart', [Next]_vars
             PROVE  /\ CarriesTheSwitch' /\ HasReadTheRow'
                    /\ Register!RegisterNext \/ UNCHANGED Register!registerVars
                    /\ memory.kill /\ memory'.kill /\ row # NoRow /\ row.kill => row'.kill
  BY TypedIsInductive DEF ApartInv
<1> DEFINE Goal == /\ CarriesTheSwitch' /\ HasReadTheRow'
                   /\ Register!RegisterNext \/ UNCHANGED Register!registerVars
                   /\ memory.kill /\ memory'.kill /\ row # NoRow /\ row.kill => row'.kill
<1> USE DEF ApartInv
<1>t. Typed /\ memory \in State /\ row \in State \cup {NoRow}
  BY DEF Typed, TypeOK
\* Whatever changes memory and saves it at once.
<1>c. ASSUME NEW s \in Savers, memory' \in State, Call(s, memory'), UNCHANGED row
      PROVE  Goal
  <2> PICK state \in State : state = memory'
    BY <1>c
  <2>1. /\ saver'[s] = Called(state) /\ Pending = {} /\ Pending' = {state}
        /\ \A t \in Savers \ {s} : ~InFlight(t)'
    BY <1>c, <1>t, CalledAlone
  <2>2. CarriesTheSwitch' /\ HasReadTheRow'
    BY <2>1 DEF CarriesTheSwitch, HasReadTheRow, InFlight, Called
  <2>3. Register!Save(state)
    BY <1>c, <2>1 DEF Register!Save, Pending
  <2>4. Register!RegisterNext
    BY <2>3 DEF Register!RegisterNext, Register!State, State
  <2> QED
    BY <1>c, <2>2, <2>4
\* Whatever ends a save without storing it.
<1>d. ASSUME NEW s \in Savers, InFlight(s), saver' = [saver EXCEPT ![s] = Idle],
             UNCHANGED <<memory, row>>
      PROVE  Goal
  <2>1. CarriesTheSwitch' /\ HasReadTheRow'
    BY <1>d, <1>t, EndedAlone DEF CarriesTheSwitch, HasReadTheRow, InFlight
  <2>2. Register!Lost
    BY <1>d, <1>t, EndedAlone DEF Register!Lost, Pending
  <2> QED
    BY <1>d, <2>1, <2>2 DEF Register!RegisterNext
<1>1. ASSUME NEW s \in Callers, NEW engaged \in BOOLEAN, SetKillSwitch(s, engaged)
      PROVE  Goal
  BY <1>1, <1>c, <1>t, KillSwitchType DEF SetKillSwitch, Savers
<1>2. ASSUME NEW s \in Callers, ResetBreaker(s)
      PROVE  Goal
  BY <1>2, <1>c, <1>t, BreakerType, EngineStateAssumption DEF ResetBreaker, Savers
<1>3. ASSUME NEW s \in Savers, HaltOnMismatch(s)
      PROVE  Goal
  BY <1>3, <1>c, <1>t, KillSwitchType DEF HaltOnMismatch
<1>4. ASSUME NEW dump \in Dumps, TickAssess(dump)
      PROVE  Goal
  <2>1. memory'.kill = memory.kill /\ UNCHANGED <<row, saver>>
    BY <1>4, <1>t, BreakerType DEF TickAssess
  <2>2. CarriesTheSwitch' /\ HasReadTheRow'
    BY <2>1 DEF CarriesTheSwitch, HasReadTheRow, InFlight
  <2>3. Pending' = Pending
    BY <2>1 DEF Pending, InFlight
  <2>4. Register!Assess(dump)
    BY <1>4, <2>3 DEF TickAssess, Register!Assess, Pending
  <2> QED
    BY <2>1, <2>2, <2>4 DEF Register!RegisterNext
<1>5. CASE TickSave
  BY <1>5, <1>c, <1>t DEF TickSave, TickArgs, Savers
<1>6. ASSUME NEW s \in Savers, Read(s)
      PROVE  Goal
  <2>1. /\ UNCHANGED <<memory, row>>
        /\ \A t \in Savers : /\ InFlight(t)' <=> InFlight(t)
                             /\ saver'[t].args = saver[t].args
                             /\ saver'[t].at = "read" =>
                                  saver'[t].found = row \/ saver'[t] = saver[t]
    BY <1>6 DEF Read, ReadRow, InFlight, Typed, TypeOK
  <2>2. CarriesTheSwitch' /\ HasReadTheRow'
    BY <2>1 DEF CarriesTheSwitch, HasReadTheRow
  <2>3. Pending' = Pending
    BY <2>1 DEF Pending
  <2>4. UNCHANGED Register!registerVars
    BY <2>1, <2>3 DEF Register!registerVars, Pending
  <2> QED
    BY <2>1, <2>2, <2>4
<1>7. ASSUME NEW s \in Savers, Commit(s)
      PROVE  Goal
  <2>1. InFlight(s) /\ saver' = [saver EXCEPT ![s] = Idle] /\ UNCHANGED memory
    BY <1>7 DEF Commit, InFlight
  <2>2. saver[s].args \in State /\ saver[s].found = row
    BY <1>7 DEF Commit, Typed, TypeOK, HasReadTheRow
  <2>3. row' = saver[s].args
    BY <1>7, <1>t, <2>2, UpdateOfWhatWasRead DEF Commit
  <2>4. saver[s].args.kill = memory.kill
    BY <2>1 DEF CarriesTheSwitch
  <2>5. CarriesTheSwitch' /\ HasReadTheRow'
    BY <1>t, <2>1, EndedAlone DEF CarriesTheSwitch, HasReadTheRow, InFlight
  <2>6. Register!Stored
    BY <1>t, <2>1, <2>3, EndedAlone DEF Register!Stored, Pending
  <2> QED
    BY <2>3, <2>4, <2>5, <2>6 DEF Register!RegisterNext
<1>8. ASSUME NEW s \in Savers, InsertConflict(s) \/ DatabaseFails(s)
      PROVE  Goal
  BY <1>8, <1>d DEF InsertConflict, DatabaseFails, InFlight
<1>9. CASE CrashAndRestart
  <2>1. \A s \in Savers : ~InFlight(s)'
    BY <1>9 DEF CrashAndRestart, InFlight, Idle
  <2>2. Pending' = {}
    BY <2>1 DEF Pending
  <2>3. Register!Restart
    BY <1>9, <2>2 DEF CrashAndRestart, Restored, Register!Restart, Pending
  <2> QED
    BY <1>9, <2>1, <2>3
       DEF CrashAndRestart, Register!RegisterNext, CarriesTheSwitch, HasReadTheRow, InFlight
<1>10. CASE UNCHANGED vars
  <2>1. UNCHANGED <<memory, row, saver>>
    BY <1>10 DEF vars
  <2>2. CarriesTheSwitch' /\ HasReadTheRow' /\ Pending' = Pending
    BY <2>1 DEF CarriesTheSwitch, HasReadTheRow, Pending, InFlight
  <2> QED
    BY <2>1, <2>2 DEF Register!registerVars, Pending
<1> QED
  BY <1>1, <1>2, <1>3, <1>4, <1>5, <1>6, <1>7, <1>8, <1>9, <1>10 DEF Next

(* Saves that never overlap make the row a register: what a save stores is *)
(* what it was called with, as a whole, however it mixes columns.          *)
THEOREM ApartSavesAreAtomic == Spec /\ []SavesApart => Register!RegisterSpec
<1>1. Init => Register!RegisterInit /\ CarriesTheSwitch /\ HasReadTheRow
  BY DEF Init, Register!RegisterInit, CarriesTheSwitch, HasReadTheRow, InFlight, Idle
<1>2. ApartInv /\ SavesApart /\ SavesApart' /\ [Next]_vars
        => ApartInv' /\ [Register!RegisterNext]_(Register!registerVars)
  BY ApartSaves
<1>3. Typed /\ CarriesTheSwitch /\ HasReadTheRow => ApartInv
  BY DEF ApartInv
<1> QED
  BY <1>1, <1>2, <1>3, AlwaysTyped, PTL DEF Spec, Register!RegisterSpec

(* An engaged switch that is in the row is lost only if saves overlap: the *)
(* counterexample of SavedKillStaysSaved needs two of them.                *)
THEOREM LostKillNeedsOverlap == Spec /\ []SavesApart => SavedKillStaysSaved
<1>1. Init => CarriesTheSwitch /\ HasReadTheRow
  BY DEF Init, CarriesTheSwitch, HasReadTheRow, InFlight, Idle
<1>2. ApartInv /\ SavesApart /\ SavesApart' /\ [Next]_vars
        => ApartInv'
           /\ [memory.kill /\ memory'.kill /\ row # NoRow /\ row.kill => row'.kill]_vars
  BY ApartSaves
<1>3. Typed /\ CarriesTheSwitch /\ HasReadTheRow => ApartInv
  BY DEF ApartInv
<1> QED
  BY <1>1, <1>2, <1>3, AlwaysTyped, PTL DEF Spec, SavedKillStaysSaved
-----------------------------------------------------------------------------
(* The call past the asyncio lock is the one that holds it.                *)
InsiderHolds ==
    \A i \in Instances, c \in Calls : at[i][c] # "idle" => local[i] = c

(* Only PostgreSQL sends a call through the steps of the advisory lock.    *)
LockSteps ==
    \A i \in Instances, c \in Calls :
        at[i][c] \in {"connecting", "trying", "unlocking"} => postgres

(* A tick whose connection lives has the key with a live session.          *)
RunnerOwns ==
    \A i \in Instances, c \in Calls :
        postgres /\ at[i][c] \in {"running", "unlocking"} /\ connected[i]
          => session = i /\ ~orphaned

(* A free key has no session to end.                                       *)
FreeIsClean == session = None => ~orphaned

LockInv == LockTypeOK /\ InsiderHolds /\ LockSteps /\ RunnerOwns /\ FreeIsClean

(* Moving one call leaves the steps of all others.                         *)
LEMMA MoveOne ==
    ASSUME LockTypeOK, NEW i \in Instances, NEW c \in Calls, NEW step \in Steps,
           MoveTo(i, c, step)
    PROVE  /\ at' \in [Instances -> [Calls -> Steps]]
           /\ at'[i][c] = step
           /\ \A j \in Instances, d \in Calls :
                 <<j, d>> # <<i, c>> => at'[j][d] = at[j][d]
BY DEF MoveTo, LockTypeOK

(* Leaving frees the asyncio lock of the process and ends its call.        *)
LEMMA LeaveOne ==
    ASSUME LockTypeOK, NEW i \in Instances, NEW c \in Calls, NEW result \in Answers \cup {None},
           Leave(i, c, result)
    PROVE  /\ at' \in [Instances -> [Calls -> Steps]]
           /\ at'[i][c] = "idle"
           /\ \A j \in Instances, d \in Calls :
                 <<j, d>> # <<i, c>> => at'[j][d] = at[j][d]
           /\ local' \in [Instances -> Calls \cup {None}]
           /\ connected' \in [Instances -> BOOLEAN]
           /\ answer' \in [Instances -> [Calls -> Answers \cup {None}]]
           /\ \A j \in Instances \ {i} : local'[j] = local[j] /\ connected'[j] = connected[j]
           /\ ~connected'[i]
           /\ \A j \in Instances : connected'[j] => local'[j] # None
<1>1. "idle" \in Steps /\ MoveTo(i, c, "idle")
  BY DEF Leave, Steps
<1>2. answer' \in [Instances -> [Calls -> Answers \cup {None}]]
  BY DEF Leave, LockTypeOK
<1> QED
  BY <1>1, <1>2, MoveOne DEF Leave, LockTypeOK

(* A call that leaves from anywhere past the asyncio lock was alone in its *)
(* process, so the invariant only has to be checked for the others.        *)
LEMMA AfterLeave ==
    ASSUME LockInv, NEW i \in Instances, NEW c \in Calls, NEW result \in Answers \cup {None},
           at[i][c] # "idle", Leave(i, c, result), UNCHANGED postgres
    PROVE  /\ InsiderHolds' /\ LockSteps'
           /\ \A d \in Calls : at'[i][d] = "idle"
           /\ \A j \in Instances, d \in Calls :
                 at'[j][d] # "idle" =>
                   j # i /\ at'[j][d] = at[j][d] /\ connected'[j] = connected[j]
<1> USE DEF LockInv
<1>1. \A d \in Calls : at'[i][d] = "idle"
  <2> SUFFICES ASSUME NEW d \in Calls, d # c PROVE at'[i][d] = "idle"
    BY LeaveOne
  <2>1. at[i][d] = "idle"
    BY DEF InsiderHolds
  <2> QED
    BY <2>1, LeaveOne
<1>2. InsiderHolds'
  <2> SUFFICES ASSUME NEW j \in Instances, NEW d \in Calls, at'[j][d] # "idle"
               PROVE  local'[j] = d
    BY DEF InsiderHolds
  <2>1. j # i
    BY <1>1
  <2>2. at'[j][d] = at[j][d] /\ local'[j] = local[j]
    BY <2>1, LeaveOne
  <2> QED
    BY <2>2 DEF InsiderHolds
<1>3. \A j \in Instances, d \in Calls :
         at'[j][d] # "idle" =>
           j # i /\ at'[j][d] = at[j][d] /\ connected'[j] = connected[j]
  BY <1>1, LeaveOne
<1>4. LockSteps'
  <2> SUFFICES ASSUME NEW j \in Instances, NEW d \in Calls,
                      at'[j][d] \in {"connecting", "trying", "unlocking"}
               PROVE  postgres
    BY DEF LockSteps
  <2>1. at[j][d] \in {"connecting", "trying", "unlocking"}
    BY <1>3
  <2> QED
    BY <2>1 DEF LockSteps
<1> QED
  BY <1>1, <1>2, <1>3, <1>4

LEMMA LockInvIsInductive == LockInv /\ [LockNext]_lockVars => LockInv'
<1> SUFFICES ASSUME LockInv, [LockNext]_lockVars PROVE LockInv'
  OBVIOUS
<1> USE DEF LockInv
<1>1. ASSUME NEW i \in Instances, NEW c \in Calls, SkipHere(i, c)
      PROVE  LockInv'
  <2>1. LockTypeOK'
    BY <1>1 DEF SkipHere, LockTypeOK, Answers
  <2> QED
    BY <1>1, <2>1 DEF SkipHere, InsiderHolds, LockSteps, RunnerOwns, FreeIsClean
<1>2. ASSUME NEW i \in Instances, NEW c \in Calls, Enter(i, c)
      PROVE  LockInv'
  <2>1. PICK step \in Steps : /\ MoveTo(i, c, step)
                              /\ step = IF postgres THEN "connecting" ELSE "running"
    BY <1>2 DEF Enter, Steps
  <2>2. \A d \in Calls : at[i][d] = "idle"
    BY <1>2, TickLockAssumption DEF Enter, Free, InsiderHolds
  <2>3. LockTypeOK'
    <3>1. local' = [local EXCEPT ![i] = c] /\ c # None
      BY <1>2, TickLockAssumption DEF Enter
    <3>2. /\ local' \in [Instances -> Calls \cup {None}]
          /\ \A j \in Instances : connected[j] => local'[j] # None
      BY <3>1 DEF LockTypeOK
    <3> QED
      BY <1>2, <2>1, <3>2, MoveOne DEF Enter, LockTypeOK
  <2>4. InsiderHolds'
    <3>1. local'[i] = c /\ \A j \in Instances \ {i} : local'[j] = local[j]
      BY <1>2 DEF Enter, LockTypeOK
    <3> QED
      BY <2>1, <2>2, <3>1, MoveOne DEF InsiderHolds
  <2>5. LockSteps' /\ RunnerOwns' /\ FreeIsClean'
    BY <1>2, <2>1, MoveOne DEF Enter, LockSteps, RunnerOwns, FreeIsClean
  <2> QED
    BY <2>3, <2>4, <2>5
<1>3. ASSUME NEW i \in Instances, NEW c \in Calls, Connect(i, c)
      PROVE  LockInv'
  <2>1. "trying" \in Steps /\ MoveTo(i, c, "trying")
    BY <1>3 DEF Connect, Steps
  <2>2. \A d \in Calls : d # c => at[i][d] = "idle"
    BY <1>3 DEF Connect, InsiderHolds
  <2>3. LockTypeOK'
    <3>1. local[i] # None
      BY <1>3, TickLockAssumption DEF Connect, InsiderHolds
    <3>2. /\ connected' \in [Instances -> BOOLEAN]
          /\ \A j \in Instances : connected'[j] => local[j] # None
      BY <1>3, <3>1 DEF Connect, LockTypeOK
    <3> QED
      BY <1>3, <2>1, <3>2, MoveOne DEF Connect, LockTypeOK
  <2>4. \A j \in Instances \ {i} : connected'[j] = connected[j]
    BY <1>3 DEF Connect, LockTypeOK
  <2>5. InsiderHolds' /\ LockSteps' /\ FreeIsClean'
    BY <1>3, <2>1, MoveOne DEF Connect, InsiderHolds, LockSteps, FreeIsClean
  <2>6. RunnerOwns'
    BY <1>3, <2>1, <2>2, <2>4, MoveOne DEF Connect, RunnerOwns
  <2> QED
    BY <2>3, <2>5, <2>6
<1>4. ASSUME NEW i \in Instances, NEW c \in Calls, ConnectFails(i, c)
      PROVE  LockInv'
  <2>1. /\ at[i][c] # "idle" /\ "failed" \in Answers /\ Leave(i, c, "failed")
        /\ UNCHANGED <<postgres, session, orphaned>>
    BY <1>4 DEF ConnectFails, Answers
  <2>2. LockTypeOK'
    BY <1>4, <2>1, LeaveOne DEF ConnectFails, Break, LockTypeOK
  <2>3. RunnerOwns' /\ FreeIsClean'
    BY <2>1, AfterLeave DEF RunnerOwns, FreeIsClean
  <2> QED
    BY <2>1, <2>2, <2>3, AfterLeave
<1>5. ASSUME NEW i \in Instances, NEW c \in Calls, TryLock(i, c)
      PROVE  LockInv'
  <2>1. CASE Granted
    <3>1. /\ session' = i /\ session = None /\ MoveTo(i, c, "running")
          /\ UNCHANGED <<postgres, orphaned, breaks, local, connected, answer>>
      BY <1>5, <2>1 DEF TryLock, TurnedAway, Granted
    <3>2. "running" \in Steps
      BY DEF Steps
    <3>3. \A d \in Calls : d # c => at[i][d] = "idle"
      BY <1>5 DEF TryLock, TurnedAway, InsiderHolds
    <3>4. LockTypeOK'
      BY <3>1, <3>2, MoveOne DEF LockTypeOK
    <3>5. InsiderHolds' /\ LockSteps'
      BY <1>5, <3>1, <3>2, MoveOne DEF TryLock, TurnedAway, InsiderHolds, LockSteps
    <3>6. ~orphaned
      BY <3>1 DEF FreeIsClean
    <3>7. RunnerOwns' /\ FreeIsClean'
      BY <3>1, <3>2, <3>3, <3>6, MoveOne, TickLockAssumption DEF RunnerOwns, FreeIsClean
    <3> QED
      BY <3>4, <3>5, <3>7
  <2>2. CASE ~Granted
    <3>1. /\ at[i][c] # "idle" /\ "busyElsewhere" \in Answers
          /\ Leave(i, c, "busyElsewhere")
          /\ UNCHANGED <<postgres, session, orphaned, breaks>>
      BY <1>5, <2>2 DEF TryLock, TurnedAway, Answers
    <3>2. LockTypeOK'
      BY <3>1, LeaveOne DEF LockTypeOK
    <3>3. RunnerOwns' /\ FreeIsClean'
      BY <3>1, AfterLeave DEF RunnerOwns, FreeIsClean
    <3> QED
      BY <3>1, <3>2, <3>3, AfterLeave
  <2> QED
    BY <2>1, <2>2
<1>6. ASSUME NEW i \in Instances, NEW c \in Calls, TryLockFails(i, c)
      PROVE  LockInv'
  <2>1. /\ at[i][c] # "idle" /\ "failed" \in Answers /\ Leave(i, c, "failed")
        /\ UNCHANGED postgres
        /\ at[i][c] = "trying"
    BY <1>6 DEF TryLockFails, Answers
  <2>2. breaks' \in Nat
    BY <1>6 DEF TryLockFails, Break, LockTypeOK
  <2>3. CASE UNCHANGED <<session, orphaned>>
    <3>1. LockTypeOK'
      BY <2>1, <2>2, <2>3, LeaveOne DEF LockTypeOK
    <3>2. RunnerOwns' /\ FreeIsClean'
      BY <2>1, <2>3, AfterLeave DEF RunnerOwns, FreeIsClean
    <3> QED
      BY <2>1, <3>1, <3>2, AfterLeave
  <2>4. CASE session = None /\ session' = i /\ orphaned' = TRUE
    <3>1. LockTypeOK'
      BY <2>1, <2>2, <2>4, LeaveOne DEF LockTypeOK
    <3>2. RunnerOwns' /\ FreeIsClean'
      BY <2>1, <2>4, AfterLeave, TickLockAssumption DEF RunnerOwns, FreeIsClean
    <3> QED
      BY <2>1, <3>1, <3>2, AfterLeave
  <2> QED
    BY <1>6, <2>3, <2>4 DEF TryLockFails
<1>7. ASSUME NEW i \in Instances, NEW c \in Calls, NEW result \in {"ran", "failed"},
             BodyEnds(i, c, result)
      PROVE  LockInv'
  <2>1. CASE postgres
    <3>1. /\ MoveTo(i, c, "unlocking") /\ "unlocking" \in Steps
          /\ answer' = [answer EXCEPT ![i][c] = result] /\ at[i][c] = "running"
          /\ UNCHANGED <<postgres, local, connected, session, orphaned, breaks>>
      BY <1>7, <2>1 DEF BodyEnds, Steps
    <3>2. LockTypeOK'
      BY <3>1, MoveOne DEF LockTypeOK, Answers
    <3>3. InsiderHolds' /\ LockSteps' /\ RunnerOwns' /\ FreeIsClean'
      BY <2>1, <3>1, MoveOne DEF InsiderHolds, LockSteps, RunnerOwns, FreeIsClean
    <3> QED
      BY <3>2, <3>3
  <2>2. CASE ~postgres
    <3>1. /\ at[i][c] # "idle" /\ result \in Answers /\ Leave(i, c, result)
          /\ UNCHANGED <<postgres, session, orphaned, breaks>>
      BY <1>7, <2>2 DEF BodyEnds, Answers
    <3>2. LockTypeOK'
      BY <3>1, LeaveOne DEF LockTypeOK
    <3>3. RunnerOwns' /\ FreeIsClean'
      BY <2>2, <3>1 DEF RunnerOwns, FreeIsClean
    <3> QED
      BY <3>1, <3>2, <3>3, AfterLeave
  <2> QED
    BY <2>1, <2>2 DEF LockTypeOK
<1>8. ASSUME NEW i \in Instances, NEW c \in Calls, Unlock(i, c)
      PROVE  LockInv'
  <2>1. PICK result \in Answers \cup {None} :
            result = (IF connected[i] THEN answer[i][c] ELSE "failed")
    BY <1>8 DEF LockTypeOK, Answers
  <2>2. at[i][c] = "unlocking" /\ Leave(i, c, result)
    BY <1>8, <2>1 DEF Unlock
  <2>3. connected[i] => session = i /\ ~orphaned
    BY <2>2 DEF RunnerOwns, LockSteps
  <2>4. /\ session' = IF connected[i] THEN None ELSE session
        /\ UNCHANGED <<postgres, orphaned, breaks>>
    BY <1>8 DEF Unlock, Unlocked
  <2>5. LockTypeOK'
    <3>1. session' \in Instances \cup {None}
      BY <2>4 DEF LockTypeOK
    <3> QED
      BY <2>2, <2>4, <3>1, LeaveOne DEF LockTypeOK
  <2>6. \A j \in Instances, d \in Calls :
           postgres /\ at'[j][d] \in {"running", "unlocking"} /\ connected'[j]
             => /\ j # i /\ session = j /\ ~orphaned
    BY <2>2, <2>4, AfterLeave DEF RunnerOwns
  <2>7. RunnerOwns'
    BY <2>3, <2>4, <2>6 DEF RunnerOwns
  <2>8. FreeIsClean'
    BY <2>3, <2>4 DEF FreeIsClean
  <2> QED
    BY <2>2, <2>4, <2>5, <2>7, <2>8, AfterLeave
<1>9. ASSUME NEW i \in Instances, Disconnect(i)
      PROVE  LockInv'
  <2>1. LockTypeOK'
    BY <1>9 DEF Disconnect, Break, LockTypeOK
  <2>2. InsiderHolds' /\ LockSteps'
    BY <1>9 DEF Disconnect, InsiderHolds, LockSteps
  <2>3. RunnerOwns'
    BY <1>9 DEF Disconnect, RunnerOwns, LockTypeOK
  <2>4. FreeIsClean'
    BY <1>9, TickLockAssumption DEF Disconnect, FreeIsClean
  <2> QED
    BY <2>1, <2>2, <2>3, <2>4
<1>10. ASSUME NEW i \in Instances, Crash(i)
       PROVE  LockInv'
  <2>1. LockTypeOK'
    BY <1>10 DEF Crash, Break, LockTypeOK, Steps
  <2>2. \A j \in Instances, d \in Calls :
           at'[j][d] # "idle" =>
             /\ j # i /\ at'[j][d] = at[j][d]
             /\ local'[j] = local[j] /\ connected'[j] = connected[j]
    BY <1>10 DEF Crash, LockTypeOK
  <2>3. InsiderHolds'
    <3> SUFFICES ASSUME NEW j \in Instances, NEW d \in Calls, at'[j][d] # "idle"
                 PROVE  local'[j] = d
      BY DEF InsiderHolds
    <3>1. at[j][d] # "idle" /\ local'[j] = local[j]
      BY <2>2
    <3> QED
      BY <3>1 DEF InsiderHolds
  <2>6. LockSteps'
    <3> SUFFICES ASSUME NEW j \in Instances, NEW d \in Calls,
                        at'[j][d] \in {"connecting", "trying", "unlocking"}
                 PROVE  postgres'
      BY DEF LockSteps
    <3>1. at[j][d] \in {"connecting", "trying", "unlocking"}
      BY <2>2
    <3> QED
      BY <1>10, <3>1 DEF Crash, LockSteps
  <2>4. RunnerOwns'
    BY <1>10, <2>2 DEF Crash, RunnerOwns
  <2>5. FreeIsClean'
    BY <1>10, TickLockAssumption DEF Crash, FreeIsClean
  <2> QED
    BY <2>1, <2>3, <2>4, <2>5, <2>6
<1>11. CASE SessionEnds
  <2>1. \A i \in Instances, c \in Calls :
           ~(postgres /\ at[i][c] \in {"running", "unlocking"} /\ connected[i])
    BY <1>11 DEF SessionEnds, RunnerOwns
  <2> QED
    BY <1>11, <2>1 DEF SessionEnds, LockTypeOK, InsiderHolds, LockSteps, RunnerOwns, FreeIsClean
<1>12. CASE UNCHANGED lockVars
  BY <1>12 DEF lockVars, LockTypeOK, InsiderHolds, LockSteps, RunnerOwns, FreeIsClean
<1> QED
  BY <1>1, <1>2, <1>3, <1>4, <1>5, <1>6, <1>7, <1>8, <1>9, <1>10, <1>11, <1>12
     DEF LockNext, Progress

LEMMA LockInvAlways == LockSpec => []LockInv
<1>1. LockInit => LockInv
  <2> SUFFICES ASSUME LockInit PROVE LockInv
    OBVIOUS
  <2>1. \A i \in Instances, c \in Calls : at[i][c] = "idle"
    BY DEF LockInit
  <2>2. LockTypeOK
    BY DEF LockInit, LockTypeOK, Steps
  <2>3. LockSteps /\ RunnerOwns
    BY <2>1 DEF LockSteps, RunnerOwns
  <2>4. InsiderHolds /\ FreeIsClean
    BY <2>1 DEF LockInit, InsiderHolds, FreeIsClean
  <2> QED
    BY <2>2, <2>3, <2>4 DEF LockInv
<1> QED
  BY <1>1, LockInvIsInductive, PTL DEF LockSpec

(* Locks, steps, answers and the session keep their types.                 *)
THEOREM LockTypeCorrect == LockSpec => []LockTypeOK
<1>1. LockInv => LockTypeOK
  BY DEF LockInv
<1> QED
  BY <1>1, LockInvAlways, PTL

(* No two calls of one process are past the asyncio lock together, through *)
(* every failure, disconnection and crash.                                 *)
THEOREM ProcessExclusion == LockSpec => []OneCallPerProcess
<1>1. LockInv => OneCallPerProcess
  BY DEF LockInv, InsiderHolds, OneCallPerProcess
<1> QED
  BY <1>1, LockInvAlways, PTL

(* Two instances tick together only if one of them lost its connection.    *)
THEOREM Serialisation == LockSpec => []TicksAreSerialised
<1>1. LockInv => TicksAreSerialised
  BY DEF LockInv, RunnerOwns, TicksAreSerialised, Inside
<1> QED
  BY <1>1, LockInvAlways, PTL
-----------------------------------------------------------------------------
(* The ticks whose connection holds the advisory lock.                     *)
Claims == {r \in Running : connected[r[1]]}

(* Who runs is a matter of the steps that the calls are at.                *)
LEMMA RunningByStep ==
    /\ Running \subseteq Instances \X Calls
    /\ \A r \in Running : r = <<r[1], r[2]>>
    /\ \A i \in Instances, c \in Calls :
          <<i, c>> \in Running <=> at[i][c] \in {"running", "unlocking"}
BY DEF Running, Inside

(* The call past the asyncio lock is the only one of its process that runs.*)
LEMMA OneRunsAtMost ==
    ASSUME LockInv, NEW i \in Instances, NEW c \in Calls, at[i][c] # "idle"
    PROVE  /\ {i} \X Calls \cap Running \subseteq {<<i, c>>}
           /\ \A r \in Running : r # <<i, c>> => r[1] # i
<1>1. \A d \in Calls : at[i][d] # "idle" => d = c
  BY DEF LockInv, InsiderHolds
<1>2. \A r \in Running : r[1] = i => r = <<i, c>>
  BY <1>1, RunningByStep DEF Running, Inside
<1> QED
  BY <1>2, RunningByStep

(* A step of one call that is not in the tick after it: the tick ended if  *)
(* it was there before, and nothing happened to the mutex otherwise.       *)
LEMMA OutOfTheTick ==
    ASSUME LockInv, NEW i \in Instances, NEW c \in Calls, at[i][c] # "idle",
           UNCHANGED postgres,
           \A d \in Calls : at'[i][d] \notin {"running", "unlocking"},
           \A j \in Instances \ {i} : at'[j] = at[j] /\ connected'[j] = connected[j]
    PROVE  Mutex!MutexNext \/ UNCHANGED Mutex!mutexVars
<1>1. \A r \in Instances \X Calls : r \in Running' <=> r \in Running /\ r # <<i, c>>
  <2> SUFFICES ASSUME NEW j \in Instances, NEW d \in Calls
               PROVE  <<j, d>> \in Running' <=> <<j, d>> \in Running /\ <<j, d>> # <<i, c>>
    OBVIOUS
  <2>1. CASE j = i
    <3>1. <<j, d>> \notin Running'
      BY <2>1 DEF Running, Inside
    <3>2. <<j, d>> \in Running => d = c
      BY <2>1, OneRunsAtMost, RunningByStep
    <3> QED
      BY <2>1, <3>1, <3>2
  <2>2. CASE j # i
    BY <2>2 DEF Running, Inside
  <2> QED
    BY <2>1, <2>2
<1>2. Running' = Running \ {<<i, c>>}
  BY <1>1 DEF Running
<1>3. \A r \in Running \ {<<i, c>>} : connected'[r[1]] = connected[r[1]]
  BY OneRunsAtMost, RunningByStep DEF Running
<1>4. Claims' = Claims \ {<<i, c>>}
  BY <1>2, <1>3 DEF Claims
<1>5. CASE <<i, c>> \in Running
  <2>1. Mutex!End(i, c)
    BY <1>2, <1>4, <1>5 DEF Mutex!End, Claims
  <2> QED
    BY <2>1 DEF Mutex!MutexNext
<1>6. CASE <<i, c>> \notin Running
  <2>1. Running' = Running /\ Claims' = Claims
    BY <1>2, <1>4, <1>6 DEF Claims
  <2> QED
    BY <2>1 DEF Mutex!mutexVars, Claims
<1> QED
  BY <1>5, <1>6

(* A call that was past the asyncio lock, but not in the tick, gets in.    *)
LEMMA IntoTheTick ==
    ASSUME LockInv, NEW i \in Instances, NEW c \in Calls,
           UNCHANGED <<postgres, connected>>, MoveTo(i, c, "running"),
           {i} \X Calls \cap Running = {},
           postgres => connected[i] /\ session = None,
           ~postgres => ~connected[i]
    PROVE  Mutex!MutexNext
<1>1. /\ at'[i][c] = "running"
      /\ \A j \in Instances, d \in Calls : <<j, d>> # <<i, c>> => at'[j][d] = at[j][d]
  BY MoveOne DEF LockInv, Steps
<1>2. \A r \in Instances \X Calls : r \in Running' <=> r \in Running \/ r = <<i, c>>
  <2> SUFFICES ASSUME NEW j \in Instances, NEW d \in Calls
               PROVE  <<j, d>> \in Running' <=> <<j, d>> \in Running \/ <<j, d>> = <<i, c>>
    OBVIOUS
  <2> QED
    BY <1>1 DEF Running, Inside
<1>3. Running' = Running \cup {<<i, c>>}
  BY <1>2 DEF Running
<1>4. CASE postgres
  <2>1. \A r \in Running : ~connected[r[1]]
    BY <1>4, RunningByStep, TickLockAssumption DEF LockInv, RunnerOwns, Running, Inside
  <2>2. Claims = {} /\ Claims' = {<<i, c>>}
    BY <1>3, <1>4, <2>1 DEF Claims
  <2> QED
    BY <1>3, <1>4, <2>2 DEF Mutex!MutexNext, Mutex!Begin, Claims
<1>5. CASE ~postgres
  <2>1. Claims' = Claims
    BY <1>3, <1>5 DEF Claims
  <2> QED
    BY <1>3, <1>5, <2>1 DEF Mutex!MutexNext, Mutex!Begin, Claims
<1> QED
  BY <1>4, <1>5

(* What neither lets a call in nor out nor cuts one off is invisible.      *)
LEMMA Invisible ==
    ASSUME LockInv, UNCHANGED postgres,
           \A i \in Instances, c \in Calls :
              /\ at'[i][c] \in {"running", "unlocking"} <=> at[i][c] \in {"running", "unlocking"}
              /\ at[i][c] \in {"running", "unlocking"} => connected'[i] = connected[i]
    PROVE  UNCHANGED Mutex!mutexVars
<1>1. Running' = Running
  BY DEF Running, Inside
<1>2. \A r \in Running : connected'[r[1]] = connected[r[1]]
  BY DEF Running, Inside
<1>3. Claims' = Claims
  BY <1>1, <1>2 DEF Claims
<1> QED
  BY <1>1, <1>3 DEF Mutex!mutexVars, Claims

LEMMA LockStepsAreMutexSteps ==
    LockInv /\ [LockNext]_lockVars => Mutex!MutexNext \/ UNCHANGED Mutex!mutexVars
<1> SUFFICES ASSUME LockInv, [LockNext]_lockVars
             PROVE  Mutex!MutexNext \/ UNCHANGED Mutex!mutexVars
  OBVIOUS
<1> USE DEF LockInv
<1>a. ASSUME NEW i \in Instances, NEW c \in Calls, NEW result \in Answers \cup {None},
             at[i][c] # "idle", Leave(i, c, result), UNCHANGED postgres
      PROVE  Mutex!MutexNext \/ UNCHANGED Mutex!mutexVars
  <2>1. \A d \in Calls : at'[i][d] = "idle"
    BY <1>a, AfterLeave
  <2>2. \A j \in Instances \ {i} : at'[j] = at[j] /\ connected'[j] = connected[j]
    BY <1>a DEF Leave, MoveTo, LockTypeOK
  <2> QED
    BY <1>a, <2>1, <2>2, OutOfTheTick
<1>1. ASSUME NEW i \in Instances, NEW c \in Calls, SkipHere(i, c)
      PROVE  UNCHANGED Mutex!mutexVars
  BY <1>1, Invisible DEF SkipHere
<1>2. ASSUME NEW i \in Instances, NEW c \in Calls, Enter(i, c)
      PROVE  Mutex!MutexNext \/ UNCHANGED Mutex!mutexVars
  <2>1. local[i] = None /\ ~connected[i] /\ \A d \in Calls : at[i][d] = "idle"
    BY <1>2, TickLockAssumption DEF Enter, Free, InsiderHolds, LockTypeOK
  <2>2. CASE postgres
    <3>1. MoveTo(i, c, "connecting") /\ "connecting" \in Steps
          /\ UNCHANGED <<postgres, connected>>
      BY <1>2, <2>2 DEF Enter, Steps
    <3> QED
      BY <2>1, <3>1, MoveOne, Invisible
  <2>3. CASE ~postgres
    <3>1. MoveTo(i, c, "running") /\ UNCHANGED <<postgres, connected>>
      BY <1>2, <2>3 DEF Enter
    <3>2. {i} \X Calls \cap Running = {}
      BY <2>1 DEF Running, Inside
    <3> QED
      BY <2>1, <2>3, <3>1, <3>2, IntoTheTick
  <2> QED
    BY <2>2, <2>3
<1>3. ASSUME NEW i \in Instances, NEW c \in Calls, Connect(i, c)
      PROVE  UNCHANGED Mutex!mutexVars
  <2>1. MoveTo(i, c, "trying") /\ "trying" \in Steps /\ at[i][c] = "connecting"
        /\ UNCHANGED postgres
    BY <1>3 DEF Connect, Steps
  <2>2. \A d \in Calls : at[i][d] \notin {"running", "unlocking"}
    BY <2>1 DEF InsiderHolds
  <2>3. \A j \in Instances \ {i} : connected'[j] = connected[j]
    BY <1>3 DEF Connect, LockTypeOK
  <2> QED
    BY <2>1, <2>2, <2>3, MoveOne, Invisible
<1>4. ASSUME NEW i \in Instances, NEW c \in Calls, ConnectFails(i, c) \/ TryLockFails(i, c)
      PROVE  Mutex!MutexNext \/ UNCHANGED Mutex!mutexVars
  BY <1>4, <1>a DEF ConnectFails, TryLockFails, Answers
<1>5. ASSUME NEW i \in Instances, NEW c \in Calls, TryLock(i, c)
      PROVE  Mutex!MutexNext \/ UNCHANGED Mutex!mutexVars
  <2>1. at[i][c] = "trying" /\ connected[i] /\ postgres /\ UNCHANGED postgres
    BY <1>5 DEF TryLock, LockSteps
  <2>2. CASE Granted
    <3>1. MoveTo(i, c, "running") /\ UNCHANGED connected /\ session = None
      BY <1>5, <2>2 DEF TryLock, Granted
    <3>2. {i} \X Calls \cap Running = {}
      BY <2>1, OneRunsAtMost, RunningByStep
    <3> QED
      BY <2>1, <3>1, <3>2, IntoTheTick
  <2>3. CASE ~Granted
    BY <1>5, <1>a, <2>1, <2>3 DEF TryLock, TurnedAway, Answers
  <2> QED
    BY <2>2, <2>3
<1>6. ASSUME NEW i \in Instances, NEW c \in Calls, NEW result \in {"ran", "failed"},
             BodyEnds(i, c, result)
      PROVE  Mutex!MutexNext \/ UNCHANGED Mutex!mutexVars
  <2>1. at[i][c] = "running" /\ result \in Answers /\ UNCHANGED postgres
    BY <1>6 DEF BodyEnds, Answers
  <2>2. CASE postgres
    <3>1. MoveTo(i, c, "unlocking") /\ "unlocking" \in Steps /\ UNCHANGED connected
      BY <1>6, <2>2 DEF BodyEnds, Steps
    <3> QED
      BY <2>1, <3>1, MoveOne, Invisible
  <2>3. CASE ~postgres
    BY <1>6, <1>a, <2>1, <2>3 DEF BodyEnds
  <2> QED
    BY <2>2, <2>3
<1>7. ASSUME NEW i \in Instances, NEW c \in Calls, Unlock(i, c)
      PROVE  Mutex!MutexNext \/ UNCHANGED Mutex!mutexVars
  <2>1. PICK result \in Answers \cup {None} :
            result = (IF connected[i] THEN answer[i][c] ELSE "failed")
    BY DEF LockTypeOK, Answers
  <2>2. at[i][c] # "idle" /\ Leave(i, c, result) /\ UNCHANGED postgres
    BY <1>7, <2>1 DEF Unlock
  <2> QED
    BY <1>a, <2>2
<1>8. ASSUME NEW i \in Instances, Disconnect(i)
      PROVE  Mutex!MutexNext \/ UNCHANGED Mutex!mutexVars
  <2>1. /\ connected[i] /\ ~connected'[i] /\ UNCHANGED <<postgres, at>>
        /\ \A j \in Instances \ {i} : connected'[j] = connected[j]
    BY <1>8 DEF Disconnect, LockTypeOK
  <2>2. Running' = Running
    BY <2>1 DEF Running, Inside
  <2>3. ASSUME NEW c \in Calls, <<i, c>> \in Running
        PROVE  Mutex!MutexNext
    <3>1. at[i][c] # "idle"
      BY <2>3, RunningByStep
    <3>2. \A r \in Running : r # <<i, c>> => connected'[r[1]] = connected[r[1]]
      BY <2>1, <3>1, OneRunsAtMost, RunningByStep
    <3>3. <<i, c>> \in Claims /\ Claims' = Claims \ {<<i, c>>}
      BY <2>1, <2>2, <2>3, <3>2 DEF Claims
    <3>4. Mutex!LoseClaim(i, c)
      BY <2>1, <2>2, <3>3 DEF Mutex!LoseClaim, Claims
    <3> QED
      BY <3>4 DEF Mutex!MutexNext
  <2>4. CASE \A c \in Calls : <<i, c>> \notin Running
    <3>1. \A c \in Calls : at[i][c] \notin {"running", "unlocking"}
      BY <2>4, RunningByStep
    <3> QED
      BY <2>1, <3>1, Invisible
  <2> QED
    BY <2>3, <2>4
<1>9. ASSUME NEW i \in Instances, Crash(i)
      PROVE  Mutex!MutexNext \/ UNCHANGED Mutex!mutexVars
  <2>1. /\ \A d \in Calls : at'[i][d] = "idle"
        /\ \A j \in Instances \ {i} : at'[j] = at[j] /\ connected'[j] = connected[j]
        /\ UNCHANGED postgres
    BY <1>9 DEF Crash, LockTypeOK
  <2>2. CASE \E c \in Calls : at[i][c] # "idle"
    BY <2>1, <2>2, OutOfTheTick
  <2>3. CASE \A c \in Calls : at[i][c] = "idle"
    BY <2>1, <2>3, Invisible
  <2> QED
    BY <2>2, <2>3
<1>10. CASE SessionEnds
  BY <1>10, Invisible DEF SessionEnds
<1>11. CASE UNCHANGED lockVars
  BY <1>11, Invisible DEF lockVars
<1> QED
  BY <1>1, <1>2, <1>3, <1>4, <1>5, <1>6, <1>7, <1>8, <1>9, <1>10, <1>11
     DEF LockNext, Progress

(* The two locks are TickMutex: each step lets a tick begin, ends one or   *)
(* cuts its claim, as the mutex allows it, or is invisible to it.          *)
THEOREM LocksImplementMutex == LockSpec => ImplementsMutex
<1>1. LockInit => Mutex!MutexInit
  BY DEF LockInit, Mutex!MutexInit, Running, Inside
<1>2. LockInv /\ [LockNext]_lockVars => [Mutex!MutexNext]_(Mutex!mutexVars)
  BY LockStepsAreMutexSteps
<1> QED
  BY <1>1, <1>2, LockInvAlways, PTL DEF LockSpec, ImplementsMutex, Mutex!MutexSpec
-----------------------------------------------------------------------------
(* Without PostgreSQL nobody ever takes the key.                           *)
OnlyPostgresHasKeys == ~postgres => session = None

(* The process is in a tick: Inside, for any expression in the place of i. *)
InTick(i) == \E c \in Calls : at[i][c] \in {"running", "unlocking"}

KeyInv == KeyHasAnOwner /\ OnlyPostgresHasKeys

LEMMA OwnersStay == LockInv /\ KeyInv /\ [LockNext]_lockVars => KeyInv'
<1> SUFFICES ASSUME LockInv, KeyInv, [LockNext]_lockVars PROVE KeyInv'
  OBVIOUS
<1> USE DEF LockInv, KeyInv
<1>k. session \in Instances \cup {None} /\ None \notin Instances
  BY TickLockAssumption DEF LockTypeOK
\* Whoever leaves without the key leaves its owner in the tick.
<1>a. ASSUME NEW i \in Instances, NEW c \in Calls, NEW result \in Answers \cup {None},
             at[i][c] # "idle", Leave(i, c, result), UNCHANGED <<postgres, session, orphaned>>,
             \/ at[i][c] \notin {"running", "unlocking"}
             \/ ~connected[i]
             \/ ~postgres
      PROVE  KeyInv'
  <2>1. CASE session = None
    BY <1>a, <2>1 DEF KeyHasAnOwner, InTick, Inside, OnlyPostgresHasKeys
  <2>2. CASE session # None
    <3>1. postgres
      BY <2>2 DEF OnlyPostgresHasKeys
    <3>2. ASSUME ~orphaned
          PROVE  session # i
      <4>1. connected[session] /\ InTick(session)
        BY <2>2, <3>2 DEF KeyHasAnOwner, InTick, Inside
      <4>2. SUFFICES ASSUME session = i PROVE FALSE
        OBVIOUS
      <4>3. PICK d \in Calls : at[i][d] \in {"running", "unlocking"}
        BY <4>1, <4>2 DEF InTick, Inside
      <4>4. d = c
        BY <1>a, <4>3 DEF InsiderHolds
      <4> QED
        BY <1>a, <3>1, <4>1, <4>2, <4>3, <4>4
    <3>3. \A j \in Instances \ {i} : at'[j] = at[j] /\ connected'[j] = connected[j]
      BY <1>a DEF Leave, MoveTo, LockTypeOK
    <3>4. ASSUME ~orphaned
          PROVE  (connected[session] /\ InTick(session))'
      <4>1. session \in Instances \ {i} /\ connected[session] /\ InTick(session)
        BY <1>k, <2>2, <3>2, <3>4 DEF KeyHasAnOwner, InTick, Inside
      <4>2. InTick(session)'
        BY <3>3, <4>1, <1>a DEF InTick, Inside
      <4> QED
        BY <1>a, <3>3, <4>1, <4>2 DEF InTick, Inside
    <3> QED
      BY <1>a, <3>1, <3>4 DEF KeyHasAnOwner, InTick, Inside, OnlyPostgresHasKeys
  <2> QED
    BY <2>1, <2>2
\* Who is in a tick stays there, on the same connection.
<1>b. ASSUME UNCHANGED <<postgres, session, orphaned>>,
             \A j \in Instances, d \in Calls :
                at[j][d] \in {"running", "unlocking"} /\ connected[j]
                  => at'[j][d] \in {"running", "unlocking"} /\ connected'[j]
      PROVE  KeyInv'
  <2>1. OnlyPostgresHasKeys'
    BY <1>b DEF OnlyPostgresHasKeys
  <2>2. ASSUME session' # None, ~orphaned'
        PROVE  (connected[session] /\ InTick(session))'
    <3>1. session \in Instances /\ connected[session] /\ InTick(session) /\ session' = session
      BY <1>b, <1>k, <2>2 DEF KeyHasAnOwner, InTick, Inside
    <3>2. PICK d \in Calls : at[session][d] \in {"running", "unlocking"}
      BY <3>1 DEF InTick, Inside
    <3> QED
      BY <1>b, <3>1, <3>2 DEF InTick, Inside
  <2> QED
    BY <2>1, <2>2 DEF KeyHasAnOwner, InTick, Inside
<1>1. ASSUME NEW i \in Instances, NEW c \in Calls, SkipHere(i, c)
      PROVE  KeyInv'
  BY <1>1, <1>b DEF SkipHere
<1>2. ASSUME NEW i \in Instances, NEW c \in Calls, Enter(i, c)
      PROVE  KeyInv'
  <2>1. PICK step \in Steps : MoveTo(i, c, step)
    BY <1>2 DEF Enter, Steps
  <2>2. at[i][c] = "idle" /\ UNCHANGED <<postgres, session, orphaned, connected>>
    BY <1>2 DEF Enter
  <2> QED
    BY <1>b, <2>1, <2>2, MoveOne
<1>3. ASSUME NEW i \in Instances, NEW c \in Calls, Connect(i, c)
      PROVE  KeyInv'
  <2>1. /\ MoveTo(i, c, "trying") /\ "trying" \in Steps /\ at[i][c] = "connecting"
        /\ UNCHANGED <<postgres, session, orphaned>>
    BY <1>3 DEF Connect, Steps
  <2>2. \A j \in Instances : connected[j] => connected'[j]
    BY <1>3 DEF Connect, LockTypeOK
  <2> QED
    BY <1>b, <2>1, <2>2, MoveOne
<1>4. ASSUME NEW i \in Instances, NEW c \in Calls, ConnectFails(i, c)
      PROVE  KeyInv'
  BY <1>4, <1>a DEF ConnectFails, Answers
<1>5. ASSUME NEW i \in Instances, NEW c \in Calls, TryLock(i, c)
      PROVE  KeyInv'
  <2>1. at[i][c] = "trying" /\ connected[i] /\ postgres /\ UNCHANGED <<postgres, orphaned>>
    BY <1>5 DEF TryLock, LockSteps
  <2>2. CASE Granted
    <3>1. MoveTo(i, c, "running") /\ UNCHANGED connected /\ session' = i
      BY <1>5, <2>2 DEF TryLock, Granted
    <3>2. at'[i][c] = "running"
      BY <3>1, MoveOne DEF Steps
    <3> QED
      BY <2>1, <3>1, <3>2 DEF KeyHasAnOwner, InTick, Inside, OnlyPostgresHasKeys
  <2>3. CASE ~Granted
    BY <1>5, <1>a, <2>1, <2>3 DEF TryLock, TurnedAway, Answers
  <2> QED
    BY <2>2, <2>3
<1>6. ASSUME NEW i \in Instances, NEW c \in Calls, TryLockFails(i, c)
      PROVE  KeyInv'
  <2>1. at[i][c] = "trying" /\ Leave(i, c, "failed") /\ UNCHANGED postgres /\ postgres
    BY <1>6 DEF TryLockFails, LockSteps
  <2>2. CASE UNCHANGED <<session, orphaned>>
    BY <1>a, <2>1, <2>2 DEF Answers
  <2>3. CASE session' = i /\ orphaned' = TRUE
    BY <2>1, <2>3 DEF KeyHasAnOwner, InTick, Inside, OnlyPostgresHasKeys
  <2> QED
    BY <1>6, <2>2, <2>3 DEF TryLockFails
<1>7. ASSUME NEW i \in Instances, NEW c \in Calls, NEW result \in {"ran", "failed"},
             BodyEnds(i, c, result)
      PROVE  KeyInv'
  <2>1. /\ at[i][c] = "running" /\ result \in Answers
        /\ UNCHANGED <<postgres, session, orphaned>>
    BY <1>7 DEF BodyEnds, Answers
  <2>2. CASE postgres
    <3>1. MoveTo(i, c, "unlocking") /\ "unlocking" \in Steps /\ UNCHANGED connected
      BY <1>7, <2>2 DEF BodyEnds, Steps
    <3> QED
      BY <1>b, <2>1, <3>1, MoveOne
  <2>3. CASE ~postgres
    BY <1>7, <1>a, <2>1, <2>3 DEF BodyEnds
  <2> QED
    BY <2>2, <2>3
<1>8. ASSUME NEW i \in Instances, NEW c \in Calls, Unlock(i, c)
      PROVE  KeyInv'
  <2>1. PICK result \in Answers \cup {None} :
            result = (IF connected[i] THEN answer[i][c] ELSE "failed")
    BY DEF LockTypeOK, Answers
  <2>2. at[i][c] = "unlocking" /\ Leave(i, c, result) /\ UNCHANGED <<postgres, orphaned>>
    BY <1>8, <2>1 DEF Unlock
  <2>3. CASE connected[i]
    <3>1. session' = None
      BY <1>8, <2>3 DEF Unlock, Unlocked
    <3> QED
      BY <3>1 DEF KeyHasAnOwner, InTick, Inside, OnlyPostgresHasKeys
  <2>4. CASE ~connected[i]
    BY <1>8, <1>a, <2>2, <2>4 DEF Unlock
  <2> QED
    BY <2>3, <2>4
<1>9. ASSUME NEW i \in Instances, Disconnect(i) \/ Crash(i)
      PROVE  KeyInv'
  <2>1. /\ orphaned' = (orphaned \/ session = i) /\ UNCHANGED <<postgres, session>>
        /\ \A j \in Instances \ {i} : at'[j] = at[j] /\ connected'[j] = connected[j]
    BY <1>9 DEF Disconnect, Crash, LockTypeOK
  <2>2. OnlyPostgresHasKeys'
    BY <2>1 DEF OnlyPostgresHasKeys
  <2>3. ASSUME session' # None, ~orphaned'
        PROVE  (connected[session] /\ InTick(session))'
    <3>1. session \in Instances \ {i} /\ connected[session] /\ InTick(session)
      BY <1>k, <2>1, <2>3 DEF KeyHasAnOwner, InTick, Inside
    <3>2. InTick(session)'
      BY <2>1, <3>1 DEF InTick, Inside
    <3> QED
      BY <2>1, <3>1, <3>2 DEF InTick, Inside
  <2> QED
    BY <2>2, <2>3 DEF KeyHasAnOwner, InTick, Inside
<1>10. CASE SessionEnds
  BY <1>10 DEF SessionEnds, KeyHasAnOwner, OnlyPostgresHasKeys
<1>11. CASE UNCHANGED lockVars
  BY <1>11, <1>b DEF lockVars
<1> QED
  BY <1>1, <1>2, <1>3, <1>4, <1>5, <1>6, <1>7, <1>8, <1>9, <1>10, <1>11
     DEF LockNext, Progress

(* The key is never left with a session that is alive and not in a tick:   *)
(* there is always somebody who will unlock, or whom PostgreSQL drops.     *)
THEOREM KeyIsNeverStranded == LockSpec => []KeyHasAnOwner
<1>1. LockInit => KeyInv
  BY DEF LockInit, KeyInv, KeyHasAnOwner, OnlyPostgresHasKeys
<1>2. KeyInv => KeyHasAnOwner
  BY DEF KeyInv
<1> QED
  BY <1>1, <1>2, OwnersStay, LockInvAlways, PTL DEF LockSpec
=============================================================================
