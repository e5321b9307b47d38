---------------------------- MODULE StateRegister ----------------------------
(***************************************************************************)
(* What a reader of app/db/repo.py takes the engine_state row to be: a     *)
(* register. A save stores the state it was called with, as a whole and at *)
(* once, or is lost; a process starts from what was stored last. It holds  *)
(* one save at a time.                                                     *)
(***************************************************************************)
CONSTANTS
    Dumps,   \* what the breaker can be
    Fresh,   \* the state of a process that finds no row
    NoRow

State == [kill : BOOLEAN, breaker : Dumps]

VARIABLES
    memory,   \* the switch and the breaker of the process
    row,      \* what is stored
    pending   \* the states being saved: one at most

registerVars == <<memory, row, pending>>

RegisterInit ==
    /\ memory = Fresh
    /\ row = NoRow
    /\ pending = {}

(* The switch moves only together with a save, the breaker also before one.*)
Assess(dump) ==
    /\ memory' = [memory EXCEPT !.breaker = dump]
    /\ UNCHANGED <<row, pending>>

Save(state) ==
    /\ pending = {}
    /\ memory' = state
    /\ pending' = {state}
    /\ UNCHANGED row

Stored ==
    /\ row' \in pending
    /\ pending' = {}
    /\ UNCHANGED memory

Lost ==
    /\ pending' = {}
    /\ UNCHANGED <<memory, row>>

Restart ==
    /\ memory' = IF row = NoRow THEN Fresh ELSE row
    /\ pending' = {}
    /\ UNCHANGED row

RegisterNext ==
    \/ \E dump \in Dumps : Assess(dump)
    \/ \E state \in State : Save(state)
    \/ Stored \/ Lost \/ Restart

RegisterSpec == RegisterInit /\ [][RegisterNext]_registerVars
=============================================================================
