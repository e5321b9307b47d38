------------------------------ MODULE TickMutex ------------------------------
(***************************************************************************)
(* What execute_tick promises to whoever calls it, without locks, sessions *)
(* or answers: a process runs one tick at a time, and where the database   *)
(* keeps processes apart, a tick begins only while nobody else has a claim *)
(* to be the one that runs. A running tick can lose its claim (with the    *)
(* connection its lock lives on) and never gets it back; it goes on, but   *)
(* no longer keeps others out.                                             *)
(***************************************************************************)
CONSTANTS Instances, Calls

VARIABLES
    advisory,  \* the database keeps processes apart
    running,   \* <<process, call>> of every tick under way
    claims     \* those of them whose claim to run alone holds

mutexVars == <<advisory, running, claims>>

MutexInit ==
    /\ advisory \in BOOLEAN
    /\ running = {}
    /\ claims = {}

Begin(i, c) ==
    /\ {i} \X Calls \cap running = {}
    /\ running' = running \cup {<<i, c>>}
    /\ IF advisory
       THEN claims = {} /\ claims' = {<<i, c>>}
       ELSE UNCHANGED claims
    /\ UNCHANGED advisory

(* The tick ends, by itself or with its process.                           *)
End(i, c) ==
    /\ <<i, c>> \in running
    /\ running' = running \ {<<i, c>>}
    /\ claims' = claims \ {<<i, c>>}
    /\ UNCHANGED advisory

LoseClaim(i, c) ==
    /\ <<i, c>> \in claims
    /\ claims' = claims \ {<<i, c>>}
    /\ UNCHANGED <<advisory, running>>

MutexNext ==
    \E i \in Instances, c \in Calls : Begin(i, c) \/ End(i, c) \/ LoseClaim(i, c)

MutexSpec == MutexInit /\ [][MutexNext]_mutexVars
=============================================================================
