------------------------------ MODULE TickLock ------------------------------
(***************************************************************************)
(* How execute_tick (app/api/tick.py) keeps ticks apart: an asyncio.Lock   *)
(* within a process, and within it the PostgreSQL advisory lock of         *)
(* app/db/lock.py between processes. An instance is a process with one     *)
(* event loop; its calls are requests for a tick and the built-in loop.    *)
(*                                                                         *)
(* The advisory lock belongs to the database session of the connection     *)
(* that took it. PostgreSQL is external: it grants the key to one session, *)
(* and frees it when it notices that the session's client is gone.         *)
(***************************************************************************)
EXTENDS Integers, FiniteSets

CONSTANTS
    Instances,   \* processes that connect to one database
    Calls,       \* concurrent calls of execute_tick in a process
    None,
    MaxBreaks    \* bound: lost connections, crashes and failing statements

ASSUME TickLockAssumption ==
    /\ None \notin Calls /\ None \notin Instances
    /\ MaxBreaks \in Nat

Answers == {"ran", "busyHere", "busyElsewhere", "failed"}
Steps == {"idle", "connecting", "trying", "running", "unlocking"}

VARIABLES
    postgres,   \* engine.dialect.name = "postgresql"; else no advisory lock
    local,      \* [Instances -> the call holding the asyncio.Lock, or None]
    at,         \* [Instances -> [Calls -> step of the call]]
    answer,     \* [Instances -> [Calls -> last answer, or None]]
    connected,  \* [Instances -> is the connection of the lock usable]
    session,    \* external: instance whose session has the key, or None
    orphaned,   \* external: that session's client is gone
    breaks      \* bound

lockVars == <<postgres, local, at, answer, connected, session, orphaned, breaks>>
-----------------------------------------------------------------------------
LockInit ==
    /\ postgres \in BOOLEAN
    /\ local = [i \in Instances |-> None]
    /\ at = [i \in Instances |-> [c \in Calls |-> "idle"]]
    /\ answer = [i \in Instances |-> [c \in Calls |-> None]]
    /\ connected = [i \in Instances |-> FALSE]
    /\ session = None
    /\ orphaned = FALSE
    /\ breaks = 0

MoveTo(i, c, step) == at' = [at EXCEPT ![i][c] = step]

(* The call leaves both "async with" blocks and answers.                   *)
Leave(i, c, result) ==
    /\ MoveTo(i, c, "idle")
    /\ local' = [local EXCEPT ![i] = None]
    /\ connected' = [connected EXCEPT ![i] = FALSE]
    /\ answer' = [answer EXCEPT ![i][c] = result]

Break == breaks < MaxBreaks /\ breaks' = breaks + 1

(* lock.locked() and the acquire that follows are one step: nobody waits   *)
(* for this lock, so acquiring a free one does not suspend.                *)
FreeInAnyCase(i) == TRUE
Free(i) == local[i] = None

SkipHere(i, c) ==
    /\ at[i][c] = "idle"
    /\ ~Free(i)
    /\ answer' = [answer EXCEPT ![i][c] = "busyHere"]
    /\ UNCHANGED <<postgres, local, at, connected, session, orphaned, breaks>>

Enter(i, c) ==
    /\ at[i][c] = "idle"
    /\ Free(i)
    /\ local' = [local EXCEPT ![i] = c]
    /\ MoveTo(i, c, IF postgres THEN "connecting" ELSE "running")
    /\ UNCHANGED <<postgres, answer, connected, session, orphaned, breaks>>

Connect(i, c) ==
    /\ at[i][c] = "connecting"
    /\ connected' = [connected EXCEPT ![i] = TRUE]
    /\ MoveTo(i, c, "trying")
    /\ UNCHANGED <<postgres, local, answer, session, orphaned, breaks>>

ConnectFails(i, c) ==
    /\ at[i][c] = "connecting"
    /\ Break
    /\ Leave(i, c, "failed")
    /\ UNCHANGED <<postgres, session, orphaned>>

(* SELECT pg_try_advisory_lock                                             *)
GrantedInAnyCase == TRUE
Granted == session = None

KeepsWaiting(i, c) == UNCHANGED <<local, at, connected, answer>>
TurnedAway(i, c) == Leave(i, c, "busyElsewhere")

TryLock(i, c) ==
    /\ at[i][c] = "trying"
    /\ connected[i]
    /\ IF Granted
       THEN /\ session' = i
            /\ MoveTo(i, c, "running")
            /\ UNCHANGED <<local, connected, answer>>
       ELSE TurnedAway(i, c) /\ UNCHANGED session
    /\ UNCHANGED <<postgres, orphaned, breaks>>

(* The statement raises: on a lost connection always, else the failure cuts*)
(* the connection, perhaps after the lock was taken.                       *)
TryLockFails(i, c) ==
    /\ at[i][c] = "trying"
    /\ Leave(i, c, "failed")
    /\ \/ ~connected[i] /\ UNCHANGED <<session, orphaned, breaks>>
       \/ connected[i] /\ Break /\ UNCHANGED <<session, orphaned>>
       \/ connected[i] /\ Break /\ session = None /\ session' = i /\ orphaned' = TRUE
    /\ UNCHANGED postgres

(* The body of the tick ends, by returning or by an exception.             *)
BodyEnds(i, c, result) ==
    /\ at[i][c] = "running"
    /\ IF postgres
       THEN /\ MoveTo(i, c, "unlocking")
            /\ answer' = [answer EXCEPT ![i][c] = result]
            /\ UNCHANGED <<local, connected>>
       ELSE Leave(i, c, result)
    /\ UNCHANGED <<postgres, session, orphaned, breaks>>

StillLocked == session
Unlocked == None

(* The finally of pg_tick_lock; on a connection that is gone it raises, and*)
(* the answer of a tick that did run is lost.                              *)
Unlock(i, c) ==
    /\ at[i][c] = "unlocking"
    /\ Leave(i, c, IF connected[i] THEN answer[i][c] ELSE "failed")
    /\ session' = IF connected[i] THEN Unlocked ELSE session
    /\ UNCHANGED <<postgres, orphaned, breaks>>

(* The network or the pooler drops the connection: the body goes on.       *)
Disconnect(i) ==
    /\ connected[i]
    /\ Break
    /\ connected' = [connected EXCEPT ![i] = FALSE]
    /\ orphaned' = (orphaned \/ session = i)
    /\ UNCHANGED <<postgres, local, at, answer, session>>

Crash(i) ==
    /\ Break
    /\ local' = [local EXCEPT ![i] = None]
    /\ at' = [at EXCEPT ![i] = [c \in Calls |-> "idle"]]
    /\ answer' = [answer EXCEPT ![i] = [c \in Calls |-> None]]
    /\ connected' = [connected EXCEPT ![i] = FALSE]
    /\ orphaned' = (orphaned \/ session = i)
    /\ UNCHANGED <<postgres, session>>

(* PostgreSQL ends the session of a client that is gone.                   *)
SessionEnds ==
    /\ orphaned
    /\ session' = None
    /\ orphaned' = FALSE
    /\ UNCHANGED <<postgres, local, at, answer, connected, breaks>>

Progress(i, c) ==
    \/ Connect(i, c) \/ ConnectFails(i, c)
    \/ TryLock(i, c) \/ TryLockFails(i, c)
    \/ \E result \in {"ran", "failed"} : BodyEnds(i, c, result)
    \/ Unlock(i, c)

LockNext ==
    \/ \E i \in Instances, c \in Calls : SkipHere(i, c) \/ Enter(i, c) \/ Progress(i, c)
    \/ \E i \in Instances : Disconnect(i) \/ Crash(i)
    \/ SessionEnds

LockSpec == LockInit /\ [][LockNext]_lockVars

(* A call that was let in goes on: its statements and its HTTP requests    *)
(* have timeouts. PostgreSQL notices a dead client. Nobody is obliged to   *)
(* call again.                                                             *)
LockFairSpec ==
    /\ LockSpec
    /\ \A i \in Instances, c \in Calls : WF_lockVars(Progress(i, c))
    /\ WF_lockVars(SessionEnds)
-----------------------------------------------------------------------------
Inside(i) == {c \in Calls : at[i][c] \in {"running", "unlocking"}}

(* Types; and a connection is out of the pool only during a call.          *)
LockTypeOK ==
    /\ postgres \in BOOLEAN
    /\ local \in [Instances -> Calls \cup {None}]
    /\ at \in [Instances -> [Calls -> Steps]]
    /\ answer \in [Instances -> [Calls -> Answers \cup {None}]]
    /\ connected \in [Instances -> BOOLEAN]
    /\ session \in Instances \cup {None}
    /\ orphaned \in BOOLEAN
    /\ breaks \in Nat
    /\ \A i \in Instances : connected[i] => local[i] # None

(* tick.py:86, the asyncio lock serialises a process: whatever fails or is *)
(* cut off, two calls of one process are never past it together.           *)
OneCallPerProcess ==
    \A i \in Instances, c, d \in Calls :
        at[i][c] # "idle" /\ at[i][d] # "idle" => c = d

(* lock.py:1, ticks of several instances are serialised, as long as nobody *)
(* lost the connection its lock lives on: two instances are in a tick      *)
(* together only if one of them runs on a lost connection.                 *)
TicksAreSerialised ==
    \A i, j \in Instances :
        /\ postgres /\ i # j
        /\ Inside(i) # {} /\ Inside(j) # {}
        => ~connected[i] \/ ~connected[j]

(* lock.py:11, no lock is orphaned: whoever has the key is in a tick on    *)
(* the connection that took it, or is gone and PostgreSQL will notice.     *)
KeyHasAnOwner ==
    session # None => orphaned \/ (connected[session] /\ Inside(session) # {})

(* Hence the key always becomes free again, so that a later tick can run,  *)
(* and every call is answered.                                             *)
LockComesFree == []<>(session = None)
EveryCallAnswered ==
    \A i \in Instances, c \in Calls : at[i][c] # "idle" ~> at[i][c] = "idle"

(* tick.py:86 and lock.py:1, execute_tick is the mutex that TickMutex      *)
(* promises: a tick runs from the moment it is past both locks until it has*)
(* left them, its claim is the connection that the advisory lock lives on, *)
(* and everything else that the locks do is invisible to it.               *)
Running == {r \in Instances \X Calls : r[2] \in Inside(r[1])}

Mutex == INSTANCE TickMutex WITH
    advisory <- postgres,
    running <- Running,
    claims <- {r \in Running : connected[r[1]]}

ImplementsMutex == Mutex!MutexSpec
=============================================================================
