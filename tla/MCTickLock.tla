----------------------------- MODULE MCTickLock -----------------------------
(* Two processes with two calls each and one loss of a connection, of a    *)
(* statement or of a process. Liveness is checked too, so there is no      *)
(* symmetry.                                                               *)
EXTENDS TickLock
=============================================================================
