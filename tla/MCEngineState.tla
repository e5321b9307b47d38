--------------------------- MODULE MCEngineState ---------------------------
(* One ticking coroutine, two request handlers, and a breaker that is open *)
(* or halted. Liveness is checked too, so there is no symmetry.            *)
EXTENDS EngineState
=============================================================================
