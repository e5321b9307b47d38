---------------------------- MODULE MCTossClient ----------------------------
(* Two callers, of which one can be answered a late 401 after the other    *)
(* has renewed the token; two dropped tokens, so that a request may be     *)
(* refused twice; two that come near their expiry, at once when they are   *)
(* issued or later, so that a nested request fetches again, behind whoever *)
(* waits.                                                                  *)
EXTENDS TossClient
=============================================================================
