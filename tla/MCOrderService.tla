--------------------------- MODULE MCOrderService ---------------------------
(***************************************************************************)
(* Two ids, both sides, costs around the limits (1 fits everything, 2 is   *)
(* the largest order, 3 exceeds it), and contexts on and beside each limit.*)
(***************************************************************************)
EXTENDS OrderService

MCOrders == [id : Ids, symbol : {"s1", "s2"}, side : Sides,
             notional : {1, 3, Unknown}]

MCContexts == [inHours : BOOLEAN, killSwitch : BOOLEAN, breakerHalt : {FALSE},
               held : {{}, {"s1"}}, dailyUsed : {0, 2}, portfolio : {Unknown, 8},
               symbolValue : {0}]
=============================================================================
