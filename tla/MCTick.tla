------------------------------- MODULE MCTick -------------------------------
(* Two interchangeable symbols and two days; buys of 1 or 2 against a cap  *)
(* of 3, so that one tick can reach the cap, two can overrun it, and a     *)
(* buy can fit on one side of midnight only.                               *)
EXTENDS Tick, TLC

SymbolSymmetry == Permutations(Symbols)
=============================================================================
