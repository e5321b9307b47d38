---------------------------- MODULE MCPortfolio ----------------------------
(* Two interchangeable symbols at two prices, a third of the higher one    *)
(* apart; cash for three shares at the higher price, rates of one part in  *)
(* twenty. A buy at 12 marked at 8 is due for its stop loss; one bought at *)
(* 8 and sold at 12 makes a profit.                                        *)
EXTENDS Portfolio, TLC

SymbolSymmetry == Permutations(Symbols)
=============================================================================
