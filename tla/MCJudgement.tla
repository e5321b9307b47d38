---------------------------- MODULE MCJudgement ----------------------------
EXTENDS Judgement, TLC

CONSTANTS s1, s2

MCSymbols == {s1, s2}
SymbolSymmetry == Permutations(MCSymbols)

Regular == [common |-> TRUE, leveraged |-> FALSE, active |-> TRUE, liquidation |-> FALSE,
            suspended |-> FALSE, type |-> "STOCK", named |-> "plain"]
Rising == [history |-> 3, close |-> 5, volume |-> 2, sma |-> 4, rsi |-> 60]
Good == [listed |-> TRUE, stock |-> Regular, quote |-> Rising, warned |-> FALSE]

(* Good; off the watchlist; unknown to the master; without flags and named *)
(* like a preferred share; delisted; overbought; listed too lately to have *)
(* an average; with a warning.                                             *)
MCFindings ==
    {Good,
     [Good EXCEPT !.listed = FALSE],
     [Good EXCEPT !.stock = Unknown],
     [Good EXCEPT !.stock = [@ EXCEPT !.common = Unknown, !.active = Unknown,
                                      !.named = "preferred"]],
     [Good EXCEPT !.stock.active = FALSE],
     [Good EXCEPT !.quote.rsi = 90],
     [Good EXCEPT !.quote = [@ EXCEPT !.history = 1, !.sma = Unknown, !.rsi = Unknown]],
     [Good EXCEPT !.warned = TRUE]}
=============================================================================
