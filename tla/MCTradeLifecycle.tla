-------------------------- MODULE MCTradeLifecycle --------------------------
(* A small instance of TradeLifecycle: two tokens, five lots of equity, so *)
(* that one lot is twenty percent of the portfolio.                        *)
EXTENDS TradeLifecycle, TLC

CONSTANTS A, B

MCSymbols == {A, B}
MCSymmetry == Permutations(MCSymbols)
=============================================================================
