--------------------------- MODULE MCOperatorExit ---------------------------
(* One or two symbols, one or two close orders.                            *)
EXTENDS OperatorExit

CONSTANTS btc, eth, o1, o2

OneSymbol  == {btc}
TwoSymbols == {btc, eth}
OneOrder   == {o1}
TwoOrders  == {o1, o2}
=============================================================================
