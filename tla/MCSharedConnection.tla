------------------------- MODULE MCSharedConnection -------------------------
(* Two single writes and two transactions of two statements each.          *)
EXTENDS SharedConnection

CONSTANTS e1, e2, t1, t2

FourCalls       == {e1, e2, t1, t2}
Transactions    == {t1, t2}
OneOrTwo        == [c \in FourCalls |-> IF c \in Transactions THEN 2 ELSE 1]
=============================================================================
