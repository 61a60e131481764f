-------------------------- MODULE MCRuntimeControl --------------------------
(* Two markets and two strategies: portfolios of none, one and two         *)
(* contexts, and selections that change them.                              *)
EXTENDS RuntimeControl

CONSTANTS m1, m2, s1, s2

TwoMarkets    == {m1, m2}
TwoStrategies == {s1, s2}
=============================================================================
