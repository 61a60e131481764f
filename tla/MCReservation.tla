--------------------------- MODULE MCReservation ---------------------------
(* The two sides of the operator exit's reservation of the runtime: the    *)
(* switchboard with its actors, and the exit that reserves it. Either runs *)
(* by itself, on its own small instance.                                   *)
EXTENDS MCRuntimeControl, MCOperatorExit, TLC

VARIABLE side    \* "control" or "exit"
sides == <<side, controlVars, vars>>

SidesInit ==
    /\ side \in {"control", "exit"} /\ ControlInit /\ Init
    /\ side = "exit" => ~active /\ gate /\ operatorExit = "none"

SidesNext ==
    \/ side = "control" /\ ControlNext /\ UNCHANGED <<side, vars>>
    \/ side = "exit" /\ Next /\ UNCHANGED <<side, controlVars>>

SidesSpec == SidesInit /\ [][SidesNext]_sides

(* No market and no strategy of the settings is special, and only safety   *)
(* is checked.                                                             *)
Interchangeable == Permutations(TwoMarkets) \cup Permutations(TwoStrategies)
=============================================================================
