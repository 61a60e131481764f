----------------------------- MODULE MCEntries -----------------------------
(* How positions come about: the discovery cycle that finds and claims     *)
(* opportunities, the LIVE entry that executes one, and PAPER trading. One *)
(* of them runs in each behaviour.                                         *)
EXTENDS MCLiveEntry, DiscoveryCycle, PaperTrading

Ranked == <<btc, eth>>

VARIABLE way    \* the part that runs
liveVars == <<vars, unused>>
ways == <<way, liveVars, cycleVars, paperVars>>

WaysInit ==
    /\ way \in {"live", "cycle", "paper"}
    /\ PairInit /\ CycleInit /\ PaperInit
    /\ way # "live" => unused = a2
    /\ way # "cycle" => stalked
    /\ way # "paper" => quote = [t \in Times |-> Min(Prices)]

WaysNext ==
    \/ way = "live" /\ PairNext /\ UNCHANGED <<way, cycleVars, paperVars>>
    \/ way = "cycle" /\ CycleNext /\ UNCHANGED <<way, liveVars, paperVars>>
    \/ way = "paper" /\ PaperNext /\ UNCHANGED <<way, liveVars, cycleVars>>

WaysSpec == WaysInit /\ [][WaysNext]_ways
=============================================================================
