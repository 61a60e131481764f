---------------------------- MODULE MCLiveEntry ----------------------------
(* A small instance of LiveEntry: a1 and a2 contend for btc, a3 is alone   *)
(* on eth, and two of the three attempts are made: two on one symbol, or   *)
(* two on symbols of their own that contend for the capacity.              *)
EXTENDS LiveEntry

CONSTANTS a1, a2, a3, btc, eth, none

ThreeIds     == {a1, a2, a3}
TwoSymbols   == {btc, eth}
SharedSymbol == [i \in {a1, a2, a3} |-> IF i = a3 THEN eth ELSE btc]

VARIABLE unused    \* the attempt that is never made

PairInit == Init /\ unused \in {a2, a3}
PairNext == Next /\ status'[unused] = "absent" /\ UNCHANGED unused
PairSpec == PairInit /\ [][PairNext]_<<vars, unused>>
=============================================================================
