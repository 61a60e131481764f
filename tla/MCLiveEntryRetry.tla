-------------------------- MODULE MCLiveEntryRetry --------------------------
(* A small instance of LiveEntryRetry: two entries contend for one symbol. *)
EXTENDS LiveEntryRetry

CONSTANTS a1, a2, btc, none

TwoIds     == {a1, a2}
OneSymbol  == {btc}
SameSymbol == [i \in {a1, a2} |-> btc]
=============================================================================
