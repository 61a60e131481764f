--------------------------- MODULE Services_proofs ---------------------------
(***************************************************************************)
(* The services together. Each keeps state of its own, so what was proved  *)
(* of each holds of all of them however their steps fall between, or on,   *)
(* each other; MCServices, which runs one at a time, is the special case   *)
(* that TLC can afford.                                                    *)
(***************************************************************************)
EXTENDS MCServices, Storage_proofs, Signals_proofs, Sessions_proofs

LEMMA StepsOfParts ==
    [Next]_parts =>
        /\ [ConnectionNext]_connectionVars
        /\ [SchemaNext]_schemaVars
        /\ [AuthorizationNext]_authorizationVars
        /\ [StreamNext]_streamVars
        /\ [UserNext]_userVars
        /\ [SwitchNext]_switchVars
        /\ [StopNext]_stopVars
BY DEF Next, parts

LEMMA InitOfParts ==
    Init => /\ ConnectionInit /\ SchemaInit /\ AuthorizationInit
            /\ StreamInit /\ UserInit /\ SwitchInit /\ StopInit
BY DEF Init

-----------------------------------------------------------------------------
(* Every service goes its own way, at any pace; PAPER trading and the      *)
(* discovery cycles are two more.                                          *)
Together ==
    /\ ConnectionSpec /\ SchemaSpec /\ AuthorizationSpec
    /\ StreamSpec /\ UserSpec /\ SwitchSpec

(* What TLC checks is one of the ways the services go together.            *)
THEOREM Composition == Spec => Together /\ StopInit /\ [][StopNext]_stopVars
BY StepsOfParts, InitOfParts, PTL
   DEF Spec, Together, ConnectionSpec, SchemaSpec, AuthorizationSpec, StreamSpec, UserSpec,
       SwitchSpec

(* What the services promise of their states.                              *)
ServicesSafe ==
    /\ QuietMeansCommitted /\ VersionTellsSchema /\ ExecutedOnce
    /\ StreamsOwned /\ ReadyIsCurrent /\ MarkWasReached /\ NothingLeftBehind

(* They keep these promises side by side, whatever the symbols and the     *)
(* exchanges: where the name of one symbol is part of another's, the       *)
(* ownership of streams still holds (StreamsOwned). PAPER trading and the  *)
(* discovery cycles keep theirs beside them.                               *)
THEOREM ServicesKeepSafe ==
    Together /\ PaperSpec /\ CycleSpec => [](ServicesSafe /\ LotsAccounted /\ OneAttemptPerCandle)
BY NothingLeftOpen, VersionsAreTrue, LotsAreAccounted, ExecutesOnce, OwnerIsSole, OneAttempt,
   ReadyCurrent, MarkReached, LeavesNothing, PTL
   DEF Together, ServicesSafe

(* The same of their steps: committed writes are those of an atomic store, *)
(* PAPER entries are new and paid for, and approvals and setups are not    *)
(* dropped.                                                                *)
THEOREM ServicesStep ==
    Together /\ PaperSpec /\ CycleSpec
        => ImplementsStore /\ EntriesAreNew /\ PendingSurvives /\ TakenIsFinished
BY SerialCallsAreAtomic, EntriesPaidAndNew, PendingStays, FinishesWhatItTook, PTL
   DEF Together
=============================================================================
