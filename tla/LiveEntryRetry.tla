-------------------------- MODULE LiveEntryRetry ---------------------------
(* LiveEntry under a scheduler: the runner's recovery loop never gives up, *)
(* the venue publishes what it holds, and only finitely many calls fail    *)
(* that could have succeeded. A step the code is forced into (a position   *)
(* that is not visible yet, a leg the venue cannot accept) costs nothing.  *)
(* A view of the operator counts as a fault, too.                          *)
EXTENDS LiveEntry

CONSTANT MaxFaults    \* calls that may fail, and crashes, over a behaviour
ASSUME MaxFaultsAssumption == MaxFaults \in Nat

VARIABLE faults
retryVars == <<vars, faults>>

(* Steps in which every call the runner makes succeeds.                    *)
Progress ==
    \/ Restart \/ BeginCycle \/ SyncPortfolio \/ Submit \/ SubmitAccepted
    \/ SubmitRefused \/ RequeryFilled \/ RequeryDead
    \/ Acknowledge \/ ObserveEntry \/ SaveRow
    \/ Inspect \/ PlaceLeg \/ PostLeg \/ PlanNoLongerValid \/ Complete
    \/ NothingToRecover \/ RecoverVisible \/ RecoverClosed
    \/ ExitLookup \/ ExitGone \/ ExitPost \/ ExitCheck
    \/ CancelOrphans \/ StageLifecycle \/ ResolveNoExposure
    \/ BeginReconcile \/ NaturalExitsDone \/ PortfolioSafe
    \/ (PersistBlocked /\ pc' = "cycle") \/ (PersistRefused /\ pc' = "cycle")
    \/ \E i \in Ids : Reserve(i) \/ RecoverAcknowledged(i) \/ RecoverRejected(i)
    \/ \E s \in Symbols : NaturalExit(s)

Alone == UNCHANGED <<sync, raced>>

(* A failure that was not forced uses up one of the allowed faults.        *)
Forced == ~ENABLED Progress /\ RunnerStep
Fault  == faults < MaxFaults /\ (Crash \/ SyncReads \/ (RunnerStep /\ Alone))

RetryInit == Init /\ faults = 0
RetryNext ==
    \/ (Progress \/ Forced \/ VenueStep) /\ Alone /\ UNCHANGED faults
    \/ (SyncAsks \/ SyncSaves) /\ UNCHANGED faults
    \/ Fault /\ faults' = faults + 1

RetrySpec ==
    /\ RetryInit /\ [][RetryNext]_retryVars
    /\ WF_retryVars((Progress \/ Forced) /\ Alone /\ UNCHANGED faults)
    /\ WF_retryVars(VenuePublishes /\ Alone /\ UNCHANGED faults)

(* The row of the symbol has kept a leg that an earlier entry had and that *)
(* has been executed: ensure() raises on it, time and again.               *)
KeepsEarlierLeg(i) == \E k \in Kinds, j \in Ids \ {i} :
    row[SymbolOf[i]].legs[k] = j /\ leg[k][j] = "filled"

(* An acknowledged entry whose row was saved under its own id is not left  *)
(* in doubt: recovery protects it, or proves it closed - unless the row    *)
(* has kept an executed leg of an earlier entry, or a view of the operator *)
(* has upset it.                                                           *)
AcknowledgedConverges == \A i \in Ids :
    (status[i] = "acknowledged" /\ row[SymbolOf[i]].entry = i)
        ~> \/ status[i] \in {"completed", "resolved_no_exposure"}
           \/ KeepsEarlierLeg(i) \/ raced
=============================================================================
