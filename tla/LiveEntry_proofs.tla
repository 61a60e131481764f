--------------------------- MODULE LiveEntry_proofs ---------------------------
(* Proofs about LiveEntry for every set of attempts, assignment of symbols *)
(* and capacity. First, type correctness and what the runner task holds    *)
(* where; then the submission attempts: one is incomplete at a time,       *)
(* verdicts agree with the venue, and the abstract ledger is implemented;  *)
(* then, that exposure stays within the portfolio's capacity and never     *)
(* doubles on a symbol; last, positions and legs: exposure is never        *)
(* unattended, legs are never lost, rows are not deleted early, and an     *)
(* open gate means that all is settled.                                    *)
EXTENDS LiveEntry, TLAPS, FiniteSetTheorems

(* Where the runner task is between attempts.                              *)
Idle == {"down", "recover", "reconcile", "natural", "portfolio", "cycle"}

Held == IF pc \in Idle THEN cur = NoId ELSE cur \in Ids

(* What a placement is at: something to place before it, nothing after it. *)
Placing == /\ pc \in {"place", "post"} => missing # {}
           /\ pc = "complete" => missing = {}

TypeInv == TypeOK /\ Held /\ Placing

-----------------------------------------------------------------------------
(* The values the actions write are of their type.                         *)
LEMMA BlankType == Blank \in Row
BY DEF Blank, Row

LEMMA SyncedType == ASSUME TypeOK, NEW s \in Symbols PROVE Synced(s) \in Row
BY BlankType DEF TypeOK, Synced, Row

LEMMA SyncAllType == ASSUME TypeOK PROVE SyncAll \in [Symbols -> Row]
BY SyncedType DEF SyncAll

LEMMA HereType == ASSUME cur \in Ids PROVE Here \in Symbols
BY SymbolAssumption DEF Here

LEMMA ObservedRowType ==
    ASSUME row \in [Symbols -> Row], cur \in Ids
    PROVE  [row EXCEPT ![Here].stored = TRUE, ![Here].entry = cur] \in [Symbols -> Row]
<1>1. Here \in Symbols /\ row[Here] \in Row
  BY HereType
<1>2. [row[Here] EXCEPT !.stored = TRUE, !.entry = cur] \in Row
  BY <1>1 DEF Row
<1> QED
  BY <1>1, <1>2

LEMMA OwnedRowType == ASSUME TypeOK, cur \in Ids PROVE OwnedRow \in Row
BY HereType DEF TypeOK, OwnedRow, Row

LEMMA NextLegType == ASSUME missing \subseteq Kinds, missing # {}
                     PROVE NextLeg \in missing /\ NextLeg \in Kinds
BY DEF NextLeg, Kinds

LEMMA LegRowType ==
    ASSUME TypeOK, cur \in Ids, missing # {}
    PROVE  /\ LegRow \in Row /\ LegRow.legs[NextLeg] \in Ids
           /\ LegRow.stored = row[Here].stored /\ LegRow.entry = row[Here].entry
           /\ \A k \in Kinds \ {NextLeg} : LegRow.legs[k] = row[Here].legs[k]
<1>1. row[Here] \in Row /\ NextLeg \in Kinds
  BY HereType, NextLegType DEF TypeOK
<1>2. LegRow = [row[Here] EXCEPT !.legs =
          [row[Here].legs EXCEPT ![NextLeg] =
              IF LegOf(NextLeg) = "none" /\ row[Here].legs[NextLeg] # NoId
              THEN row[Here].legs[NextLeg] ELSE cur]]
  BY <1>1 DEF LegRow, Row
<1> QED
  BY <1>1, <1>2 DEF Row

LEMMA RefreshedRowType ==
    ASSUME TypeOK, cur \in Ids, missing # {}
    PROVE  /\ RefreshedRow \in Row /\ RefreshedRow.legs[NextLeg] = cur
           /\ RefreshedRow.stored = row[Here].stored
           /\ RefreshedRow.entry = row[Here].entry
           /\ \A k \in Kinds \ {NextLeg} : RefreshedRow.legs[k] = row[Here].legs[k]
<1>1. row[Here] \in Row /\ NextLeg \in Kinds
  BY HereType, NextLegType DEF TypeOK
<1>2. RefreshedRow = [row[Here] EXCEPT !.legs = [row[Here].legs EXCEPT ![NextLeg] = cur]]
  BY <1>1 DEF RefreshedRow, Row
<1> QED
  BY <1>1, <1>2 DEF Row

LEMMA PostedType ==
    ASSUME TypeOK PROVE Posted \in [Kinds -> [Ids -> LegState]]
BY DEF TypeOK, Posted, LegState

LEMMA CancelledType ==
    ASSUME TypeOK, NEW K, NEW s PROVE Cancelled(K, s) \in [Kinds -> [Ids -> LegState]]
BY DEF TypeOK, Cancelled, LegState

LEMMA SaveType ==
    ASSUME TypeOK, cur \in Ids, NEW st \in Status, NEW new \in SaveMayFail(st)
    PROVE  new \in [Ids -> Status]
BY DEF TypeOK, SaveMayFail
-----------------------------------------------------------------------------
LEMMA NoTries == Budget \in Nat /\ 0 \in 0 .. Budget - 1
BY DEF Budget

LEMMA NoSyncType ==
    NoSync \in [at : {"idle", "read", "asked"}, rows : [Symbols -> Row], seen : SUBSET Ids]
BY BlankType DEF NoSync

LEMMA TypeInit == ASSUME Init PROVE TypeInv
BY BlankType, NoSyncType, NoTries
   DEF Init, TypeInv, TypeOK, SyncOK, Held, Idle, Placing, Status, OrderState, LegState,
       Pcs

LEMMA TypeProcess ==
    ASSUME TypeInv, Crash \/ (Restart /\ UNCHANGED <<sync, raced>>) PROVE TypeInv'
BY NoTries, NoSyncType DEF TypeInv, TypeOK, SyncOK, Held, Idle, Placing, Crash, Restart,
     Fail, durable, venue, Pcs

(* What a view of the operator writes is made of rows it has read, and of  *)
(* those there are.                                                        *)
LEMMA WrittenType ==
    ASSUME TypeOK, NEW s \in Symbols
    PROVE  /\ Written(s) \in Row
           /\ Written(s).entry \in {sync.rows[s].entry, row[s].entry, NoId}
BY BlankType DEF TypeOK, SyncOK, Written, Row, Blank

LEMMA TypeSync == ASSUME TypeInv, SyncStep PROVE TypeInv'
<1> USE DEF TypeInv, TypeOK, SyncOK, Held, Idle, Placing, durable, venue, volatile
<1>1. CASE SyncReads
  BY <1>1, NoSyncType DEF SyncReads
<1>2. CASE SyncAsks
  BY <1>2 DEF SyncAsks
<1>3. CASE SyncSaves
  <2>1. row' \in [Symbols -> Row]
    BY <1>3, WrittenType DEF SyncSaves
  <2>2. raced' \in BOOLEAN
    BY <1>3 DEF SyncSaves
  <2> QED
    BY <1>3, <2>1, <2>2, NoSyncType DEF SyncSaves
<1> QED
  BY <1>1, <1>2, <1>3 DEF SyncStep

LEMMA TypeVenue ==
    ASSUME TypeInv, VenueStep, UNCHANGED <<sync, raced>> PROVE TypeInv'
<1>0. SyncOK'
  BY DEF TypeInv, TypeOK, SyncOK
<1> USE <1>0
<1> USE DEF TypeInv, TypeOK, Held, Idle, Placing, durable, volatile, Here, NextLeg
<1>1. CASE VenuePublishes
  BY <1>1 DEF VenuePublishes
<1>2. ASSUME NEW i \in Ids, VenueOpens(i) \/ VenueFills(i) \/ VenueKills(i)
      PROVE  TypeInv'
  BY <1>2 DEF VenueOpens, VenueFills, VenueKills, OrderState
<1>3. ASSUME NEW i \in Ids, VenueCloses(i) PROVE TypeInv'
  <2>1. leg' \in [Kinds -> [Ids -> LegState]]
    BY <1>3 DEF VenueCloses, LegState
  <2> QED
    BY <1>3, <2>1 DEF VenueCloses
<1> QED
  BY <1>1, <1>2, <1>3 DEF VenueStep

LEMMA TypeEnter ==
    ASSUME TypeInv, EnterStep, UNCHANGED <<sync, raced>> PROVE TypeInv'
<1>0. SyncOK'
  BY DEF TypeInv, TypeOK, SyncOK
<1> USE <1>0
<1> USE NoTries DEF TypeInv, TypeOK, Held, Idle, Placing, durable, venue, scratch, Goto, Fail,
            Pcs
<1>1. CASE BeginCycle \/ PreflightFails
  BY <1>1 DEF BeginCycle, PreflightFails
<1>2. ASSUME NEW i \in Ids, Reserve(i) \/ ReserveFails(i) PROVE TypeInv'
  BY <1>2 DEF Reserve, ReserveFails, Status, Incomplete
<1>3. CASE SyncPortfolio \/ SyncPortfolioFails
  BY <1>3, SyncAllType DEF SyncPortfolio, SyncPortfolioFails
<1>4. CASE PersistBlocked
  BY <1>4, SaveType DEF PersistBlocked, Status, Terminal, Blocked
<1>5. CASE Submit
  BY <1>5 DEF Submit, OrderState
<1>6. CASE SubmitAccepted \/ SubmitRefused
  BY <1>6 DEF SubmitAccepted, SubmitRefused
<1>7. CASE SubmitUnknown \/ SubmitFails
  BY <1>7, SaveType DEF SubmitUnknown, SubmitFails, Status, Incomplete
<1>8. CASE PersistRefused
  BY <1>8, SaveType DEF PersistRefused, Status, Terminal
<1>9. CASE RequeryFilled \/ RequeryFails
  BY <1>9 DEF RequeryFilled, RequeryFails
<1>10. CASE RequeryDead
  BY <1>10, SaveType DEF RequeryDead, Status, Terminal
<1>11. CASE Acknowledge \/ AcknowledgeFails
  BY <1>11, SaveType DEF Acknowledge, AcknowledgeFails, Status, Incomplete
<1>12. CASE ObserveEntry \/ ObserveEntryFails
  BY <1>12, SyncedType, HereType DEF ObserveEntry, ObserveEntryFails
<1>13. CASE SaveRow \/ SaveRowFails
  BY <1>13, OwnedRowType, HereType DEF SaveRow, SaveRowFails
<1>14. CASE RequeryAgain
  <2>1. tries' \in 0 .. Budget - 1
    BY <1>14 DEF RequeryAgain
  <2> QED
    BY <1>14, <2>1 DEF RequeryAgain
<1> QED
  BY <1>1, <1>2, <1>3, <1>4, <1>5, <1>6, <1>7, <1>8, <1>9, <1>10, <1>11, <1>12,
     <1>13, <1>14 DEF EnterStep

LEMMA TypeProtect ==
    ASSUME TypeInv, ProtectStep, UNCHANGED <<sync, raced>> PROVE TypeInv'
<1>0. SyncOK'
  BY DEF TypeInv, TypeOK, SyncOK
<1> USE <1>0
<1> USE NoTries DEF TypeInv, TypeOK, Held, Idle, Placing, durable, venue, scratch, Goto, Fail,
            Pcs
<1>1. CASE Inspect
  BY <1>1 DEF Inspect
<1>2. CASE InspectFails \/ PlanNoLongerValid
  BY <1>2 DEF InspectFails, PlanNoLongerValid
<1>3. CASE PlaceLeg
  BY <1>3, LegRowType, HereType DEF PlaceLeg
<1>4. CASE PlaceLegFails
  BY <1>4, LegRowType, HereType DEF PlaceLegFails
<1>5. CASE PostLeg
  BY <1>5, PostedType DEF PostLeg
<1>6. CASE PostLegFails
  BY <1>6, PostedType DEF PostLegFails
<1>7. CASE Complete \/ CompleteFails
  BY <1>7, SaveType DEF Complete, CompleteFails, Status, Terminal
<1>8. CASE RefreshLeg
  <2>1. row' \in [Symbols -> Row]
    BY <1>8, RefreshedRowType, HereType DEF RefreshLeg
  <2> QED
    BY <1>8, <2>1 DEF RefreshLeg, volatile
<1> QED
  BY <1>1, <1>2, <1>3, <1>4, <1>5, <1>6, <1>7, <1>8 DEF ProtectStep

LEMMA TypeRecover ==
    ASSUME TypeInv, RecoverStep, UNCHANGED <<sync, raced>> PROVE TypeInv'
<1>0. SyncOK'
  BY DEF TypeInv, TypeOK, SyncOK
<1> USE <1>0
<1> USE NoTries DEF TypeInv, TypeOK, Held, Idle, Placing, durable, venue, scratch, Goto, Fail,
            Pcs
<1>1. CASE NothingToRecover \/ RecoverClosed \/ RecoverNotVisible
  BY <1>1 DEF NothingToRecover, RecoverClosed, RecoverNotVisible
<1>2. ASSUME NEW i \in Ids, RecoverAcknowledged(i) \/ RecoverRejected(i)
      PROVE  TypeInv'
  BY <1>2 DEF RecoverAcknowledged, RecoverRejected, Status, Incomplete, Terminal
<1>3. CASE RecoverVisible
  <2>1. row' \in [Symbols -> Row]
    BY <1>3, ObservedRowType DEF RecoverVisible
  <2> QED
    BY <1>3, <2>1 DEF RecoverVisible
<1>4. CASE ExitLookup \/ ExitLookupFails \/ ExitGone
  BY <1>4 DEF ExitLookup, ExitLookupFails, ExitGone
<1>5. CASE ExitPost
  BY <1>5 DEF ExitPost
<1>6. CASE ExitPostFails \/ ExitCheck
  BY <1>6 DEF ExitPostFails, ExitCheck
<1>7. CASE CancelOrphans \/ CancelOrphansFails
  <2>1. leg' \in [Kinds -> [Ids -> LegState]]
    BY <1>7, CancelledType DEF CancelOrphans, CancelOrphansFails
  <2> QED
    BY <1>7, <2>1 DEF CancelOrphans, CancelOrphansFails
<1>8. CASE StageLifecycle \/ StageLifecycleFails
  BY <1>8 DEF StageLifecycle, StageLifecycleFails
<1>9. CASE ResolveNoExposure \/ ResolveNoExposureFails
  BY <1>9, BlankType, HereType
     DEF ResolveNoExposure, ResolveNoExposureFails, Status, Terminal
<1>10. CASE ExitPriceBand
  <2>1. tries' \in 0 .. Budget - 1
    BY <1>10 DEF ExitPriceBand
  <2> QED
    BY <1>10, <2>1 DEF ExitPriceBand
<1> QED
  BY <1>1, <1>2, <1>3, <1>4, <1>5, <1>6, <1>7, <1>8, <1>9, <1>10 DEF RecoverStep

LEMMA TypeReconcile ==
    ASSUME TypeInv, ReconcileStep, UNCHANGED <<sync, raced>> PROVE TypeInv'
<1>0. SyncOK'
  BY DEF TypeInv, TypeOK, SyncOK
<1> USE <1>0
<1> USE NoTries DEF TypeInv, TypeOK, Held, Idle, Placing, durable, venue, volatile, scratch,
            Goto, Fail, Pcs
<1>1. CASE BeginReconcile
  <2>1. leg' \in [Kinds -> [Ids -> LegState]]
    BY <1>1 DEF BeginReconcile, LegState
  <2> QED
    BY <1>1, <2>1 DEF BeginReconcile
<1>2. CASE BeginReconcileFails \/ NaturalExitsDone
  BY <1>2 DEF BeginReconcileFails, NaturalExitsDone
<1>3. ASSUME NEW s \in Symbols, NaturalExit(s) \/ NaturalExitFails(s) PROVE TypeInv'
  <2>1. StagedWith(s) \subseteq Ids
    BY DEF StagedWith, Row
  <2>2. leg' \in [Kinds -> [Ids -> LegState]]
    BY <1>3, CancelledType DEF NaturalExit, NaturalExitFails
  <2>3. staged' \subseteq Ids /\ row' \in [Symbols -> Row]
    BY <1>3, <2>1, BlankType DEF NaturalExit, NaturalExitFails
  <2> QED
    BY <1>3, <2>2, <2>3 DEF NaturalExit, NaturalExitFails
<1>4. CASE PortfolioSafe \/ PortfolioUnsafe
  BY <1>4, SyncAllType DEF PortfolioSafe, PortfolioUnsafe
<1> QED
  BY <1>1, <1>2, <1>3, <1>4 DEF ReconcileStep

LEMMA TypeStutter == ASSUME TypeInv, UNCHANGED vars PROVE TypeInv'
BY DEF TypeInv, TypeOK, SyncOK, Held, Placing, vars, durable, venue, volatile

-----------------------------------------------------------------------------
(* Every variable stays in its type, and the runner task holds an attempt  *)
(* exactly while it works on one.                                          *)
THEOREM TypeInvariance == Spec => []TypeInv
<1>1. TypeInv /\ [Next]_vars => TypeInv'
  BY TypeProcess, TypeVenue, TypeEnter, TypeProtect, TypeRecover, TypeReconcile,
     TypeSync, TypeStutter DEF Next, RunnerStep
<1> QED
  BY <1>1, TypeInit, PTL DEF Spec

(* The variables of LiveEntry stay in their types.                         *)
THEOREM TypeCorrect == Spec => []TypeOK
BY TypeInvariance, PTL DEF TypeInv

-----------------------------------------------------------------------------
(* The attempts.                                                           *)
Unsent   == {"sync", "block_existing", "block_capacity", "submit"}
Sending  == {"response", "requery", "acknowledge", "observe", "ack_observe"}
Gone     == {"zero", "stage", "resolve"}
Handling == Gone \cup {"save_row", "inspect", "place", "post", "complete",
                       "exit_lookup", "exit_post", "exit_check"}
Between  == {"cycle", "reconcile", "natural", "portfolio"}

(* What the runner holds is incomplete, and nothing is when it holds none. *)
Owner ==
    /\ pc \notin Idle => status[cur] \in Incomplete
    /\ pc \in Between => IncompleteIds = {}
    /\ gate /\ pc # "down" => pc \in {"cycle", "reconcile"}

(* How far the order of the attempt in hand has gone.                      *)
Progressed ==
    /\ pc \in Unsent => status[cur] = "prepared" /\ order[cur] = "none"
    /\ pc \in Sending => order[cur] # "none"
    /\ pc = "refused" => order[cur] = "dead"
    /\ pc \in Handling => order[cur] = "filled"
    /\ \A i \in Ids : status[i] \in {"unresolved", "acknowledged"} => order[i] # "none"

(* Exposure the venue does not show yet belongs to the incomplete attempt, *)
(* and that attempt is alone on its symbol from its submission on.         *)
Alone ==
    /\ \A i \in exposure \cup seen : order[i] = "filled"
    /\ \A i \in exposure \ seen : status[i] \in Incomplete
    /\ \A i \in Ids : status[i] \in Incomplete /\ order[i] # "none" =>
          \A j \in exposure \cup seen : SymbolOf[j] = SymbolOf[i] => j = i
    /\ pc = "submit" => \A j \in exposure \cup seen : SymbolOf[j] # Here

(* An entry whose position was seen once is open only while it is seen, so *)
(* that its absence means it is closed.                                    *)
Observed ==
    /\ \A s \in Symbols : row[s].entry \in Ids => order[row[s].entry] = "filled"
    /\ \A s \in Symbols : row[s].entry \in exposure => row[s].entry \in seen
    /\ pc \in Handling /\ cur \in exposure => cur \in seen
    /\ pc \in Gone => cur \notin exposure

(* A resolved entry is closed and staged, as it is before the resolution.  *)
Ended ==
    /\ \A i \in Ids : status[i] = "resolved_no_exposure" => i \notin exposure /\ i \in staged
    /\ pc = "resolve" => cur \in staged

LedgerInv == SingleIncomplete /\ VerdictIsTrue /\ Owner /\ Progressed /\ Alone /\ Observed
             /\ Ended

(* The rows a view of the operator has read name entries that have been    *)
(* observed, too.                                                          *)
SyncInv == \A s \in Symbols : sync.rows[s].entry \in Ids =>
    /\ order[sync.rows[s].entry] = "filled"
    /\ sync.rows[s].entry \in exposure => sync.rows[s].entry \in seen

-----------------------------------------------------------------------------
LEMMA LedgerInit == ASSUME Init PROVE LedgerInv
BY NoIdAssumption
   DEF Init, LedgerInv, SingleIncomplete, VerdictIsTrue, Owner, Progressed, Alone,
       Observed, Ended, IncompleteIds, Incomplete, Blocked, Between, Idle, Unsent, Sending,
       Handling, Gone, Blank

LEMMA LedgerProcess == ASSUME TypeInv, LedgerInv, Crash \/ Restart PROVE LedgerInv'
BY DEF Crash, Restart, Fail, durable, venue, TypeInv, TypeOK, LedgerInv,
       SingleIncomplete, VerdictIsTrue, Owner, Progressed, Alone, Observed, Ended,
       IncompleteIds, Between, Idle, Unsent, Sending, Handling, Gone

LEMMA LedgerVenue == ASSUME TypeInv, LedgerInv, VenueStep PROVE LedgerInv'
<1> USE DEF TypeInv, TypeOK, Held, LedgerInv, SingleIncomplete, VerdictIsTrue, Owner,
            Progressed, Alone, Observed, Ended, IncompleteIds, Incomplete, Blocked, Between, Idle,
            Unsent, Sending, Handling, Gone, durable, volatile, Here
<1>1. CASE VenuePublishes
  BY <1>1 DEF VenuePublishes
<1>2. ASSUME NEW i \in Ids, VenueOpens(i) PROVE LedgerInv'
  BY <1>2 DEF VenueOpens
<1>3. ASSUME NEW i \in Ids, VenueFills(i) PROVE LedgerInv'
  <2>1. status[i] \in Incomplete /\ exposure' = exposure \cup {i} /\ seen' = seen
        /\ order' = [order EXCEPT ![i] = "filled"] /\ UNCHANGED <<status, row, pc, cur, gate>>
    BY <1>3 DEF VenueFills
  <2>2. SingleIncomplete' /\ VerdictIsTrue' /\ Owner'
    BY <2>1
  <2>3. Progressed'
    BY <1>3, <2>1 DEF VenueFills
  <2>4. Alone'
    <3>1. \A j \in exposure' \cup seen' : order'[j] = "filled"
      BY <2>1
    <3>2. \A j \in exposure' \ seen' : status'[j] \in Incomplete
      BY <2>1
    <3>3. \A k \in Ids : status'[k] \in Incomplete /\ order'[k] # "none" =>
             \A j \in exposure' \cup seen' : SymbolOf[j] = SymbolOf[k] => j = k
      BY <1>3, <2>1 DEF VenueFills
    <3>4. pc' # "submit"
      BY <1>3, <2>1 DEF VenueFills
    <3> QED
      BY <3>1, <3>2, <3>3, <3>4
  <2>5. Observed'
    BY <1>3, <2>1 DEF VenueFills
  <2>6. Ended'
    BY <1>3, <2>1 DEF VenueFills
  <2> QED
    BY <2>2, <2>3, <2>4, <2>5, <2>6
<1>4. ASSUME NEW i \in Ids, VenueKills(i) PROVE LedgerInv'
  BY <1>4 DEF VenueKills
<1>5. ASSUME NEW i \in Ids, VenueCloses(i) PROVE LedgerInv'
  BY <1>5 DEF VenueCloses
<1> QED
  BY <1>1, <1>2, <1>3, <1>4, <1>5 DEF VenueStep

(* Storing the portfolio never gives a row another entry.                  *)
LEMMA SyncedEntry ==
    ASSUME TypeOK, NEW s \in Symbols PROVE Synced(s).entry \in {row[s].entry, NoId}
BY DEF TypeOK, Synced, Blank, Row

LEMMA LedgerEnter == ASSUME TypeInv, LedgerInv, EnterStep PROVE LedgerInv'
<1> USE NoIdAssumption
    DEF TypeInv, TypeOK, Held, LedgerInv, SingleIncomplete, VerdictIsTrue, Owner,
        Progressed, Alone, Observed, Ended, IncompleteIds, Incomplete, Blocked, Between, Idle,
        Unsent, Sending, Handling, Gone, durable, venue, scratch, Here, Goto, Fail,
        SaveMayFail
<1>1. CASE BeginCycle \/ PreflightFails
  BY <1>1 DEF BeginCycle, PreflightFails
<1>2. ASSUME NEW i \in Ids, Reserve(i) PROVE LedgerInv'
  BY <1>2 DEF Reserve
<1>3. ASSUME NEW i \in Ids, ReserveFails(i) PROVE LedgerInv'
  BY <1>3 DEF ReserveFails
<1>4. CASE SyncPortfolio
  BY <1>4, SyncedEntry, SyncAllType DEF SyncPortfolio, SyncAll, Visible
<1>5. CASE SyncPortfolioFails
  BY <1>5, SyncedEntry, SyncAllType DEF SyncPortfolioFails, SyncAll
<1>6. CASE PersistBlocked
  BY <1>6 DEF PersistBlocked
<1>7. CASE Submit
  BY <1>7 DEF Submit
<1>8. CASE SubmitAccepted \/ SubmitRefused
  BY <1>8 DEF SubmitAccepted, SubmitRefused
<1>9. CASE SubmitUnknown
  BY <1>9 DEF SubmitUnknown
<1>10. CASE SubmitFails
  BY <1>10 DEF SubmitFails
<1>11. CASE PersistRefused
  BY <1>11 DEF PersistRefused
<1>12. CASE RequeryFilled \/ RequeryAgain \/ RequeryFails
  BY <1>12 DEF RequeryFilled, RequeryAgain, RequeryFails
<1>13. CASE RequeryDead
  BY <1>13 DEF RequeryDead
<1>14. CASE Acknowledge
  BY <1>14 DEF Acknowledge
<1>15. CASE AcknowledgeFails
  BY <1>15 DEF AcknowledgeFails
<1>16. CASE ObserveEntry
  BY <1>16, SyncedEntry, HereType DEF ObserveEntry, Visible
<1>17. CASE ObserveEntryFails
  BY <1>17, SyncedEntry, HereType DEF ObserveEntryFails
<1>18. CASE SaveRow
  BY <1>18, HereType DEF SaveRow, OwnedRow
<1>19. CASE SaveRowFails
  BY <1>19, HereType DEF SaveRowFails, OwnedRow
<1> QED
  BY <1>1, <1>2, <1>3, <1>4, <1>5, <1>6, <1>7, <1>8, <1>9, <1>10, <1>11, <1>12, <1>13,
     <1>14, <1>15, <1>16, <1>17, <1>18, <1>19 DEF EnterStep

LEMMA LedgerProtect == ASSUME TypeInv, LedgerInv, ProtectStep PROVE LedgerInv'
<1> USE NoIdAssumption
    DEF TypeInv, TypeOK, Held, LedgerInv, SingleIncomplete, VerdictIsTrue, Owner,
        Progressed, Alone, Observed, Ended, IncompleteIds, Incomplete, Blocked, Between, Idle,
        Unsent, Sending, Handling, Gone, durable, venue, scratch, Here, Goto, Fail,
        SaveMayFail
<1>1. CASE Inspect \/ InspectFails \/ PlanNoLongerValid
  BY <1>1 DEF Inspect, InspectFails, PlanNoLongerValid
<1>2. CASE PlaceLeg
  BY <1>2, LegRowType, HereType DEF PlaceLeg, Placing
<1>3. CASE PlaceLegFails
  BY <1>3, LegRowType, HereType DEF PlaceLegFails, Placing
<1>4. CASE PostLeg
  BY <1>4 DEF PostLeg
<1>5. CASE PostLegFails
  BY <1>5 DEF PostLegFails
<1>6. CASE Complete
  BY <1>6 DEF Complete
<1>7. CASE CompleteFails
  BY <1>7 DEF CompleteFails
<1>8. CASE RefreshLeg
  <2>1. row'[Here].entry = row[Here].entry /\ \A s \in Symbols \ {Here} : row'[s] = row[s]
    BY <1>8, RefreshedRowType, HereType DEF RefreshLeg, Placing
  <2> QED
    BY <1>8, <2>1 DEF RefreshLeg, volatile
<1> QED
  BY <1>1, <1>2, <1>3, <1>4, <1>5, <1>6, <1>7, <1>8 DEF ProtectStep

LEMMA LedgerRecover == ASSUME TypeInv, LedgerInv, RecoverStep PROVE LedgerInv'
<1> USE NoIdAssumption
    DEF TypeInv, TypeOK, Held, LedgerInv, SingleIncomplete, VerdictIsTrue, Owner,
        Progressed, Alone, Observed, Ended, IncompleteIds, Incomplete, Blocked, Between, Idle,
        Unsent, Sending, Handling, Gone, durable, venue, scratch, Here, Goto, Fail,
        SaveMayFail
<1>1. CASE NothingToRecover \/ RecoverNotVisible
  BY <1>1 DEF NothingToRecover, RecoverNotVisible
<1>2. ASSUME NEW i \in Ids, RecoverAcknowledged(i) PROVE LedgerInv'
  BY <1>2 DEF RecoverAcknowledged
<1>3. ASSUME NEW i \in Ids, RecoverRejected(i) PROVE LedgerInv'
  BY <1>3 DEF RecoverRejected
<1>4. CASE RecoverVisible
  BY <1>4, HereType DEF RecoverVisible, Visible, Row
<1>5. CASE RecoverClosed
  BY <1>5, HereType DEF RecoverClosed, Visible
<1>6. CASE ExitLookup
  BY <1>6 DEF ExitLookup, Visible
<1>7. CASE ExitLookupFails \/ ExitGone \/ ExitPriceBand \/ ExitPostFails
  BY <1>7 DEF ExitLookupFails, ExitGone, ExitPriceBand, ExitPostFails
<1>8. CASE ExitPost
  BY <1>8 DEF ExitPost
<1>9. CASE ExitCheck
  BY <1>9 DEF ExitCheck, Visible
<1>10. CASE CancelOrphans \/ CancelOrphansFails
  BY <1>10 DEF CancelOrphans, CancelOrphansFails
<1>11. CASE StageLifecycle \/ StageLifecycleFails
  BY <1>11 DEF StageLifecycle, StageLifecycleFails
<1>12. CASE ResolveNoExposureFails
  BY <1>12 DEF ResolveNoExposureFails
<1>13. CASE ResolveNoExposure
  <2>1. \A s \in Symbols : row'[s].entry \in {row[s].entry, NoId}
    BY <1>13, HereType DEF ResolveNoExposure, Blank
  <2>2. SingleIncomplete' /\ VerdictIsTrue' /\ Owner'
    BY <1>13 DEF ResolveNoExposure
  <2>3. Progressed' /\ Alone'
    BY <1>13 DEF ResolveNoExposure
  <2>4. Observed'
    BY <1>13, <2>1 DEF ResolveNoExposure
  <2>5. Ended'
    BY <1>13 DEF ResolveNoExposure
  <2> QED
    BY <2>2, <2>3, <2>4, <2>5
<1> QED
  BY <1>1, <1>2, <1>3, <1>4, <1>5, <1>6, <1>7, <1>8, <1>9, <1>10, <1>11, <1>12,
     <1>13 DEF RecoverStep

LEMMA LedgerReconcile == ASSUME TypeInv, LedgerInv, ReconcileStep PROVE LedgerInv'
<1> USE NoIdAssumption
    DEF TypeInv, TypeOK, Held, LedgerInv, SingleIncomplete, VerdictIsTrue, Owner,
        Progressed, Alone, Observed, Ended, IncompleteIds, Incomplete, Blocked, Between, Idle,
        Unsent, Sending, Handling, Gone, durable, venue, scratch, Here, Goto, Fail,
        SaveMayFail
<1>1. CASE BeginReconcile \/ BeginReconcileFails \/ NaturalExitsDone
  BY <1>1 DEF BeginReconcile, BeginReconcileFails, NaturalExitsDone
<1>2. ASSUME NEW s \in Symbols, NaturalExit(s) PROVE LedgerInv'
  BY <1>2 DEF NaturalExit, StagedWith, Blank, volatile
<1>3. ASSUME NEW s \in Symbols, NaturalExitFails(s) PROVE LedgerInv'
  BY <1>3 DEF NaturalExitFails, StagedWith
<1>4. CASE PortfolioSafe
  BY <1>4, SyncedEntry, SyncAllType DEF PortfolioSafe, SyncAll
<1>5. CASE PortfolioUnsafe
  BY <1>5, SyncedEntry, SyncAllType DEF PortfolioUnsafe, SyncAll
<1> QED
  BY <1>1, <1>2, <1>3, <1>4, <1>5 DEF ReconcileStep

LEMMA LedgerStutter == ASSUME LedgerInv, UNCHANGED vars PROVE LedgerInv'
BY DEF LedgerInv, SingleIncomplete, VerdictIsTrue, Owner, Progressed, Alone, Observed, Ended,
       IncompleteIds, Here, vars, durable, venue, volatile

(* What a view of the operator writes gives a row the entry it has, one it *)
(* had, or none.                                                           *)
LEMMA LedgerSync == ASSUME TypeInv, LedgerInv, SyncInv, SyncStep PROVE LedgerInv'
<1>1. UNCHANGED <<status, staged, order, exposure, seen, pc, cur, gate>>
  BY DEF SyncStep, SyncReads, SyncAsks, SyncSaves, durable, venue, volatile
<1>2. \A s \in Symbols : row'[s].entry \in {sync.rows[s].entry, row[s].entry, NoId}
  BY WrittenType
     DEF SyncStep, SyncReads, SyncAsks, SyncSaves, durable, TypeInv, TypeOK
<1>3. Ended'
  BY <1>1 DEF LedgerInv, Ended
<1>4. Observed'
  BY <1>1, <1>2, NoIdAssumption DEF LedgerInv, Observed, SyncInv, TypeInv, TypeOK, SyncOK
<1> QED
  BY <1>1, <1>3, <1>4 DEF LedgerInv, SingleIncomplete, VerdictIsTrue, Owner, Progressed,
                         Alone, IncompleteIds, Here

(* An entry that was observed stays filled, and open only while it is seen.*)
LEMMA SyncInvKept ==
    ASSUME TypeInv, SyncInv, UNCHANGED sync,
           \A i \in Ids : order[i] = "filled" =>
              order'[i] = "filled" /\ (i \in exposure' => i \in exposure),
           \A i \in exposure' : i \in seen => i \in seen'
    PROVE  SyncInv'
BY DEF SyncInv

LEMMA SyncInvStep ==
    ASSUME TypeInv, LedgerInv, SyncInv, [Next]_vars PROVE SyncInv'
<1> USE DEF durable, venue, volatile, Fail, Goto
<1>1. CASE UNCHANGED <<sync, order, exposure, seen>>
  BY <1>1, SyncInvKept
<1>2. CASE Crash
  BY <1>2, NoIdAssumption DEF Crash, SyncInv, NoSync, Blank
<1>3. CASE SyncStep
  <2>1. CASE SyncReads
    BY <2>1 DEF SyncReads, SyncInv, NoSync, LedgerInv, Observed
  <2>2. CASE SyncAsks
    BY <2>2 DEF SyncAsks, SyncInv, TypeInv, TypeOK, SyncOK
  <2>3. CASE SyncSaves
    BY <2>3, NoIdAssumption DEF SyncSaves, SyncInv, NoSync, Blank
  <2> QED
    BY <1>3, <2>1, <2>2, <2>3 DEF SyncStep
<1>4. CASE VenueStep /\ UNCHANGED sync
  <2> USE DEF TypeInv, TypeOK
  <2>1. CASE VenuePublishes
    BY <1>4, <2>1, SyncInvKept DEF VenuePublishes
  <2>2. ASSUME NEW i \in Ids, VenueOpens(i) \/ VenueFills(i) \/ VenueKills(i)
        PROVE  SyncInv'
    BY <1>4, <2>2, SyncInvKept DEF VenueOpens, VenueFills, VenueKills
  <2>3. ASSUME NEW i \in Ids, VenueCloses(i) PROVE SyncInv'
    BY <1>4, <2>3, SyncInvKept DEF VenueCloses
  <2> QED
    BY <1>4, <2>1, <2>2, <2>3 DEF VenueStep
<1>5. CASE Submit /\ UNCHANGED sync
  BY <1>5, SyncInvKept DEF Submit, TypeInv, TypeOK
<1>6. CASE ExitPost /\ UNCHANGED sync
  BY <1>6, SyncInvKept DEF ExitPost
<1>7. CASE RunnerStep /\ ~Submit /\ ~ExitPost /\ UNCHANGED sync
  <2>1. EnterStep => UNCHANGED <<order, exposure, seen>>
    BY <1>7
       DEF EnterStep, BeginCycle, PreflightFails, SyncPortfolio, SyncPortfolioFails,
           PersistBlocked, SubmitAccepted, SubmitRefused, SubmitUnknown, SubmitFails,
           PersistRefused, RequeryFilled, RequeryDead, RequeryAgain, RequeryFails,
           Acknowledge, AcknowledgeFails, ObserveEntry, ObserveEntryFails, SaveRow,
           SaveRowFails, Reserve, ReserveFails
  <2>2. ProtectStep => UNCHANGED <<order, exposure, seen>>
    BY <1>7
       DEF ProtectStep, Inspect, InspectFails, PlaceLeg, PlaceLegFails, RefreshLeg,
           PostLeg, PostLegFails, PlanNoLongerValid, Complete, CompleteFails
  <2>3. RecoverStep => UNCHANGED <<order, exposure, seen>>
    BY <1>7
       DEF RecoverStep, NothingToRecover, RecoverAcknowledged, RecoverRejected,
           RecoverVisible, RecoverClosed, RecoverNotVisible, ExitLookup, ExitLookupFails,
           ExitGone, ExitPriceBand, ExitPostFails, ExitCheck, CancelOrphans,
           CancelOrphansFails, StageLifecycle, StageLifecycleFails, ResolveNoExposure,
           ResolveNoExposureFails
  <2>4. ReconcileStep => UNCHANGED <<order, exposure, seen>>
    BY <1>7
       DEF ReconcileStep, BeginReconcile, BeginReconcileFails, NaturalExitsDone,
           PortfolioSafe, PortfolioUnsafe, NaturalExit, NaturalExitFails
  <2>5. UNCHANGED <<order, exposure, seen>>
    BY <1>7, <2>1, <2>2, <2>3, <2>4 DEF RunnerStep
  <2> QED
    BY <1>1, <1>7, <2>5
<1> QED
  BY <1>1, <1>2, <1>3, <1>4, <1>5, <1>6, <1>7 DEF Next, Restart, RunnerStep, vars

-----------------------------------------------------------------------------
(* The ledger invariant, on top of the types, is inductive with what the   *)
(* operator's view has read.                                               *)
THEOREM SyncInvariance == Spec => [](TypeInv /\ LedgerInv /\ SyncInv)
<1>1. Init => SyncInv
  BY NoIdAssumption DEF Init, SyncInv, NoSync, Blank
<1>2. TypeInv /\ LedgerInv /\ SyncInv /\ [Next]_vars => LedgerInv'
  BY LedgerProcess, LedgerVenue, LedgerEnter, LedgerProtect, LedgerRecover,
     LedgerReconcile, LedgerSync, LedgerStutter DEF Next, RunnerStep
<1>3. TypeInv /\ LedgerInv /\ SyncInv /\ [Next]_vars => SyncInv'
  BY SyncInvStep
<1> QED
  BY <1>1, <1>2, <1>3, LedgerInit, TypeInvariance, PTL DEF Spec

THEOREM LedgerInvariance == Spec => [](TypeInv /\ LedgerInv)
BY SyncInvariance, PTL

(* At no time are two attempts incomplete.                                 *)
THEOREM OneIncomplete == Spec => []SingleIncomplete
BY LedgerInvariance, PTL DEF LedgerInv

(* No terminal verdict is contradicted by the venue, now or later.         *)
THEOREM TrueVerdicts == Spec => []VerdictIsTrue
BY LedgerInvariance, PTL DEF LedgerInv

-----------------------------------------------------------------------------
(* The refinement. A step of LiveEntry leaves the ledger alone, or is the  *)
(* ledger's own step for one entry.                                        *)
LedgerStep == Ledger!LedgerNext \/ UNCHANGED Ledger!ledger

LEMMA NothingSaved == ASSUME UNCHANGED <<status, order>> PROVE LedgerStep
BY DEF LedgerStep, Ledger!ledger, IncompleteIds, VerdictOf

(* A status saved for an incomplete entry keeps it owned, or gives it up   *)
(* with the verdict that the venue's order stands for.                     *)
LEMMA StatusSaved ==
    ASSUME TypeInv, LedgerInv', NEW i \in Ids, NEW st \in Incomplete \cup Terminal,
           status[i] \in Incomplete, status' = [status EXCEPT ![i] = st], order' = order
    PROVE  LedgerStep
<1> USE DEF TypeInv, TypeOK, IncompleteIds, Incomplete, Terminal, Blocked
<1>1. CASE st \in Incomplete
  <2>1. IncompleteIds' = IncompleteIds
    BY <1>1
  <2>2. \A j \in Ids : VerdictOf(j)' = VerdictOf(j)
    BY <1>1 DEF VerdictOf
  <2> QED
    BY <2>1, <2>2 DEF LedgerStep, Ledger!ledger
<1>2. CASE st \in Terminal
  <2> DEFINE v == IF order[i] = "filled" THEN "executed"
                  ELSE IF order[i] # "none" THEN "refused" ELSE "unsent"
  <2>1. IncompleteIds' = IncompleteIds \ {i}
    BY <1>2
  <2>2. VerdictOf(i)' = v
    BY <1>2 DEF VerdictOf, LedgerInv, VerdictIsTrue
  <2>3. \A j \in Ids \ {i} : VerdictOf(j)' = VerdictOf(j)
    BY DEF VerdictOf
  <2>4. v \in Ledger!Verdicts
    BY DEF Ledger!Verdicts
  <2>5. PICK w \in Ledger!Verdicts : w = v
    BY <2>4
  <2>6. Ledger!GiveUp(i, w)
    BY <2>1, <2>2, <2>3, <2>5 DEF Ledger!GiveUp, Ledger!Proven
  <2> QED
    BY <2>6 DEF LedgerStep, Ledger!LedgerNext
<1> QED
  BY <1>1, <1>2

LEMMA EntryReserved ==
    ASSUME TypeInv, LedgerInv, NEW i \in Ids, status[i] = "absent", IncompleteIds = {},
           status' = [status EXCEPT ![i] = "prepared"], order' = order
    PROVE  LedgerStep
<1> USE DEF TypeInv, TypeOK, IncompleteIds, Incomplete
<1>1. IncompleteIds' = {i}
  OBVIOUS
<1>2. VerdictOf(i) = "pending" /\ \A j \in Ids : VerdictOf(j)' = VerdictOf(j)
  BY DEF VerdictOf, Blocked
<1>3. Ledger!Own(i)
  BY <1>1, <1>2 DEF Ledger!Own
<1> QED
  BY <1>3 DEF LedgerStep, Ledger!LedgerNext

LEMMA OrderSent ==
    ASSUME TypeInv, NEW i \in Ids, status[i] \in Incomplete, order[i] = "none",
           order' = [order EXCEPT ![i] = "sent"], status' = status
    PROVE  LedgerStep
<1> USE DEF TypeInv, TypeOK, IncompleteIds
<1>1. IncompleteIds' = IncompleteIds /\ \A j \in Ids : VerdictOf(j)' = VerdictOf(j)
  BY DEF VerdictOf
<1>2. Ledger!Send(i)
  BY <1>1 DEF Ledger!Send
<1> QED
  BY <1>2 DEF LedgerStep, Ledger!LedgerNext

LEMMA OrderMoved ==
    ASSUME TypeInv, LedgerInv, NEW i \in Ids, NEW o \in {"open", "filled", "dead"},
           order[i] \in {"sent", "open"}, order' = [order EXCEPT ![i] = o],
           status' = status
    PROVE  LedgerStep
<1> USE DEF TypeInv, TypeOK, IncompleteIds
<1>1. IncompleteIds' = IncompleteIds /\ \A j \in Ids : VerdictOf(j)' = VerdictOf(j)
  BY DEF VerdictOf
<1>2. i \in IncompleteIds
  BY DEF LedgerInv, VerdictIsTrue
<1>3. CASE o = "filled"
  <2>1. {j \in Ids : order'[j] = "filled"} = {j \in Ids : order[j] = "filled"} \cup {i}
    BY <1>3
  <2>2. {j \in Ids : order'[j] # "none"} = {j \in Ids : order[j] # "none"}
    BY <1>3
  <2>3. Ledger!Execute(i)
    BY <1>1, <1>2, <1>3, <2>1, <2>2 DEF Ledger!Execute
  <2> QED
    BY <2>3 DEF LedgerStep, Ledger!LedgerNext
<1>4. CASE o \in {"open", "dead"}
  BY <1>1, <1>4 DEF LedgerStep, Ledger!ledger
<1> QED
  BY <1>3, <1>4

-----------------------------------------------------------------------------
LEMMA StepRefines ==
    ASSUME TypeInv, LedgerInv, LedgerInv', [Next]_vars
    PROVE  LedgerStep
<1> USE DEF durable, venue, volatile, Fail, Goto
<1>1. CASE UNCHANGED vars
  BY <1>1, NothingSaved DEF vars
<1>2. CASE Crash \/ Restart
  BY <1>2, NothingSaved DEF Crash, Restart
<1>3. CASE VenueStep
  <2>1. CASE VenuePublishes \/ \E i \in Ids : VenueCloses(i)
    BY <2>1, NothingSaved DEF VenuePublishes, VenueCloses
  <2>2. ASSUME NEW i \in Ids, VenueOpens(i) \/ VenueFills(i) \/ VenueKills(i)
        PROVE  LedgerStep
    BY <2>2, OrderMoved DEF VenueOpens, VenueFills, VenueKills
  <2> QED
    BY <1>3, <2>1, <2>2 DEF VenueStep
<1>4. CASE ReconcileStep
  BY <1>4, NothingSaved
     DEF ReconcileStep, BeginReconcile, BeginReconcileFails, NaturalExitsDone,
         PortfolioSafe, PortfolioUnsafe, NaturalExit, NaturalExitFails
<1>5. CASE RecoverStep
  <2>1. ASSUME NEW i \in Ids, RecoverAcknowledged(i) \/ RecoverRejected(i)
        PROVE  LedgerStep
    BY <2>1, StatusSaved
       DEF RecoverAcknowledged, RecoverRejected, IncompleteIds, Incomplete, Terminal
  <2>2. CASE ResolveNoExposure
    BY <2>2, StatusSaved
       DEF ResolveNoExposure, TypeInv, Held, Idle, LedgerInv, Owner, Terminal
  <2>3. CASE RecoverStep /\ UNCHANGED <<status, order>>
    BY <2>3, NothingSaved
  <2> QED
    BY <1>5, <2>1, <2>2, <2>3
       DEF RecoverStep, NothingToRecover, RecoverVisible, RecoverClosed,
           RecoverNotVisible, ExitLookup, ExitLookupFails, ExitGone, ExitPost,
           ExitPriceBand, ExitPostFails, ExitCheck, CancelOrphans, CancelOrphansFails,
           StageLifecycle, StageLifecycleFails, ResolveNoExposureFails
<1>6. CASE ProtectStep
  <2>1. CASE Complete \/ CompleteFails
    BY <2>1, StatusSaved, NothingSaved
       DEF Complete, CompleteFails, SaveMayFail, TypeInv, Held, Idle, LedgerInv, Owner,
           Terminal
  <2>2. CASE ProtectStep /\ UNCHANGED <<status, order>>
    BY <2>2, NothingSaved
  <2> QED
    BY <1>6, <2>1, <2>2
       DEF ProtectStep, Inspect, InspectFails, PlaceLeg, PlaceLegFails, PostLeg,
           PostLegFails, PlanNoLongerValid, RefreshLeg
<1>8. CASE SyncStep
  BY <1>8, NothingSaved DEF SyncStep, SyncReads, SyncAsks, SyncSaves
<1>7. CASE EnterStep
  <2>1. ASSUME NEW i \in Ids, Reserve(i) \/ ReserveFails(i) PROVE LedgerStep
    BY <2>1, EntryReserved, NothingSaved DEF Reserve, ReserveFails
  <2>2. CASE Submit
    <3>1. cur \in Ids /\ status[cur] \in Incomplete
      BY <2>2 DEF Submit, TypeInv, Held, Idle, LedgerInv, Owner
    <3>2. order[cur] = "none" /\ order' = [order EXCEPT ![cur] = "sent"] /\ status' = status
      BY <2>2 DEF Submit
    <3> QED
      BY <3>1, <3>2, OrderSent
  <2>3. ASSUME NEW st \in Incomplete \cup Terminal, status' \in SaveMayFail(st),
               order' = order, pc \notin Idle
        PROVE  LedgerStep
    BY <2>3, StatusSaved, NothingSaved DEF SaveMayFail, TypeInv, Held, LedgerInv, Owner
  <2>4. CASE PersistBlocked \/ PersistRefused
    BY <2>3, <2>4
       DEF PersistBlocked, PersistRefused, SaveMayFail, Idle, Terminal, Blocked
  <2>5. CASE SubmitUnknown \/ SubmitFails
    BY <2>3, <2>5 DEF SubmitUnknown, SubmitFails, Idle, Incomplete
  <2>8. CASE RequeryDead
    BY <2>3, <2>8 DEF RequeryDead, Idle, Terminal
  <2>6. CASE Acknowledge \/ AcknowledgeFails
    BY <2>3, <2>6 DEF Acknowledge, AcknowledgeFails, SaveMayFail, Idle, Incomplete
  <2>7. CASE EnterStep /\ UNCHANGED <<status, order>>
    BY <2>7, NothingSaved
  <2> QED
    BY <1>7, <2>1, <2>2, <2>4, <2>5, <2>6, <2>7, <2>8
       DEF EnterStep, BeginCycle, PreflightFails, SyncPortfolio, SyncPortfolioFails,
           SubmitAccepted, SubmitRefused, RequeryFilled, RequeryAgain, RequeryFails,
           ObserveEntry, ObserveEntryFails, SaveRow, SaveRowFails
<1> QED
  BY <1>1, <1>2, <1>3, <1>4, <1>5, <1>6, <1>7, <1>8 DEF Next, RunnerStep

LEMMA InitRefines == ASSUME Init PROVE Ledger!LedgerInit
BY DEF Init, Ledger!LedgerInit, IncompleteIds, Incomplete, VerdictOf, Blocked

(* The attempts on disk and the orders at the venue implement the abstract *)
(* ledger: one entry is owned, it is sent and executes at most once while  *)
(* it is owned, and it is given up with the verdict that is true.          *)
THEOREM Implementation == Spec => ImplementsLedger
<1>1. Init => Ledger!LedgerInit
  BY InitRefines
<1>2. TypeInv /\ LedgerInv /\ LedgerInv' /\ [Next]_vars
        => [Ledger!LedgerNext]_(Ledger!ledger)
  BY StepRefines DEF LedgerStep
<1> QED
  BY <1>1, <1>2, LedgerInvariance, PTL DEF Spec, ImplementsLedger, Ledger!LedgerSpec

-----------------------------------------------------------------------------
(* The capacity.                                                           *)
(* The positions that count against the capacity: open, or still shown.    *)
Taken == exposure \cup seen
InDoubt(i) == status[i] \in Incomplete /\ order[i] # "none"

(* A place is kept for the one order that may still execute.               *)
Capacity ==
    /\ IsFiniteSet(Taken) /\ Cardinality(Taken) <= MaxOpen
    /\ pc = "submit" => Cardinality(Taken) < MaxOpen
    /\ \A i \in Ids : InDoubt(i) => Cardinality(Taken \ {i}) < MaxOpen
    /\ \A i, j \in exposure : SymbolOf[i] = SymbolOf[j] => i = j

-----------------------------------------------------------------------------
LEMMA CapacityInit == ASSUME Init PROVE Capacity
BY FS_EmptySet, CapacityAssumption DEF Init, Capacity, Taken, InDoubt, Incomplete

(* Nothing is added to the exposure, and no other order comes into doubt.  *)
NoMoreExposed ==
    /\ exposure' \subseteq exposure /\ Taken' \subseteq Taken
    /\ pc' = "submit" => pc = "submit"
    /\ \A i \in Ids : InDoubt(i)' => InDoubt(i)

LEMMA CapacityKept == ASSUME Capacity, NoMoreExposed PROVE Capacity'
<1> USE CapacityAssumption DEF Capacity, NoMoreExposed
<1>1. IsFiniteSet(Taken') /\ Cardinality(Taken') <= Cardinality(Taken)
      /\ Cardinality(Taken) \in Nat /\ Cardinality(Taken') \in Nat
  BY FS_Subset, FS_CardinalityType
<1>2. ASSUME NEW i \in Ids, InDoubt(i)' PROVE Cardinality(Taken' \ {i}) < MaxOpen
  <2>1. IsFiniteSet(Taken \ {i}) /\ Taken' \ {i} \in SUBSET (Taken \ {i})
    BY FS_RemoveElement
  <2>2. Cardinality(Taken' \ {i}) <= Cardinality(Taken \ {i})
        /\ Cardinality(Taken \ {i}) \in Nat /\ Cardinality(Taken' \ {i}) \in Nat
    BY <2>1, FS_Subset, FS_CardinalityType
  <2> QED
    BY <1>2, <2>2
<1> QED
  BY <1>1, <1>2

LEMMA CapacityOfFill ==
    ASSUME TypeInv, LedgerInv, Capacity, NEW i \in Ids, VenueFills(i)
    PROVE  Capacity'
<1> USE CapacityAssumption DEF Capacity
<1>1. InDoubt(i)
  BY DEF VenueFills, LedgerInv, VerdictIsTrue, InDoubt
<1>2. Taken' = (Taken \ {i}) \cup {i} /\ Taken' \ {i} = Taken \ {i}
  BY DEF VenueFills, Taken
<1>3. IsFiniteSet(Taken \ {i}) /\ Cardinality(Taken \ {i}) \in Nat
  BY FS_RemoveElement, FS_CardinalityType
<1>4. IsFiniteSet(Taken') /\ Cardinality(Taken') <= MaxOpen
  <2> DEFINE Others == Taken \ {i}
  <2>1. IsFiniteSet(Others \cup {i}) /\ Cardinality(Others \cup {i}) = Cardinality(Others) + 1
    <3>1. i \notin Others
      OBVIOUS
    <3> HIDE DEF Others
    <3>2. IsFiniteSet(Others)
      BY <1>3 DEF Others
    <3> QED
      BY <3>1, <3>2, FS_AddElement
  <2>2. Cardinality(Others) < MaxOpen /\ MaxOpen \in Nat /\ Cardinality(Others) \in Nat
    BY <1>1, <1>3
  <2>3. Taken' = Others \cup {i}
    BY <1>2
  <2> HIDE DEF Others
  <2> QED
    BY <2>1, <2>2, <2>3
<1>5. pc' # "submit"
  BY <1>1 DEF VenueFills, volatile, InDoubt, TypeInv, Held, Idle, LedgerInv, Owner,
             Progressed, SingleIncomplete, IncompleteIds, Unsent
<1>6. \A j \in Ids : InDoubt(j)' => j = i
  BY <1>1 DEF VenueFills, durable, InDoubt, LedgerInv, SingleIncomplete, IncompleteIds
<1>7. \A j, k \in exposure' : SymbolOf[j] = SymbolOf[k] => j = k
  BY <1>1 DEF VenueFills, InDoubt, LedgerInv, Alone
<1> QED
  BY <1>1, <1>2, <1>4, <1>5, <1>6, <1>7

(* The portfolio read before a submission shows every open position.       *)
LEMMA CapacityOfSync ==
    ASSUME TypeInv, LedgerInv, Capacity, SyncPortfolio
    PROVE  Capacity'
<1>1. exposure \subseteq seen
  BY DEF SyncPortfolio, TypeInv, TypeOK, Held, Idle, LedgerInv, Owner, Progressed,
         Alone, SingleIncomplete, IncompleteIds, Unsent
<1>2. Taken = seen /\ Taken' = Taken /\ UNCHANGED <<status, order, exposure>>
  BY <1>1 DEF SyncPortfolio, Taken, venue
<1>3. pc' = "submit" => Cardinality(Taken) < MaxOpen
  <2>1. Cardinality(seen) \in Nat
    BY <1>2, FS_CardinalityType DEF Capacity
  <2>2. pc' = "submit" => ~(Cardinality(seen) >= MaxOpen)
    BY DEF SyncPortfolio, Goto
  <2>3. MaxOpen \in Nat
    BY CapacityAssumption
  <2> QED
    BY <1>2, <2>1, <2>2, <2>3
<1>4. UNCHANGED Taken /\ \A i \in Ids : InDoubt(i)' = InDoubt(i)
  BY <1>2 DEF InDoubt
<1> QED
  BY <1>2, <1>3, <1>4 DEF Capacity

LEMMA CapacityOfSubmit ==
    ASSUME TypeInv, LedgerInv, Capacity, Submit
    PROVE  Capacity'
<1>1. Taken' = Taken /\ exposure' = exposure /\ pc' # "submit"
  BY DEF Submit, Taken, Goto
<1>2. \A i \in Ids : InDoubt(i)' => i = cur
  BY DEF Submit, InDoubt, TypeInv, TypeOK, Held, Idle, LedgerInv, Owner,
         SingleIncomplete, IncompleteIds, durable
<1>3. Cardinality(Taken \ {cur}) < MaxOpen
  <2>1. IsFiniteSet(Taken) /\ Cardinality(Taken) < MaxOpen
    BY DEF Submit, Capacity
  <2>2. Cardinality(Taken) \in Nat /\ MaxOpen \in Nat
        /\ Cardinality(Taken \ {cur}) \in {Cardinality(Taken), Cardinality(Taken) - 1}
    BY <2>1, FS_CardinalityType, FS_RemoveElement, CapacityAssumption
  <2> QED
    BY <2>1, <2>2
<1> QED
  BY <1>1, <1>2, <1>3 DEF Capacity

-----------------------------------------------------------------------------
(* All other steps of the process expose nothing more.                     *)
LEMMA ProcessExposes ==
    ASSUME TypeInv, LedgerInv,
           ReconcileStep \/ RecoverStep \/ ProtectStep \/ EnterStep,
           ~Submit, ~SyncPortfolio
    PROVE  NoMoreExposed
<1> USE DEF NoMoreExposed, Taken, InDoubt, Fail, Goto, durable, venue, volatile
<1> DEFINE Quiet == UNCHANGED <<status, order, exposure, seen>> /\ pc' # "submit"
           Saved(st) == status' \in SaveMayFail(st) /\ UNCHANGED <<order, exposure, seen>>
                        /\ pc' # "submit"
<1>1. Quiet => NoMoreExposed
  OBVIOUS
<1>2. ASSUME NEW st, Saved(st), cur \in Ids, status[cur] \in Incomplete,
             order[cur] # "none" \/ st \notin Incomplete
      PROVE  NoMoreExposed
  BY <1>2 DEF SaveMayFail, TypeInv, TypeOK
<1>3. CASE ReconcileStep
  BY <1>1, <1>3
     DEF ReconcileStep, BeginReconcile, BeginReconcileFails, NaturalExitsDone,
         PortfolioSafe, PortfolioUnsafe, NaturalExit, NaturalExitFails
<1>4. CASE RecoverStep
  <2>1. ASSUME NEW i \in Ids, RecoverAcknowledged(i) \/ RecoverRejected(i)
        PROVE  NoMoreExposed
    BY <2>1 DEF RecoverAcknowledged, RecoverRejected, IncompleteIds, Incomplete, TypeInv,
                TypeOK
  <2>2. CASE ResolveNoExposure
    BY <2>2 DEF ResolveNoExposure, Incomplete, TypeInv, TypeOK
  <2>3. CASE ExitPost
    BY <2>3 DEF ExitPost
  <2> QED
    BY <1>1, <1>4, <2>1, <2>2, <2>3
       DEF RecoverStep, NothingToRecover, RecoverVisible, RecoverClosed,
           RecoverNotVisible, ExitLookup, ExitLookupFails, ExitGone,
           ExitPriceBand, ExitPostFails, ExitCheck, CancelOrphans, CancelOrphansFails,
           StageLifecycle, StageLifecycleFails, ResolveNoExposureFails
<1>5. CASE ProtectStep
  <2>1. CASE Complete \/ CompleteFails
    BY <1>2, <2>1 DEF Complete, CompleteFails, SaveMayFail, TypeInv, Held, Idle, LedgerInv,
                      Owner, Incomplete
  <2> QED
    BY <1>1, <1>5, <2>1
       DEF ProtectStep, Inspect, InspectFails, PlaceLeg, PlaceLegFails, PostLeg,
           PostLegFails, PlanNoLongerValid, RefreshLeg, volatile
<1>6. CASE EnterStep
  <2> USE DEF TypeInv, Held, Idle, LedgerInv, Owner, Incomplete
  <2>1. ASSUME NEW i \in Ids, Reserve(i) \/ ReserveFails(i) PROVE NoMoreExposed
    BY <2>1 DEF Reserve, ReserveFails, TypeOK, VerdictIsTrue
  <2>2. CASE PersistBlocked \/ PersistRefused
    BY <1>2, <2>2 DEF PersistBlocked, PersistRefused, SaveMayFail
  <2>3. CASE SubmitUnknown \/ SubmitFails
    BY <1>2, <2>3 DEF SubmitUnknown, SubmitFails, Progressed, Sending
  <2>4. CASE RequeryDead
    BY <1>2, <2>4 DEF RequeryDead
  <2>5. CASE Acknowledge \/ AcknowledgeFails
    BY <1>2, <2>5 DEF Acknowledge, AcknowledgeFails, SaveMayFail, Progressed, Sending
  <2> QED
    BY <1>1, <1>6, <2>1, <2>2, <2>3, <2>4, <2>5
       DEF EnterStep, BeginCycle, PreflightFails, SyncPortfolioFails, SubmitAccepted,
           SubmitRefused, RequeryFilled, RequeryAgain, RequeryFails, ObserveEntry,
           ObserveEntryFails, SaveRow, SaveRowFails
<1> QED
  BY <1>3, <1>4, <1>5, <1>6

LEMMA CapacityStep ==
    ASSUME TypeInv, LedgerInv, Capacity, [Next]_vars
    PROVE  Capacity'
<1> USE DEF NoMoreExposed, Taken, InDoubt, Fail, durable, venue, volatile
<1>1. CASE UNCHANGED vars
  BY <1>1, CapacityKept DEF vars
<1>2. CASE Crash \/ Restart
  BY <1>2, CapacityKept DEF Crash, Restart
<1>3. CASE VenueStep
  <2>1. CASE VenuePublishes
    BY <2>1, CapacityKept DEF VenuePublishes
  <2>2. ASSUME NEW i \in Ids, VenueOpens(i) \/ VenueKills(i) PROVE Capacity'
    BY <2>2, CapacityKept DEF VenueOpens, VenueKills, TypeInv, TypeOK
  <2>3. ASSUME NEW i \in Ids, VenueCloses(i) PROVE Capacity'
    BY <2>3, CapacityKept DEF VenueCloses
  <2> QED
    BY <1>3, <2>1, <2>2, <2>3, CapacityOfFill DEF VenueStep
<1>4. CASE ReconcileStep \/ RecoverStep \/ ProtectStep \/ EnterStep
  BY <1>4, CapacityOfSync, CapacityOfSubmit, ProcessExposes, CapacityKept
<1>5. CASE SyncStep
  BY <1>5, CapacityKept DEF SyncStep, SyncReads, SyncAsks, SyncSaves
<1> QED
  BY <1>1, <1>2, <1>3, <1>4, <1>5 DEF Next, RunnerStep

-----------------------------------------------------------------------------
LEMMA CapacityBounds == ASSUME Capacity PROVE ExposureBounded
<1>1. IsFiniteSet(Taken) /\ exposure \in SUBSET Taken
  BY DEF Capacity, Taken
<1>2. Cardinality(exposure) <= Cardinality(Taken) /\ Cardinality(exposure) \in Nat
      /\ Cardinality(Taken) \in Nat
  BY <1>1, FS_Subset, FS_CardinalityType
<1> QED
  BY <1>2, CapacityAssumption DEF Capacity, ExposureBounded

(* The three parts of the invariant hold together, in every behaviour.     *)
THEOREM CapacityInvariance == Spec => [](TypeInv /\ LedgerInv /\ Capacity)
<1>1. TypeInv /\ LedgerInv /\ Capacity /\ [Next]_vars => Capacity'
  BY CapacityStep
<1> QED
  BY <1>1, CapacityInit, LedgerInvariance, PTL DEF Spec

(* The entries open at the venue stay within the portfolio's capacity, and *)
(* one to a symbol, whatever ambiguous order executes late.                *)
THEOREM BoundedExposure == Spec => []ExposureBounded
BY CapacityInvariance, CapacityBounds, PTL

-----------------------------------------------------------------------------
(***************************************************************************)
(* Positions and their legs                                                *)
(***************************************************************************)

Ensuring == {"place", "post", "complete"}
LegLive(k) == leg[k][row[Here].legs[k]] = "active"

(* While protection is ensured the row is the entry's own, the legs it is  *)
(* done with are named and - as long as the position is open - live, and   *)
(* the others are not.                                                     *)
Ensured ==
    /\ pc \in Ensuring \cup {"inspect"} => row[Here].stored /\ row[Here].entry = cur
    /\ pc \in Ensuring => \A k \in Kinds \ missing :
          row[Here].legs[k] \in Ids /\ (cur \in exposure => LegLive(k))
    /\ pc \in Ensuring => \A k \in missing : LegOf(k) # "active"
    /\ pc = "post" => row[Here].legs[NextLeg] \in Ids

(* A row names entries and legs of its own symbol; a resolved entry's legs *)
(* are named by no row.                                                    *)
Named ==
    /\ \A s \in Symbols : row[s].entry \in Ids => SymbolOf[row[s].entry] = s
    /\ \A s \in Symbols, k \in Kinds : row[s].legs[k] \in Ids =>
          /\ row[s].stored /\ SymbolOf[row[s].legs[k]] = s
          /\ status[row[s].legs[k]] # "resolved_no_exposure"

(* A closed entry is staged, and its legs are gone, before it is resolved. *)
Closed ==
    /\ pc \in {"stage", "resolve"} =>
          \A k \in Kinds, j \in Ids : SymbolOf[j] = Here => leg[k][j] # "active"
    /\ pc = "resolve" => cur \in staged

(* A row that names an entry but no leg is that of the incomplete one, and *)
(* no row names an entry that has not been observed.                       *)
Retained ==
    /\ \A s \in Symbols : row[s].entry \in Ids /\ ~HasLegs(s)
                             => status[row[s].entry] \in Incomplete
    /\ pc \in {"response", "requery", "acknowledge", "observe", "save_row"}
          => row[Here].entry # cur

(* Exposure is attended, legs are named by their symbol's row, and what is *)
(* resolved is over.                                                       *)
Attended == \A i \in exposure :
    \/ status[i] \in Incomplete
    \/ status[i] = "completed" /\ row[SymbolOf[i]].entry = i /\ Protected(SymbolOf[i])
LegsNamed == \A k \in Kinds, i \in Ids :
    leg[k][i] = "active" => row[SymbolOf[i]].stored /\ row[SymbolOf[i]].legs[k] = i
Resolved == \A i \in Ids : status[i] = "resolved_no_exposure" =>
    i \notin exposure /\ i \in staged /\ \A k \in Kinds : leg[k][i] # "active"

Base == TypeInv /\ LedgerInv /\ Capacity
Protection == Ensured /\ Named /\ Closed /\ Retained
              /\ Attended /\ LegsNamed /\ Resolved

-----------------------------------------------------------------------------
(* Every completed entry still open is shown by the venue, so its symbol is*)
(* visible, and it is alone on it.                                         *)
LEMMA OpenIsVisible ==
    ASSUME Base, NEW i \in exposure, status[i] \notin Incomplete
    PROVE  i \in seen /\ i \in Ids /\ Visible(SymbolOf[i])
BY DEF Base, TypeInv, TypeOK, LedgerInv, Alone, Visible

LEMMA InHandIsAlone ==
    ASSUME Base, pc \in Handling, NEW i \in exposure, SymbolOf[i] = Here
    PROVE  i = cur
BY DEF Base, TypeInv, TypeOK, Held, Idle, Handling, Gone, LedgerInv, Owner, Progressed,
       Alone, Here

LEMMA InHand ==
    ASSUME Base, pc \notin Idle
    PROVE  cur \in Ids /\ status[cur] \in Incomplete /\ Here \in Symbols
BY HereType DEF Base, TypeInv, Held, LedgerInv, Owner

LEMMA ProtectionInit == ASSUME Init PROVE Protection
BY NoIdAssumption
   DEF Init, Protection, Ensured, Named, Closed, Retained, Attended, LegsNamed,
       Resolved, Blank, Ensuring, Kinds

LEMMA ProtectionProcess == ASSUME Protection, Crash \/ Restart PROVE Protection'
BY DEF Crash, Restart, Fail, durable, venue, Protection, Ensured, Named, Closed, Retained,
       Attended, LegsNamed, Resolved, Ensuring, HasLegs, Protected

LEMMA ProtectionVenue == ASSUME Base, Protection, VenueStep PROVE Protection'
<1> USE DEF Protection, Ensured, Named, Closed, Retained, Attended, LegsNamed,
            Resolved, Ensuring, HasLegs, Protected, LegLive, LegOf, Here, NextLeg,
            durable, volatile
<1>1. CASE VenuePublishes
  BY <1>1 DEF VenuePublishes
<1>2. ASSUME NEW i \in Ids, VenueOpens(i) \/ VenueKills(i) PROVE Protection'
  BY <1>2 DEF VenueOpens, VenueKills
<1>3. ASSUME NEW i \in Ids, VenueFills(i) PROVE Protection'
  BY <1>3 DEF VenueFills, Base, TypeInv, TypeOK, LedgerInv, VerdictIsTrue, Progressed, Handling
<1>4. ASSUME NEW i \in Ids, VenueCloses(i) PROVE Protection'
  <2>1. /\ exposure' = exposure \ {i} /\ UNCHANGED <<seen, durable, volatile>>
        /\ \A k \in Kinds, j \in Ids : leg'[k][j] = "active" => leg[k][j] = "active"
        /\ \A k \in Kinds, j \in Ids : SymbolOf[j] # SymbolOf[i] => leg'[k][j] = leg[k][j]
    BY <1>4 DEF VenueCloses
  <2>2. \A j \in exposure' : SymbolOf[j] # SymbolOf[i] /\ j \in Ids
    BY <1>4, <2>1 DEF VenueCloses, Base, Capacity, TypeInv, TypeOK
  <2>3. \A s \in Symbols, k \in Kinds : s # SymbolOf[i] /\ row[s].legs[k] \in Ids
           => leg'[k][row[s].legs[k]] = leg[k][row[s].legs[k]]
    BY <2>1
  <2>4. Ensured'
    <3>1. ASSUME pc \in Ensuring, NEW k \in Kinds \ missing, cur \in exposure'
          PROVE  LegLive(k)'
      <4>1. Here \in Symbols /\ Here # SymbolOf[i] /\ row[Here].legs[k] \in Ids
        BY <2>2, <3>1, InHand DEF Idle
      <4>2. leg'[k][row[Here].legs[k]] = "active"
        BY <2>1, <2>3, <3>1, <4>1
      <4> QED
        BY <2>1, <4>2
    <3>2. ASSUME pc \in Ensuring, NEW k \in missing PROVE LegOf(k)' # "active"
      <4>1. Here \in Symbols /\ k \in Kinds /\ LegOf(k) # "active"
        BY <3>2, InHand DEF Idle, Base, TypeInv, TypeOK
      <4>2. row[Here].legs[k] \in Ids \cup {NoId}
        BY <4>1 DEF Base, TypeInv, TypeOK, Row
      <4> QED
        BY <2>1, <4>1, <4>2
    <3> QED
      BY <2>1, <3>1, <3>2
  <2>5. Attended'
    <3>1. ASSUME NEW j \in exposure', status[j] = "completed",
                 row[SymbolOf[j]].entry = j, Protected(SymbolOf[j])
          PROVE  Protected(SymbolOf[j])'
      <4>1. SymbolOf[j] \in Symbols /\ SymbolOf[j] # SymbolOf[i]
        BY <2>2, SymbolAssumption
      <4>2. \A k \in Kinds : row[SymbolOf[j]].legs[k] \in Ids
        BY <3>1, <4>1 DEF Base, TypeInv, TypeOK, Row
      <4> QED
        BY <2>1, <2>3, <3>1, <4>1, <4>2
    <3> QED
      BY <2>1, <3>1
  <2>6. Named' /\ Closed' /\ Retained' /\ LegsNamed' /\ Resolved'
    BY <2>1
  <2> QED
    BY <2>4, <2>5, <2>6
<1> QED
  BY <1>1, <1>2, <1>3, <1>4 DEF VenueStep

-----------------------------------------------------------------------------
(* Storing what the venue shows keeps every leg, and the row and the entry *)
(* wherever a leg is named or the position is visible.                     *)
RowKept(s) ==
    /\ row'[s] \in Row /\ \A k \in Kinds : row'[s].legs[k] = row[s].legs[k]
    /\ row'[s].entry \in {row[s].entry, NoId}
    /\ HasLegs(s) \/ Visible(s) => row'[s].entry = row[s].entry
    /\ row[s].stored /\ (HasLegs(s) \/ Visible(s)) => row'[s].stored

LEMMA SyncedKeeps ==
    ASSUME TypeOK, NEW s \in Symbols, row'[s] \in {row[s], Synced(s)}
    PROVE  RowKept(s)
<1>1. row[s] \in Row /\ \A k \in Kinds : row[s].legs[k] \in Ids \cup {NoId}
  BY DEF TypeOK, Row
<1>2. CASE row'[s] = row[s]
  BY <1>1, <1>2 DEF RowKept
<1>3. CASE row'[s] = Synced(s) /\ Visible(s)
  <2>1. row'[s] = [row[s] EXCEPT !.stored = TRUE]
    BY <1>3 DEF Synced
  <2> QED
    BY <1>1, <2>1 DEF RowKept, Row
<1>4. CASE row'[s] = Synced(s) /\ ~Visible(s) /\ HasLegs(s)
  BY <1>1, <1>2, <1>4 DEF Synced
<1>5. CASE row'[s] = Synced(s) /\ ~Visible(s) /\ ~HasLegs(s)
  <2>1. row'[s] = Blank /\ \A k \in Kinds : row[s].legs[k] = NoId
    BY <1>1, <1>5 DEF Synced, HasLegs
  <2>2. Blank \in Row /\ Blank.entry = NoId /\ \A k \in Kinds : Blank.legs[k] = NoId
    BY BlankType DEF Blank
  <2> QED
    BY <1>5, <2>1, <2>2 DEF RowKept
<1> QED
  BY <1>2, <1>3, <1>4, <1>5

LEMMA RowsSynced ==
    ASSUME Base, Protection, \A s \in Symbols : RowKept(s),
           UNCHANGED <<status, staged, exposure, leg>>
    PROVE  /\ Named' /\ Attended' /\ LegsNamed' /\ Resolved'
           /\ \A s \in Symbols : row'[s].entry \in Ids /\ ~HasLegs(s)'
                 => status'[row'[s].entry] \in Incomplete
<1> USE NoIdAssumption DEF Base, TypeInv, TypeOK, RowKept, Protection, HasLegs
<1>1. Named'
  BY DEF Named, Row
<1>2. \A s \in Symbols : row'[s].entry \in Ids /\ ~HasLegs(s)'
         => status'[row'[s].entry] \in Incomplete
  BY DEF Retained
<1>3. Attended'
  <2>1. ASSUME NEW i \in exposure, status[i] \notin Incomplete
        PROVE  row'[SymbolOf[i]].entry = i /\ Protected(SymbolOf[i])'
    <3>1. Visible(SymbolOf[i]) /\ SymbolOf[i] \in Symbols
      BY <2>1, OpenIsVisible, SymbolAssumption
    <3>2. row[SymbolOf[i]].entry = i /\ Protected(SymbolOf[i])
      BY <2>1 DEF Attended
    <3> QED
      BY <3>1, <3>2 DEF Protected
  <2> QED
    BY <2>1 DEF Attended
<1>4. LegsNamed' /\ Resolved'
  BY SymbolAssumption DEF LegsNamed, Resolved
<1> QED
  BY <1>1, <1>2, <1>3, <1>4

LEMMA ProtectionSynced ==
    ASSUME Base, Protection, \A s \in Symbols : RowKept(s),
           UNCHANGED <<status, staged, exposure, leg>>,
           pc' \notin Ensuring \cup {"inspect", "stage", "resolve"},
           pc' \in {"response", "requery", "acknowledge", "observe", "save_row"}
              => cur' = cur /\ row[Here].entry # cur /\ pc \notin Idle
    PROVE  Protection'
<1>1. Ensured' /\ Closed'
  BY DEF Ensured, Closed, Ensuring
<1>2. Retained'
  <2>1. pc' \in {"response", "requery", "acknowledge", "observe", "save_row"}
           => row'[Here'].entry # cur'
    BY InHand, NoIdAssumption DEF Here, RowKept
  <2> QED
    BY <2>1, RowsSynced DEF Retained
<1> QED
  BY <1>1, <1>2, RowsSynced DEF Protection

(* A view of the operator that upsets nothing writes a row as a sync of    *)
(* the rows as they are would, and only one that names no entry.           *)
LEMMA NothingUpset ==
    ASSUME TypeOK, SyncSaves, ~raced', NEW s \in Symbols
    PROVE  ~raced /\ (row'[s] = row[s] \/ (row'[s] = Synced(s) /\ row[s].entry = NoId))
BY DEF SyncSaves, Upset

LEMMA ProtectionSync ==
    ASSUME Base, Protection, SyncStep, ~raced' PROVE Protection'
<1> USE DEF durable, venue, volatile
<1>1. CASE SyncReads \/ SyncAsks
  BY <1>1 DEF SyncReads, SyncAsks, Protection, Ensured, Ensuring, LegLive, LegOf, Here,
     NextLeg, Named, Closed, Retained, HasLegs, Attended, Protected, LegsNamed, Resolved
<1>2. CASE SyncSaves
  <2>1. \A s \in Symbols : RowKept(s) /\ (row[s].entry # NoId => row'[s] = row[s])
    BY <1>2, NothingUpset, SyncedKeeps DEF Base, TypeInv
  <2>2. UNCHANGED <<status, staged, venue, volatile>> /\ Here' = Here
        /\ (missing' = missing => NextLeg' = NextLeg)
    BY <1>2 DEF SyncSaves, Here, NextLeg
  <2>3. ASSUME pc \in Ensuring \cup {"inspect"} PROVE row'[Here] = row[Here]
    <3>1. Here \in Symbols /\ cur \in Ids /\ row[Here].entry = cur
      BY <2>3, InHand DEF Idle, Ensuring, Protection, Ensured
    <3> QED
      BY <2>1, <3>1, NoIdAssumption
  <2>4. Ensured'
    BY <2>2, <2>3 DEF Protection, Ensured, Ensuring, LegOf, LegLive
  <2>5. Closed'
    BY <2>2 DEF Protection, Closed
  <2>6. Retained'
    <3>1. ASSUME pc \in {"response", "requery", "acknowledge", "observe", "save_row"}
          PROVE  row'[Here].entry # cur
      <4>1. Here \in Symbols /\ cur \in Ids /\ row[Here].entry # cur
        BY <3>1, InHand DEF Idle, Protection, Retained
      <4> QED
        BY <2>1, <4>1, NoIdAssumption DEF RowKept
    <3> QED
      BY <2>1, <2>2, <3>1, RowsSynced DEF Retained
  <2> QED
    BY <2>1, <2>2, <2>4, <2>5, <2>6, RowsSynced DEF Protection
<1> QED
  BY <1>1, <1>2 DEF SyncStep

-----------------------------------------------------------------------------
Unobserved == {"response", "requery", "acknowledge", "observe", "save_row"}

(* No verdict is "resolved" without its own action, and the attempt of an  *)
(* order that executed stays incomplete.                                   *)
StatusKept == \A i \in Ids :
    \/ status'[i] = status[i]
    \/ status'[i] # "resolved_no_exposure"
       /\ (order[i] = "filled" => status'[i] \in Incomplete)

(* The steps that leave the rows, the legs and the exposure alone.         *)
LEMMA ProtectionMoves ==
    ASSUME Base, Protection, StatusKept, UNCHANGED <<row, exposure, leg>>,
           staged \subseteq staged',
           pc' \notin Ensuring \cup {"inspect", "stage", "resolve"},
           pc' \in Unobserved => cur' = cur /\ row[Here].entry # cur
    PROVE  Protection'
<1> USE DEF Protection, StatusKept
<1>1. Ensured' /\ Closed'
  BY DEF Ensured, Closed, Ensuring
<1>2. Named' /\ LegsNamed'
  BY DEF Named, LegsNamed
<1>3. Retained'
  <2>1. \A s \in Symbols : row[s].entry \in Ids => order[row[s].entry] = "filled"
    BY DEF Base, LedgerInv, Observed
  <2> QED
    BY <2>1 DEF Retained, HasLegs, Here, Unobserved
<1>4. Attended'
  <2>1. \A i \in exposure : i \in Ids /\ order[i] = "filled"
    BY DEF Base, TypeInv, TypeOK, LedgerInv, Alone
  <2> QED
    BY <2>1 DEF Attended, Protected
<1>5. Resolved'
  BY DEF Resolved
<1> QED
  BY <1>1, <1>2, <1>3, <1>4, <1>5

LEMMA StatusSaveKept ==
    ASSUME TypeOK, cur \in Ids, NEW st \in Status \ {"resolved_no_exposure"},
           order[cur] = "filled" => st \in Incomplete, status' \in SaveMayFail(st)
    PROVE  StatusKept
BY DEF TypeOK, SaveMayFail, StatusKept

(* A new row on the symbol in hand, of the entry in hand, that keeps every *)
(* leg it names and mints the others for this entry.                       *)
LEMMA RowRewritten ==
    ASSUME Base, Protection, pc \notin Idle, NEW r \in Row,
           row' = [row EXCEPT ![Here] = r], UNCHANGED <<status, exposure, leg, staged>>,
           r.stored, r.entry = cur,
           \A k \in Kinds : r.legs[k] = cur \/ r.legs[k] = row[Here].legs[k],
           \A k \in Kinds, i \in Ids :
              leg[k][i] = "active" /\ row[Here].legs[k] = i => r.legs[k] = i,
           \A i \in exposure : SymbolOf[i] = Here => i = cur,
           pc' \notin Unobserved \cup {"stage", "resolve"}
    PROVE  /\ Named' /\ Closed' /\ Retained' /\ Attended' /\ LegsNamed'
           /\ Resolved'
<1> USE DEF Protection
<1>1. /\ cur \in Ids /\ status[cur] \in Incomplete /\ Here \in Symbols
      /\ SymbolOf[cur] = Here
  BY InHand DEF Here
<1>2. /\ row'[Here] = r
      /\ \A s \in Symbols : s # Here => row'[s] = row[s]
  BY <1>1 DEF Base, TypeInv, TypeOK
<1>3. Named'
  <2>1. \A s \in Symbols : row'[s].entry \in Ids => SymbolOf[row'[s].entry] = s
    BY <1>1, <1>2 DEF Named
  <2>2. \A s \in Symbols, k \in Kinds : row'[s].legs[k] \in Ids =>
          /\ row'[s].stored /\ SymbolOf[row'[s].legs[k]] = s
          /\ status[row'[s].legs[k]] # "resolved_no_exposure"
    BY <1>1, <1>2 DEF Named, Incomplete
  <2> QED
    BY <2>1, <2>2 DEF Named
<1>4. Closed' /\ Resolved'
  BY DEF Closed, Resolved
<1>5. Retained'
  BY <1>1, <1>2 DEF Retained, HasLegs, Unobserved
<1>6. Attended'
  <2>1. ASSUME NEW i \in exposure, status[i] \notin Incomplete
        PROVE  row'[SymbolOf[i]] = row[SymbolOf[i]]
    BY <1>1, <1>2, <2>1, SymbolAssumption DEF Base, TypeInv, TypeOK
  <2> QED
    BY <2>1 DEF Attended, Protected
<1>7. LegsNamed'
  BY <1>1, <1>2, SymbolAssumption DEF LegsNamed
<1> QED
  BY <1>3, <1>4, <1>5, <1>6, <1>7

LEMMA OwnedRowSaved ==
    ASSUME Base, Protection, pc = "save_row", row' = [row EXCEPT ![Here] = OwnedRow],
           UNCHANGED <<status, exposure, leg, staged>>, pc' \in {"inspect", "recover"},
           pc' = "inspect" => cur' = cur
    PROVE  Protection'
<1>1. cur \in Ids /\ Here \in Symbols /\ OwnedRow \in Row
  BY InHand, OwnedRowType DEF Idle, Base, TypeInv
<1>2. \A i \in exposure : SymbolOf[i] = Here => i = cur
  BY InHandIsAlone DEF Handling
<1>3. /\ OwnedRow.stored /\ OwnedRow.entry = cur
      /\ \A k \in Kinds : OwnedRow.legs[k] = IF row[Here].legs[k] = NoId THEN cur
                                             ELSE row[Here].legs[k]
  BY DEF OwnedRow
<1>4. /\ Named' /\ Closed' /\ Retained' /\ Attended' /\ LegsNamed'
      /\ Resolved'
  <2>1. /\ \A k \in Kinds : OwnedRow.legs[k] = cur \/ OwnedRow.legs[k] = row[Here].legs[k]
        /\ \A k \in Kinds, i \in Ids :
              leg[k][i] = "active" /\ row[Here].legs[k] = i => OwnedRow.legs[k] = i
    BY <1>3, NoIdAssumption
  <2>2. pc \notin Idle /\ pc' \notin Unobserved \cup {"stage", "resolve"}
    BY DEF Idle, Unobserved
  <2> HIDE DEF OwnedRow
  <2> QED
    BY <1>1, <1>2, <1>3, <2>1, <2>2, RowRewritten
<1>5. Ensured'
  BY <1>1, <1>3 DEF Ensured, Ensuring, Base, TypeInv, TypeOK, Here
<1> QED
  BY <1>4, <1>5 DEF Protection

(* The steps that only move the runner and, at most, save a verdict.       *)
LEMMA ProtectionSaved ==
    ASSUME Base, Protection, UNCHANGED <<row, exposure, leg, staged>>,
           \/ UNCHANGED status
           \/ cur \in Ids /\ \E st \in Status \ {"resolved_no_exposure"} :
                 (order[cur] = "filled" => st \in Incomplete) /\ status' \in SaveMayFail(st),
           pc' \notin Ensuring \cup {"inspect", "stage", "resolve"},
           pc' \in Unobserved =>
              cur' = cur /\ (pc \in Unobserved \/ row[Here].entry # cur)
    PROVE  Protection'
<1>1. StatusKept
  BY StatusSaveKept DEF StatusKept, Base, TypeInv
<1>2. pc \in Unobserved => row[Here].entry # cur
  BY DEF Protection, Retained, Unobserved
<1> QED
  BY <1>1, <1>2, ProtectionMoves

LEMMA ProtectionEnter == ASSUME Base, Protection, EnterStep PROVE Protection'
<1> USE DEF durable, venue, Goto, Fail
<1>1. CASE \/ BeginCycle \/ PreflightFails \/ SubmitAccepted \/ SubmitRefused
           \/ RequeryFilled \/ RequeryAgain \/ RequeryFails
  BY <1>1, ProtectionSaved
     DEF BeginCycle, PreflightFails, SubmitAccepted, SubmitRefused, RequeryFilled,
         RequeryAgain, RequeryFails, Ensuring, Unobserved
<1>2. CASE Submit
  <2>1. cur \in Ids /\ Here \in Symbols /\ order[cur] = "none"
    BY <1>2, InHand DEF Submit, Idle
  <2>2. row[Here].entry # cur
    BY <2>1 DEF Base, LedgerInv, Observed
  <2> QED
    BY <1>2, <2>1, <2>2, ProtectionSaved DEF Submit, Ensuring, Unobserved
<1>3. CASE \/ PersistBlocked \/ SubmitUnknown \/ SubmitFails \/ PersistRefused
           \/ RequeryDead \/ Acknowledge \/ AcknowledgeFails
  <2>1. cur \in Ids /\ Incomplete \cup Blocked \cup {"rejected"}
                          \subseteq Status \ {"resolved_no_exposure"}
    BY <1>3, InHand
       DEF PersistBlocked, SubmitUnknown, SubmitFails, PersistRefused, RequeryDead,
           Acknowledge, AcknowledgeFails, Idle, Status, Terminal, Incomplete, Blocked
  <2>2. CASE PersistBlocked
    <3>1. order[cur] = "none"
      BY <2>2 DEF PersistBlocked, Base, LedgerInv, Progressed, Unsent
    <3>2. \E st \in Blocked : status' \in SaveMayFail(st)
      BY <2>2 DEF PersistBlocked, Blocked, SaveMayFail
    <3> QED
      BY <2>1, <2>2, <3>1, <3>2, ProtectionSaved DEF PersistBlocked, Ensuring, Unobserved
  <2>3. CASE SubmitUnknown \/ SubmitFails
    <3>1. "unresolved" \in Incomplete
      BY DEF Incomplete
    <3> QED
      BY <2>1, <2>3, <3>1, ProtectionSaved
         DEF SubmitUnknown, SubmitFails, Ensuring, Unobserved
  <2>4. CASE PersistRefused \/ RequeryDead
    <3>1. order[cur] = "dead" /\ status' \in SaveMayFail("rejected")
      BY <2>4 DEF PersistRefused, RequeryDead, SaveMayFail, Base, LedgerInv, Progressed
    <3> QED
      BY <2>1, <2>4, <3>1, ProtectionSaved
         DEF PersistRefused, RequeryDead, Ensuring, Unobserved
  <2>5. CASE Acknowledge \/ AcknowledgeFails
    <3>1. \E st \in Incomplete : status' \in SaveMayFail(st)
      BY <2>5 DEF Acknowledge, AcknowledgeFails, SaveMayFail, Incomplete
    <3> QED
      BY <2>1, <2>5, <3>1, ProtectionSaved
         DEF Acknowledge, AcknowledgeFails, Ensuring, Unobserved
  <2> QED
    BY <1>3, <2>2, <2>3, <2>4, <2>5
<1>4. CASE SyncPortfolio \/ SyncPortfolioFails \/ ObserveEntry \/ ObserveEntryFails
  <2>1. \A s \in Symbols : row'[s] \in {row[s], Synced(s)}
    BY <1>4 DEF SyncPortfolio, SyncPortfolioFails, SyncAll, ObserveEntry,
               ObserveEntryFails, Base, TypeInv, TypeOK
  <2>2. \A s \in Symbols : RowKept(s)
    BY <2>1, SyncedKeeps DEF Base, TypeInv
  <2>3. pc = "observe" => row[Here].entry # cur
    BY DEF Protection, Retained
  <2>4. UNCHANGED <<status, staged, exposure, leg>>
    BY <1>4 DEF SyncPortfolio, SyncPortfolioFails, ObserveEntry, ObserveEntryFails
  <2>5. \/ pc' \in {"block_existing", "block_capacity", "submit", "recover"}
        \/ pc = "observe" /\ pc' = "save_row" /\ cur' = cur
    BY <1>4 DEF SyncPortfolio, SyncPortfolioFails, ObserveEntry, ObserveEntryFails
  <2>6. /\ pc' \notin Ensuring \cup {"inspect", "stage", "resolve"}
        /\ pc' \in {"response", "requery", "acknowledge", "observe", "save_row"}
              => cur' = cur /\ row[Here].entry # cur /\ pc \notin Idle
    BY <2>3, <2>5 DEF Ensuring, Idle
  <2> QED
    BY <2>2, <2>4, <2>6, ProtectionSynced
<1>5. CASE SaveRow \/ SaveRowFails
  <2>1. CASE SaveRowFails /\ UNCHANGED row
    BY <2>1, ProtectionSaved DEF SaveRowFails, Ensuring, Unobserved
  <2>2. CASE row' = [row EXCEPT ![Here] = OwnedRow]
    BY <1>5, <2>2, OwnedRowSaved DEF SaveRow, SaveRowFails
  <2> QED
    BY <1>5, <2>1, <2>2 DEF SaveRow, SaveRowFails
<1>6. ASSUME NEW i \in Ids, Reserve(i) \/ ReserveFails(i) PROVE Protection'
  <2>1. StatusKept
    <3>1. order[i] # "filled"
      BY <1>6 DEF Reserve, ReserveFails, Base, LedgerInv, VerdictIsTrue
    <3> QED
      BY <1>6, <3>1 DEF Reserve, ReserveFails, StatusKept, Base, TypeInv, TypeOK
  <2> QED
    BY <1>6, <2>1, ProtectionMoves DEF Reserve, ReserveFails, Ensuring, Unobserved
<1> QED
  BY <1>1, <1>2, <1>3, <1>4, <1>5, <1>6 DEF EnterStep

(* Naming the next leg, first or afresh: the id is stored before anything  *)
(* is posted.                                                              *)
LEMMA LegRowSaved ==
    ASSUME Base, Protection, pc \in {"place", "post"},
           NEW r \in {LegRow, RefreshedRow}, row' = [row EXCEPT ![Here] = r],
           UNCHANGED <<status, exposure, leg, staged>>, pc' \in {"post", "recover"},
           pc' = "post" => cur' = cur /\ missing' = missing
    PROVE  Protection'
<1>1. /\ cur \in Ids /\ Here \in Symbols /\ missing # {} /\ missing \subseteq Kinds
      /\ TypeOK /\ NextLeg \in missing /\ NextLeg \in Kinds
  BY InHand, NextLegType DEF Idle, Base, TypeInv, TypeOK, Placing
<1>2. /\ r \in Row /\ r.stored /\ r.entry = cur
      /\ \A k \in Kinds \ {NextLeg} : r.legs[k] = row[Here].legs[k]
  BY <1>1, LegRowType, RefreshedRowType DEF Protection, Ensured, Ensuring
<1>3. r.legs[NextLeg] \in {cur, row[Here].legs[NextLeg]}
  BY <1>1, RefreshedRowType DEF LegRow, TypeOK, Row
<1>4. LegOf(NextLeg) # "active"
  BY <1>1 DEF Protection, Ensured, Ensuring
<1>5. \A i \in Ids : leg[NextLeg][i] = "active" => row[Here].legs[NextLeg] # i
  BY <1>4, NoIdAssumption DEF LegOf
<1>6. \A i \in exposure : SymbolOf[i] = Here => i = cur
  BY InHandIsAlone DEF Handling
<1>7. /\ Named' /\ Closed' /\ Retained' /\ Attended' /\ LegsNamed'
      /\ Resolved'
  <2>1. pc \notin Idle /\ pc' \notin Unobserved \cup {"stage", "resolve"}
    BY DEF Idle, Unobserved
  <2>2. \A k \in Kinds : r.legs[k] = cur \/ r.legs[k] = row[Here].legs[k]
    BY <1>2, <1>3
  <2>3. \A k \in Kinds, i \in Ids :
           leg[k][i] = "active" /\ row[Here].legs[k] = i => r.legs[k] = i
    BY <1>2, <1>5
  <2> QED
    BY <1>1, <1>2, <1>6, <2>1, <2>2, <2>3, RowRewritten
<1>8. Ensured'
  <2>1. row'[Here] = r
    BY <1>1 DEF TypeOK
  <2>2. ASSUME pc' = "post" PROVE LegOf(NextLeg)' # "active"
    <3>1. leg[NextLeg][cur] # "active"
      <4>1. leg[NextLeg][cur] = "active" => row[Here].legs[NextLeg] = cur
        BY <1>1 DEF Protection, LegsNamed, Here
      <4> QED
        BY <1>1, <1>5, <4>1
    <3>2. row[Here].legs[NextLeg] # NoId => leg[NextLeg][row[Here].legs[NextLeg]] # "active"
      BY <1>4 DEF LegOf
    <3>3. NextLeg' = NextLeg /\ Here' = Here
      BY <2>2 DEF NextLeg, Here
    <3>4. LegOf(NextLeg)' = IF r.legs[NextLeg] = NoId THEN "none"
                            ELSE leg[NextLeg][r.legs[NextLeg]]
      BY <2>1, <3>3 DEF LegOf
    <3> QED
      BY <1>3, <3>1, <3>2, <3>4
  <2>3. \A k \in Kinds \ {NextLeg} : pc' = "post" =>
           LegOf(k)' = LegOf(k) /\ LegLive(k)' = LegLive(k)
           /\ row'[Here].legs[k] = row[Here].legs[k]
    BY <1>2, <2>1 DEF LegOf, LegLive, Here
  <2>4. pc' = "post" => Here' = Here /\ NextLeg' = NextLeg
    BY DEF Here, NextLeg
  <2>5. pc' = "post" => row'[Here].stored /\ row'[Here].entry = cur
    BY <1>2, <2>1
  <2>6. \A k \in Kinds \ missing : row[Here].legs[k] \in Ids /\ (cur \in exposure => LegLive(k))
    BY DEF Protection, Ensured, Ensuring
  <2>7. \A k \in missing : LegOf(k) # "active"
    BY DEF Protection, Ensured, Ensuring
  <2>8. pc' = "post" => row'[Here'].legs[NextLeg'] \in Ids
    BY <1>1, <2>1, <2>4, LegRowType, RefreshedRowType
  <2> QED
    BY <1>1, <2>2, <2>3, <2>4, <2>5, <2>6, <2>7, <2>8 DEF Ensured, Ensuring
<1> QED
  BY <1>7, <1>8 DEF Protection

(* A leg that is posted is the one the row names.                          *)
LEMMA LegPosted ==
    ASSUME Base, Protection, pc = "post", leg' = Posted,
           UNCHANGED <<status, row, exposure, staged>>,
           pc' \in {"place", "complete", "recover"},
           pc' # "recover" => cur' = cur /\ missing' = missing \ {NextLeg}
    PROVE  Protection'
<1> DEFINE j == row[Here].legs[NextLeg]
<1>1. /\ cur \in Ids /\ Here \in Symbols /\ TypeOK /\ NextLeg \in missing
      /\ NextLeg \in Kinds /\ j \in Ids /\ row[Here].stored /\ row[Here].entry = cur
  BY InHand, NextLegType DEF Idle, Base, TypeInv, TypeOK, Placing, Protection, Ensured, Ensuring
<1>2. \A k \in Kinds, i \in Ids :
         leg'[k][i] = IF k = NextLeg /\ i = j THEN "active" ELSE leg[k][i]
  BY <1>1 DEF Posted, TypeOK
<1>3. SymbolOf[j] = Here /\ status[j] # "resolved_no_exposure"
  BY <1>1 DEF Protection, Named
<1> HIDE DEF j
<1>4. Named' /\ Retained' /\ Closed'
  BY DEF Protection, Named, Retained, Closed, HasLegs, Unobserved
<1>5. LegsNamed' /\ Resolved'
  BY <1>1, <1>2, <1>3 DEF Protection, LegsNamed, Resolved, j
<1>6. Attended'
  <2>1. \A s \in Symbols : Protected(s) => Protected(s)'
    <3>1. \A s \in Symbols, k \in Kinds : row[s].legs[k] \in Ids \cup {NoId}
      BY <1>1 DEF TypeOK, Row
    <3> QED
      BY <1>2, <3>1 DEF Protected
  <2>2. \A i \in exposure : SymbolOf[i] \in Symbols
    BY <1>1, SymbolAssumption DEF TypeOK
  <2> QED
    BY <2>1, <2>2 DEF Protection, Attended
<1>7. Ensured'
  <2>1. ASSUME pc' # "recover", NEW k \in Kinds \ missing'
        PROVE  row[Here].legs[k] \in Ids /\ (cur \in exposure => LegLive(k)')
    <3>1. CASE k = NextLeg
      BY <1>1, <1>2, <2>1, <3>1 DEF LegLive, Here, j
    <3>2. CASE k # NextLeg
      <4>1. row[Here].legs[k] \in Ids /\ (cur \in exposure => LegLive(k))
        BY <2>1, <3>2 DEF Protection, Ensured, Ensuring
      <4> QED
        BY <1>2, <2>1, <3>2, <4>1 DEF LegLive, Here
    <3> QED
      BY <3>1, <3>2
  <2>2. ASSUME pc' # "recover", NEW k \in missing' PROVE LegOf(k)' # "active"
    <3>1. k \in Kinds /\ k # NextLeg /\ LegOf(k) # "active"
      BY <1>1, <2>2 DEF Protection, Ensured, Ensuring, TypeOK
    <3>2. row[Here].legs[k] \in Ids \cup {NoId}
      BY <1>1, <3>1 DEF TypeOK, Row
    <3> QED
      BY <1>2, <2>2, <3>1, <3>2 DEF LegOf, Here
  <2> QED
    BY <1>1, <2>1, <2>2 DEF Ensured, Ensuring, Here
<1> QED
  BY <1>4, <1>5, <1>6, <1>7 DEF Protection

(* A completed entry has both its legs live for as long as it is open.     *)
LEMMA EntryCompleted ==
    ASSUME Base, Protection, pc = "complete",
           status' \in {status, [status EXCEPT ![cur] = "completed"]},
           UNCHANGED <<row, exposure, leg, staged>>, pc' \in {"reconcile", "recover"}
    PROVE  Protection'
<1>1. /\ cur \in Ids /\ Here \in Symbols /\ TypeOK /\ missing = {}
      /\ row[Here].stored /\ row[Here].entry = cur
      /\ \A k \in Kinds : row[Here].legs[k] \in Ids /\ (cur \in exposure => LegLive(k))
  BY InHand DEF Idle, Base, TypeInv, Placing, Protection, Ensured, Ensuring
<1>2. \A i \in Ids : status'[i] = status[i] \/ (i = cur /\ status'[i] = "completed")
  BY <1>1 DEF TypeOK
<1>3. HasLegs(Here) /\ \A k \in Kinds : row[Here].legs[k] # NoId
  BY <1>1, NoIdAssumption DEF HasLegs, Kinds
<1>4. Named' /\ LegsNamed' /\ Resolved' /\ Closed' /\ Ensured'
  BY <1>2 DEF Protection, Named, LegsNamed, Resolved, Closed, Ensured, Ensuring
<1>5. Retained'
  <2>1. ASSUME NEW s \in Symbols, row[s].entry \in Ids, ~HasLegs(s)
        PROVE  status'[row[s].entry] \in Incomplete
    <3>1. s # Here /\ SymbolOf[row[s].entry] = s
      BY <1>3, <2>1 DEF Protection, Named
    <3> QED
      BY <1>2, <2>1, <3>1 DEF Protection, Retained, Here
  <2> QED
    BY <2>1 DEF Retained, HasLegs, Unobserved
<1>6. Attended'
  <2>1. cur \in exposure => Protected(Here)
    BY <1>1, <1>3 DEF Protected, LegLive
  <2>2. \A i \in exposure : i \in Ids
    BY <1>1 DEF TypeOK
  <2> QED
    BY <1>1, <1>2, <2>1, <2>2 DEF Protection, Attended, Protected, Here
<1> QED
  BY <1>4, <1>5, <1>6 DEF Protection

LEMMA ProtectionProtect == ASSUME Base, Protection, ProtectStep PROVE Protection'
<1> USE DEF durable, venue, Goto, Fail
<1>1. CASE \/ InspectFails \/ PlanNoLongerValid
           \/ (PlaceLegFails /\ UNCHANGED row) \/ (PostLegFails /\ UNCHANGED leg)
  BY <1>1, ProtectionSaved
     DEF InspectFails, PlanNoLongerValid, PlaceLegFails, PostLegFails, Ensuring, Unobserved
<1>2. CASE Inspect
  <2>1. \A k \in Kinds \ missing' : row[Here].legs[k] \in Ids /\ LegLive(k)
    <3>1. ASSUME NEW k \in Kinds, LegOf(k) \notin {"none", "cancelled", "filled"}
          PROVE  row[Here].legs[k] \in Ids /\ LegLive(k)
      <4>1. Here \in Symbols
        BY <1>2, InHand DEF Inspect, Idle
      <4>2. row[Here].legs[k] \in Ids
        BY <3>1, <4>1 DEF LegOf, Base, TypeInv, TypeOK, Row
      <4>3. leg[k][row[Here].legs[k]] \in LegState
        BY <4>2 DEF Base, TypeInv, TypeOK
      <4> QED
        BY <3>1, <4>2, <4>3 DEF LegOf, LegLive, LegState
    <3> QED
      BY <1>2, <3>1 DEF Inspect
  <2>2. \A k \in missing' : LegOf(k) # "active"
    BY <1>2 DEF Inspect
  <2>3. Ensured'
    BY <1>2, <2>1, <2>2
       DEF Inspect, Protection, Ensured, Ensuring, Here, LegOf, LegLive
  <2>4. StatusKept /\ pc' \in {"place", "complete"}
    BY <1>2 DEF Inspect, StatusKept
  <2> QED
    BY <1>2, <2>3, <2>4
       DEF Inspect, Protection, Named, Closed, Retained, Attended, LegsNamed,
           Resolved, HasLegs, Protected
<1>3. CASE PlaceLeg \/ RefreshLeg \/ (PlaceLegFails /\ ~UNCHANGED row)
  BY <1>3, LegRowSaved DEF PlaceLeg, PlaceLegFails, RefreshLeg, volatile
<1>4. CASE PostLeg \/ (PostLegFails /\ ~UNCHANGED leg)
  BY <1>4, LegPosted DEF PostLeg, PostLegFails
<1>5. CASE Complete \/ CompleteFails
  BY <1>5, EntryCompleted DEF Complete, CompleteFails, SaveMayFail
<1> QED
  BY <1>1, <1>2, <1>3, <1>4, <1>5 DEF ProtectStep

-----------------------------------------------------------------------------
(* Cancelling the legs a symbol's row names, when nothing is open on it.   *)
LEMMA LegsCancelled ==
    ASSUME Base, Protection, NEW s \in Symbols, NEW K, leg' = Cancelled(K, s),
           UNCHANGED <<status, exposure>>, staged \subseteq staged',
           \A i \in exposure : SymbolOf[i] # s,
           \/ UNCHANGED row
           \/ K = Kinds /\ row' = [row EXCEPT ![s] = Blank]
    PROVE  /\ Named' /\ Attended' /\ LegsNamed' /\ Resolved'
           /\ K = Kinds => \A k \in Kinds, j \in Ids :
                              SymbolOf[j] = s => leg'[k][j] # "active"
<1> USE DEF Protection
<1>1. \A k \in Kinds, j \in Ids :
         leg'[k][j] = IF k \in K /\ j = row[s].legs[k] /\ leg[k][j] = "active"
                      THEN "cancelled" ELSE leg[k][j]
  BY DEF Cancelled
<1>2. /\ \A t \in Symbols \ {s} : row'[t] = row[t]
      /\ \/ row'[s] = row[s]
         \/ /\ K = Kinds /\ row'[s].entry = NoId
            /\ \A k \in Kinds : row'[s].legs[k] = NoId
  BY DEF Base, TypeInv, TypeOK, Blank
<1>3. K = Kinds => \A k \in Kinds, j \in Ids : SymbolOf[j] = s => leg'[k][j] # "active"
  BY <1>1 DEF LegsNamed
<1>4. Named'
  BY <1>2, NoIdAssumption DEF Named
<1>5. Attended'
  <2>1. ASSUME NEW i \in exposure, status[i] \notin Incomplete
        PROVE  row'[SymbolOf[i]].entry = i /\ Protected(SymbolOf[i])'
    <3>1. SymbolOf[i] \in Symbols \ {s} /\ row[SymbolOf[i]].entry = i
          /\ Protected(SymbolOf[i])
      BY <2>1, SymbolAssumption DEF Attended, Base, TypeInv, TypeOK
    <3>2. ASSUME NEW k \in Kinds
          PROVE  leg'[k][row[SymbolOf[i]].legs[k]] = leg[k][row[SymbolOf[i]].legs[k]]
      <4>1. row[SymbolOf[i]].legs[k] \in Ids
        BY <3>1 DEF Protected, Base, TypeInv, TypeOK, Row
      <4>2. SymbolOf[row[SymbolOf[i]].legs[k]] = SymbolOf[i]
        BY <3>1, <4>1 DEF Named
      <4>3. row[SymbolOf[i]].legs[k] # row[s].legs[k]
        BY <3>1, <4>1, <4>2 DEF Named
      <4> QED
        BY <1>1, <4>1, <4>3
    <3> QED
      BY <1>2, <3>1, <3>2 DEF Protected
  <2> QED
    BY <2>1 DEF Attended
<1>6. LegsNamed'
  <2>1. \A k \in Kinds, i \in Ids : leg'[k][i] = "active" => leg[k][i] = "active"
    BY <1>1
  <2>2. \A i \in Ids : SymbolOf[i] \in Symbols
    BY SymbolAssumption
  <2> QED
    BY <1>2, <1>3, <2>1, <2>2 DEF LegsNamed
<1>7. Resolved'
  BY <1>1 DEF Resolved
<1> QED
  BY <1>3, <1>4, <1>5, <1>6, <1>7

(* Nothing of a closed entry is left when its attempt is resolved.         *)
LEMMA EntryResolved ==
    ASSUME Base, Protection, pc = "resolve", row' = [row EXCEPT ![Here] = Blank],
           status' = [status EXCEPT ![cur] = "resolved_no_exposure"],
           UNCHANGED <<exposure, leg, staged>>, pc' = "reconcile"
    PROVE  Protection'
<1> USE DEF Protection
<1>1. /\ cur \in Ids /\ Here \in Symbols /\ SymbolOf[cur] = Here /\ TypeOK
      /\ cur \in staged /\ cur \notin exposure
      /\ \A i \in exposure : SymbolOf[i] # Here
  BY InHand, InHandIsAlone
     DEF Idle, Here, Closed, Base, TypeInv, Handling, Gone, LedgerInv, Observed
<1>2. \A i \in Ids \ {cur} : status'[i] = status[i]
  BY <1>1 DEF TypeOK
<1>3. /\ \A s \in Symbols \ {Here} : row'[s] = row[s]
      /\ row'[Here].entry = NoId /\ \A k \in Kinds : row'[Here].legs[k] = NoId
  BY <1>1 DEF TypeOK, Blank
<1>4. \A k \in Kinds, j \in Ids : SymbolOf[j] = Here => leg[k][j] # "active"
  BY DEF Closed
<1>5. Named'
  <2>1. \A s \in Symbols : row'[s].entry \in Ids => SymbolOf[row'[s].entry] = s
    BY <1>3, NoIdAssumption DEF Named
  <2>2. \A s \in Symbols, k \in Kinds : row'[s].legs[k] \in Ids =>
          /\ row'[s].stored /\ SymbolOf[row'[s].legs[k]] = s
          /\ status'[row'[s].legs[k]] # "resolved_no_exposure"
    BY <1>1, <1>2, <1>3, NoIdAssumption DEF Named
  <2> QED
    BY <2>1, <2>2 DEF Named
<1>6. Ensured' /\ Closed'
  BY DEF Ensured, Ensuring, Closed
<1>7. Retained'
  <2>1. ASSUME NEW s \in Symbols, row'[s].entry \in Ids, ~HasLegs(s)'
        PROVE  status'[row'[s].entry] \in Incomplete
    <3>1. s # Here /\ row'[s] = row[s]
      BY <1>3, <2>1, NoIdAssumption
    <3>2. row[s].entry \in Ids \ {cur} /\ status[row[s].entry] \in Incomplete
      BY <1>1, <2>1, <3>1 DEF Named, Retained, HasLegs
    <3> QED
      BY <1>2, <3>1, <3>2
  <2> QED
    BY <2>1 DEF Retained
<1>8. Attended'
  <2>1. \A i \in exposure : i \in Ids \ {cur} /\ SymbolOf[i] \in Symbols \ {Here}
    BY <1>1, SymbolAssumption DEF TypeOK
  <2> QED
    BY <1>2, <1>3, <2>1 DEF Attended, Protected
<1>9. LegsNamed' /\ Resolved'
  BY <1>1, <1>2, <1>3, <1>4, SymbolAssumption DEF LegsNamed, Resolved
<1> QED
  BY <1>5, <1>6, <1>7, <1>8, <1>9

LEMMA ProtectionRecover == ASSUME Base, Protection, RecoverStep PROVE Protection'
<1> USE DEF durable, venue, Goto, Fail
<1>1. CASE \/ NothingToRecover \/ RecoverClosed \/ RecoverNotVisible \/ ExitLookup
           \/ ExitLookupFails \/ ExitGone \/ ExitPriceBand \/ ExitPostFails \/ ExitCheck
           \/ ResolveNoExposureFails
  BY <1>1, ProtectionSaved
     DEF NothingToRecover, RecoverClosed, RecoverNotVisible, ExitLookup, ExitLookupFails,
         ExitGone, ExitPriceBand, ExitPostFails, ExitCheck, ResolveNoExposureFails,
         Ensuring, Unobserved
<1>2. ASSUME NEW i \in Ids, RecoverAcknowledged(i) \/ RecoverRejected(i) PROVE Protection'
  <2>1. StatusKept
    BY <1>2 DEF RecoverAcknowledged, RecoverRejected, StatusKept, Base, TypeInv, TypeOK,
                Incomplete
  <2> QED
    BY <1>2, <2>1, ProtectionMoves
       DEF RecoverAcknowledged, RecoverRejected, Ensuring, Unobserved
<1>3. CASE RecoverVisible
  <2> DEFINE r == [row[Here] EXCEPT !.stored = TRUE, !.entry = cur]
  <2>1. /\ cur \in Ids /\ Here \in Symbols /\ row[Here] \in Row
    BY <1>3, InHand DEF RecoverVisible, Idle, Base, TypeInv, TypeOK
  <2>2. /\ r \in Row /\ r.stored /\ r.entry = cur
        /\ \A k \in Kinds : r.legs[k] = row[Here].legs[k]
    BY <2>1 DEF Row
  <2>3. row' = [row EXCEPT ![Here] = r]
    BY <1>3, <2>1 DEF RecoverVisible, Base, TypeInv, TypeOK
  <2>4. \A i \in exposure : SymbolOf[i] = Here => i = cur
    <3>1. status[cur] \in Incomplete /\ order[cur] # "none"
      BY <1>3, InHand DEF RecoverVisible, Idle, Base, LedgerInv, Progressed, Sending
    <3> QED
      BY <2>1, <3>1 DEF Base, LedgerInv, Alone, Here
  <2>5. /\ pc \notin Idle /\ pc' \notin Unobserved \cup {"stage", "resolve"}
        /\ UNCHANGED <<status, exposure, leg, staged>>
    BY <1>3 DEF RecoverVisible, Idle, Unobserved
  <2> HIDE DEF r
  <2>6. /\ Named' /\ Closed' /\ Retained' /\ Attended' /\ LegsNamed'
        /\ Resolved'
    <3>1. \A k \in Kinds : r.legs[k] = cur \/ r.legs[k] = row[Here].legs[k]
      BY <2>2
    <3>2. \A k \in Kinds, i \in Ids :
             leg[k][i] = "active" /\ row[Here].legs[k] = i => r.legs[k] = i
      BY <2>2
    <3>3. r.stored /\ r.entry = cur /\ r \in Row
      BY <2>2
    <3> QED
      BY <2>3, <2>4, <2>5, <3>1, <3>2, <3>3, RowRewritten
  <2>7. Ensured'
    BY <1>3, <2>1, <2>2, <2>3
       DEF RecoverVisible, Ensured, Ensuring, Here, Base, TypeInv, TypeOK
  <2> QED
    BY <2>6, <2>7 DEF Protection
<1>4. CASE ExitPost
  <2>1. /\ exposure' \subseteq exposure /\ pc' = "exit_check"
        /\ UNCHANGED <<status, row, staged, leg>>
    BY <1>4 DEF ExitPost
  <2> QED
    BY <2>1 DEF Protection, Ensured, Ensuring, Named, Closed, Retained, Attended,
                LegsNamed, Resolved, HasLegs, Protected
<1>5. CASE CancelOrphans \/ CancelOrphansFails
  <2>1. /\ cur \in Ids /\ Here \in Symbols
    BY <1>5, InHand DEF CancelOrphans, CancelOrphansFails, Idle
  <2>2. \A i \in exposure : SymbolOf[i] # Here
    BY <1>5, InHandIsAlone
       DEF CancelOrphans, CancelOrphansFails, Handling, Gone, Base, LedgerInv, Observed
  <2>3. /\ UNCHANGED <<status, row, exposure, staged>>
        /\ pc' = "recover" \/ (CancelOrphans /\ pc' = "stage" /\ cur' = cur)
    BY <1>5 DEF CancelOrphans, CancelOrphansFails
  <2>4. \E K \in SUBSET Kinds : leg' = Cancelled(K, Here) /\ (CancelOrphans => K = Kinds)
    BY <1>5 DEF CancelOrphans, CancelOrphansFails
  <2>5. /\ Named' /\ Attended' /\ LegsNamed' /\ Resolved'
        /\ CancelOrphans => \A k \in Kinds, j \in Ids :
                               SymbolOf[j] = Here => leg'[k][j] # "active"
    BY <2>1, <2>2, <2>3, <2>4, LegsCancelled
  <2>6. Ensured' /\ Closed' /\ Retained'
    BY <2>3, <2>5 DEF Protection, Ensured, Ensuring, Closed, Retained, HasLegs, Here
  <2> QED
    BY <2>5, <2>6 DEF Protection
<1>6. CASE StageLifecycle \/ StageLifecycleFails
  BY <1>6 DEF StageLifecycle, StageLifecycleFails, Protection, Ensured, Ensuring, Named,
     Closed, Retained, Attended, LegsNamed, Resolved, HasLegs, Protected,
     Here
<1>7. CASE ResolveNoExposure
  BY <1>7, EntryResolved DEF ResolveNoExposure
<1> QED
  BY <1>1, <1>2, <1>3, <1>4, <1>5, <1>6, <1>7 DEF RecoverStep

-----------------------------------------------------------------------------
(* Between attempts every open position is one the venue shows.            *)
LEMMA BetweenIsVisible ==
    ASSUME Base, pc \in Between, NEW i \in exposure
    PROVE  /\ i \in Ids /\ status[i] \notin Incomplete /\ SymbolOf[i] \in Symbols
           /\ Visible(SymbolOf[i])
<1>1. i \in Ids /\ status[i] \notin Incomplete
  BY DEF Base, TypeInv, TypeOK, LedgerInv, Owner, IncompleteIds
<1> QED
  BY <1>1, OpenIsVisible, SymbolAssumption

LEMMA ProtectionReconcile == ASSUME Base, Protection, ReconcileStep PROVE Protection'
<1> USE DEF durable, venue, volatile, Goto, Fail
<1>1. CASE BeginReconcileFails \/ NaturalExitsDone
  BY <1>1, ProtectionSaved DEF BeginReconcileFails, NaturalExitsDone, Ensuring, Unobserved
<1>2. CASE BeginReconcile
  <2>1. \A k \in Kinds, i \in Ids : leg'[k][i] = leg[k][i]
    BY <1>2 DEF BeginReconcile, Protection, LegsNamed
  <2>2. leg' \in [Kinds -> [Ids -> LegState]] /\ leg \in [Kinds -> [Ids -> LegState]]
    BY <1>2 DEF BeginReconcile, Base, TypeInv, TypeOK, LegState
  <2>3. leg' = leg
    BY <2>1, <2>2
  <2> QED
    BY <1>2, <2>3, ProtectionSaved DEF BeginReconcile, Ensuring, Unobserved
<1>3. ASSUME NEW s \in Symbols, NaturalExit(s) \/ NaturalExitFails(s) PROVE Protection'
  <2>1. \A i \in exposure : SymbolOf[i] # s
    BY <1>3, BetweenIsVisible DEF NaturalExit, NaturalExitFails, Between
  <2>2. /\ UNCHANGED <<status, exposure>> /\ staged \subseteq staged'
        /\ pc' \in {"natural", "recover"}
    BY <1>3 DEF NaturalExit, NaturalExitFails, StagedWith
  <2>3. \E K \in SUBSET Kinds : leg' = Cancelled(K, s)
           /\ (UNCHANGED row \/ (K = Kinds /\ row' = [row EXCEPT ![s] = Blank]))
    BY <1>3 DEF NaturalExit, NaturalExitFails
  <2>4. Named' /\ Attended' /\ LegsNamed' /\ Resolved'
    BY <2>1, <2>2, <2>3, LegsCancelled
  <2>5. \A t \in Symbols : row'[t] = row[t] \/ row'[t] = Blank
    BY <2>3 DEF Base, TypeInv, TypeOK
  <2>6. Ensured' /\ Closed' /\ Retained'
    BY <2>2, <2>5, NoIdAssumption
       DEF Protection, Ensured, Ensuring, Closed, Retained, HasLegs, Blank
  <2> QED
    BY <2>4, <2>6 DEF Protection
<1>4. CASE PortfolioSafe \/ PortfolioUnsafe
  <2>1. \A s \in Symbols : row'[s] \in {row[s], Synced(s)}
    BY <1>4 DEF PortfolioSafe, PortfolioUnsafe, SyncAll, Base, TypeInv, TypeOK
  <2>2. \A s \in Symbols : RowKept(s)
    BY <2>1, SyncedKeeps DEF Base, TypeInv
  <2>3. UNCHANGED <<status, staged, exposure, leg>> /\ pc' \in {"cycle", "recover"}
    BY <1>4 DEF PortfolioSafe, PortfolioUnsafe
  <2> QED
    BY <2>2, <2>3, ProtectionSynced DEF Ensuring
<1> QED
  BY <1>1, <1>2, <1>3, <1>4 DEF ReconcileStep

LEMMA ProtectionStutter == ASSUME Protection, UNCHANGED vars PROVE Protection'
BY DEF vars, durable, venue, volatile, Protection, Ensured, Ensuring, LegLive, LegOf, Here,
       NextLeg, Named, Closed, Retained, HasLegs, Attended, Protected, LegsNamed,
       Resolved

(* All that holds of the entry flow, step after step, until a view of the  *)
(* operator upsets a row.                                                  *)
Safe == ~raced => Protection

LEMMA SafeStep == ASSUME Base, Safe, [Next]_vars PROVE Safe'
<1> SUFFICES ASSUME ~raced' PROVE Protection'
  BY DEF Safe
<1>1. ~raced
  BY NothingUpset DEF Next, Crash, SyncStep, SyncReads, SyncAsks, SyncSaves, vars
<1>2. Protection
  BY <1>1 DEF Safe
<1> QED
  BY <1>2, ProtectionProcess, ProtectionEnter, ProtectionProtect, ProtectionRecover,
     ProtectionReconcile, ProtectionVenue, ProtectionSync, ProtectionStutter
     DEF Next, RunnerStep

THEOREM ProtectionInvariance == Spec => [](Base /\ Safe)
<1>1. Init => Safe
  BY ProtectionInit DEF Safe
<1>2. Base /\ Safe /\ [Next]_vars => Safe'
  BY SafeStep
<1> QED
  BY <1>1, <1>2, CapacityInvariance, PTL DEF Spec, Base

-----------------------------------------------------------------------------
(* Exposure is never unattended until a view of the operator upsets a row  *)
(* (NoNakedExposure).                                                      *)
THEOREM AttendedExposure == Spec => []NoNakedExposure
<1>1. Safe => NoNakedExposure
  BY DEF Safe, Protection, Attended, NoNakedExposure
<1> QED
  BY <1>1, ProtectionInvariance, PTL

(* Until then cleanup can find every live leg from its symbol's row        *)
(* (NoOrphanLeg).                                                          *)
THEOREM NamedLegs == Spec => []NoOrphanLeg
<1>1. Safe => NoOrphanLeg
  BY DEF Safe, Protection, LegsNamed, NoOrphanLeg
<1> QED
  BY <1>1, ProtectionInvariance, PTL

(* A resolved entry is closed, staged and without legs (ResolvedIsClosed). *)
THEOREM ResolutionIsTrue == Spec => []ResolvedIsClosed
<1>1. Base /\ Safe => ResolvedIsClosed
  BY DEF Base, LedgerInv, Ended, Safe, Protection, Resolved, ResolvedIsClosed
<1> QED
  BY <1>1, ProtectionInvariance, PTL

(* An open entry gate means that nothing is in doubt (GateMeansSettled).   *)
THEOREM SettledGate == Spec => []GateMeansSettled
<1>1. ASSUME Base, gate, pc # "down" PROVE IncompleteIds = {}
  BY <1>1 DEF Base, LedgerInv, Owner, Between
<1>2. ASSUME Base, Protection, gate, pc # "down", NEW i \in exposure
      PROVE  Protected(SymbolOf[i])
  <2>1. i \in Ids /\ status[i] \notin Incomplete
    BY <1>1, <1>2 DEF Base, TypeInv, TypeOK, IncompleteIds
  <2> QED
    BY <1>2, <2>1 DEF Protection, Attended
<1>3. Base /\ Safe => GateMeansSettled
  BY <1>1, <1>2 DEF GateMeansSettled, Safe
<1> QED
  BY <1>3, ProtectionInvariance, PTL

-----------------------------------------------------------------------------
(* From the moment it is stored, the row of the attempt in hand is its own.*)
OwnRow == pc \in Handling \ {"save_row"} => row[Here].stored /\ row[Here].entry = cur

LEMMA OwnRowStep ==
    ASSUME Base, Protection, OwnRow, [Next]_vars, ~raced' PROVE OwnRow'
<1> USE DEF OwnRow, Handling, Gone, durable, venue, volatile, Goto, Fail, Here
<1>1. CASE UNCHANGED vars \/ VenueStep
  BY <1>1 DEF vars, VenueStep, VenuePublishes, VenueOpens, VenueFills, VenueKills, VenueCloses
<1>2. CASE Crash \/ Restart
  BY <1>2 DEF Crash, Restart
<1>3. CASE EnterStep
  <2>1. CASE SaveRow
    <3>1. cur \in Ids /\ Here \in Symbols /\ row'[Here] = OwnedRow
      BY <2>1, InHand DEF SaveRow, Idle, Base, TypeInv, TypeOK
    <3> QED
      BY <2>1, <3>1 DEF SaveRow, OwnedRow
  <2>2. ASSUME NEW i \in Ids, Reserve(i) \/ ReserveFails(i) PROVE OwnRow'
    BY <2>2 DEF Reserve, ReserveFails
  <2>3. CASE \/ BeginCycle \/ PreflightFails \/ SyncPortfolio \/ SyncPortfolioFails
             \/ PersistBlocked \/ Submit \/ SubmitAccepted \/ SubmitRefused
             \/ SubmitUnknown \/ SubmitFails \/ PersistRefused
             \/ RequeryFilled \/ RequeryDead \/ RequeryAgain \/ RequeryFails
             \/ Acknowledge \/ AcknowledgeFails \/ ObserveEntry \/ ObserveEntryFails
             \/ SaveRowFails
    <3>1. pc' \notin Handling \ {"save_row"}
      BY <2>3 DEF BeginCycle, PreflightFails, SyncPortfolio, SyncPortfolioFails,
         PersistBlocked, Submit, SubmitAccepted, SubmitRefused, SubmitUnknown, SubmitFails,
         PersistRefused, RequeryFilled, RequeryDead, RequeryAgain, RequeryFails,
         Acknowledge, AcknowledgeFails, ObserveEntry, ObserveEntryFails, SaveRowFails
    <3> QED
      BY <3>1
  <2> QED
    BY <1>3, <2>1, <2>2, <2>3 DEF EnterStep
<1>4. CASE ProtectStep
  <2>1. CASE PlaceLeg
    <3>1. row'[Here] = LegRow /\ LegRow.stored = row[Here].stored
          /\ LegRow.entry = row[Here].entry
      BY <2>1, InHand, LegRowType DEF PlaceLeg, Idle, Base, TypeInv, TypeOK, Placing
    <3> QED
      BY <2>1, <3>1 DEF PlaceLeg
  <2>2. CASE RefreshLeg
    <3>1. row'[Here] = RefreshedRow /\ RefreshedRow.stored = row[Here].stored
          /\ RefreshedRow.entry = row[Here].entry
      BY <2>2, InHand, RefreshedRowType
         DEF RefreshLeg, Idle, Base, TypeInv, TypeOK, Placing
    <3> QED
      BY <2>2, <3>1 DEF RefreshLeg
  <2>3. CASE Inspect \/ PostLeg \/ PlanNoLongerValid \/ InspectFails \/ PostLegFails
             \/ PlaceLegFails \/ Complete \/ CompleteFails
    BY <2>3 DEF Inspect, PostLeg, PlanNoLongerValid, InspectFails, PostLegFails,
                PlaceLegFails, Complete, CompleteFails
  <2> QED
    BY <1>4, <2>1, <2>2, <2>3 DEF ProtectStep
<1>5. CASE RecoverStep
  <2>1. CASE RecoverVisible
    <3>1. cur \in Ids /\ Here \in Symbols /\ row[Here] \in Row
      BY <2>1, InHand DEF RecoverVisible, Idle, Base, TypeInv, TypeOK
    <3> QED
      BY <2>1, <3>1 DEF RecoverVisible, Row, Base, TypeInv, TypeOK
  <2>2. ASSUME NEW i \in Ids, RecoverAcknowledged(i) \/ RecoverRejected(i) PROVE OwnRow'
    BY <2>2 DEF RecoverAcknowledged, RecoverRejected
  <2>3. CASE \/ NothingToRecover \/ RecoverClosed \/ RecoverNotVisible \/ ExitLookup
             \/ ExitLookupFails \/ ExitGone \/ ExitPost \/ ExitPriceBand \/ ExitPostFails
             \/ ExitCheck \/ CancelOrphans \/ CancelOrphansFails \/ StageLifecycle
             \/ StageLifecycleFails \/ ResolveNoExposure \/ ResolveNoExposureFails
    BY <2>3 DEF NothingToRecover, RecoverClosed, RecoverNotVisible, ExitLookup,
       ExitLookupFails, ExitGone, ExitPost, ExitPriceBand, ExitPostFails, ExitCheck,
       CancelOrphans, CancelOrphansFails, StageLifecycle, StageLifecycleFails,
       ResolveNoExposure, ResolveNoExposureFails
  <2> QED
    BY <1>5, <2>1, <2>2, <2>3 DEF RecoverStep
<1>6. CASE ReconcileStep
  BY <1>6 DEF ReconcileStep, BeginReconcile, BeginReconcileFails, NaturalExitsDone,
     PortfolioSafe, PortfolioUnsafe, NaturalExit, NaturalExitFails
<1>7. CASE SyncReads \/ SyncAsks
  BY <1>7 DEF SyncReads, SyncAsks
<1>8. CASE SyncSaves
  <2>1. UNCHANGED <<pc, cur>>
    BY <1>8 DEF SyncSaves
  <2>2. ASSUME pc \in Handling \ {"save_row"} PROVE row'[Here] = row[Here]
    <3>1. Here \in Symbols /\ cur \in Ids /\ row[Here].entry = cur
      BY <2>2, InHand DEF Idle
    <3> QED
      BY <1>8, <3>1, NothingUpset, NoIdAssumption DEF Base, TypeInv
  <2> QED
    BY <2>1, <2>2
<1> QED
  BY <1>1, <1>2, <1>3, <1>4, <1>5, <1>6, <1>7, <1>8 DEF Next, RunnerStep, SyncStep

(* A row that goes is that of a resolved entry or of a natural exit: one   *)
(* that is synced away names no entry.                                     *)
LEMMA SyncedAway ==
    ASSUME Base, Protection, NEW s \in Symbols, RowKept(s), row[s].stored, ~row'[s].stored,
           row[s].entry # NoId
    PROVE  row[s].entry \in IncompleteIds /\ SymbolOf[row[s].entry] = s
           /\ order[row[s].entry] = "filled"
<1>1. row[s].entry \in Ids
  BY DEF Base, TypeInv, TypeOK, Row
<1>2. ~HasLegs(s)
  BY DEF RowKept
<1> QED
  BY <1>1, <1>2 DEF Protection, Retained, Named, IncompleteIds, Base, LedgerInv, Observed

LEMMA DeletedRowIsStaged ==
    ASSUME Base, Protection, OwnRow, [Next]_vars, ~raced', NEW s \in Symbols,
           row[s].stored, ~row'[s].stored, row[s].entry # NoId
    PROVE  row[s].entry \in staged'
<1> USE DEF durable, venue, volatile, Goto, Fail
<1>1. CASE UNCHANGED vars \/ VenueStep \/ Crash \/ Restart
  BY <1>1 DEF vars, VenueStep, VenuePublishes, VenueOpens, VenueFills, VenueKills,
              VenueCloses, Crash, Restart
<1>2. CASE SyncPortfolio \/ SyncPortfolioFails
  <2>1. RowKept(s)
    BY <1>2, SyncedKeeps DEF SyncPortfolio, SyncPortfolioFails, SyncAll, Base, TypeInv
  <2>2. pc = "sync" /\ cur \in IncompleteIds /\ order[cur] = "none"
    BY <1>2, InHand DEF SyncPortfolio, SyncPortfolioFails, Idle, Unsent, Base, LedgerInv,
                        Progressed, IncompleteIds
  <2> QED
    BY <2>1, <2>2, SyncedAway DEF Base, LedgerInv, SingleIncomplete
<1>3. CASE ObserveEntry \/ ObserveEntryFails
  <2>1. RowKept(s)
    BY <1>3, SyncedKeeps DEF ObserveEntry, ObserveEntryFails, Base, TypeInv, TypeOK
  <2>2. pc = "observe" /\ cur \in IncompleteIds /\ row[Here].entry # cur
    BY <1>3, InHand DEF ObserveEntry, ObserveEntryFails, Idle, IncompleteIds, Protection,
                        Retained
  <2> QED
    BY <2>1, <2>2, SyncedAway DEF Base, LedgerInv, SingleIncomplete, Here
<1>4. CASE PortfolioSafe \/ PortfolioUnsafe
  <2>1. RowKept(s)
    BY <1>4, SyncedKeeps DEF PortfolioSafe, PortfolioUnsafe, SyncAll, Base, TypeInv
  <2>2. IncompleteIds = {}
    BY <1>4 DEF PortfolioSafe, PortfolioUnsafe, Base, LedgerInv, Owner, Between
  <2> QED
    BY <2>1, <2>2, SyncedAway
<1>5. CASE SaveRow \/ SaveRowFails \/ RecoverVisible
  <2>1. cur \in Ids /\ Here \in Symbols /\ row[Here] \in Row /\ row \in [Symbols -> Row]
    BY <1>5, InHand DEF SaveRow, SaveRowFails, RecoverVisible, Idle, Base, TypeInv, TypeOK
  <2> QED
    BY <1>5, <2>1 DEF SaveRow, SaveRowFails, OwnedRow, RecoverVisible, Row
<1>6. CASE PlaceLeg \/ PlaceLegFails \/ RefreshLeg
  <2>1. /\ LegRow.stored = row[Here].stored /\ RefreshedRow.stored = row[Here].stored
        /\ row \in [Symbols -> Row]
    BY <1>6, InHand, LegRowType, RefreshedRowType
       DEF PlaceLeg, PlaceLegFails, RefreshLeg, Idle, Base, TypeInv, TypeOK, Placing
  <2> QED
    BY <1>6, <2>1 DEF PlaceLeg, PlaceLegFails, RefreshLeg
<1>7. CASE ResolveNoExposure
  BY <1>7 DEF ResolveNoExposure, OwnRow, Handling, Gone, Protection, Closed, Base, TypeInv,
              TypeOK
<1>8. ASSUME NEW t \in Symbols, NaturalExit(t) \/ NaturalExitFails(t)
      PROVE  row[s].entry \in staged'
  BY <1>8 DEF NaturalExit, NaturalExitFails, StagedWith, Base, TypeInv, TypeOK
<1>9. CASE UNCHANGED row
  BY <1>9
<1>10. CASE EnterStep
  BY <1>2, <1>3, <1>5, <1>9, <1>10
     DEF EnterStep, BeginCycle, PreflightFails, PersistBlocked, Submit, SubmitAccepted,
         SubmitRefused, SubmitUnknown, SubmitFails, PersistRefused, RequeryFilled,
         RequeryDead, RequeryAgain, RequeryFails, Acknowledge, AcknowledgeFails, Reserve,
         ReserveFails
<1>11. CASE ProtectStep
  BY <1>6, <1>9, <1>11
     DEF ProtectStep, Inspect, InspectFails, PostLeg, PostLegFails, PlanNoLongerValid,
         Complete, CompleteFails
<1>12. CASE RecoverStep
  BY <1>5, <1>7, <1>9, <1>12
     DEF RecoverStep, NothingToRecover, RecoverClosed, RecoverNotVisible, ExitLookup,
         ExitLookupFails, ExitGone, ExitPost, ExitPriceBand, ExitPostFails, ExitCheck,
         CancelOrphans, CancelOrphansFails, StageLifecycle, StageLifecycleFails,
         ResolveNoExposureFails, RecoverAcknowledged, RecoverRejected
<1>13. CASE ReconcileStep
  BY <1>4, <1>8, <1>9, <1>13
     DEF ReconcileStep, BeginReconcile, BeginReconcileFails, NaturalExitsDone
<1>14. CASE SyncStep
  BY <1>14, NothingUpset DEF SyncStep, SyncReads, SyncAsks, Base, TypeInv
<1> QED
  BY <1>1, <1>10, <1>11, <1>12, <1>13, <1>14 DEF Next, RunnerStep

(* Nothing is raced before a step that does not race.                      *)
LEMMA RacedStays == ASSUME [Next]_vars, ~raced', raced \in BOOLEAN PROVE ~raced
BY DEF Next, Crash, SyncStep, SyncReads, SyncAsks, SyncSaves, vars

(* No row goes before the lifecycle of its entry is staged, until a view   *)
(* of the operator upsets a row (StagedBeforeDeletion).                    *)
THEOREM StagingFirst == Spec => StagedBeforeDeletion
<1> DEFINE Own == ~raced => OwnRow
<1>1. Init => Own
  BY DEF Init, OwnRow, Handling, Gone
<1>2. Base /\ Safe /\ Own /\ [Next]_vars => Own'
  BY OwnRowStep, RacedStays DEF Safe, Base, TypeInv, TypeOK, SyncOK
<1>3. Base /\ Safe /\ Own /\ [Next]_vars =>
        [\A s \in Symbols :
            ~raced' /\ row[s].stored /\ ~row'[s].stored /\ row[s].entry # NoId
             => row[s].entry \in staged']_vars
  BY DeletedRowIsStaged, RacedStays DEF Safe, Base, TypeInv, TypeOK, SyncOK
<1> HIDE DEF Own
<1> QED
  BY <1>1, <1>2, <1>3, ProtectionInvariance, PTL DEF Spec, StagedBeforeDeletion
=============================================================================
