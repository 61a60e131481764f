----------------------------- MODULE LiveEntry -----------------------------
(***************************************************************************)
(* The life of a protected LIVE Futures entry: reservation, submission,    *)
(* acknowledgement, protection, restart recovery and portfolio             *)
(* reconciliation, as one runner task executes them against a venue that   *)
(* acts on its own, with storage and network calls that may fail and a     *)
(* process that may crash between any two of them.                         *)
(*                                                                         *)
(* One runner task calls the entry service, the recovery services and the  *)
(* reconciliation service in turn, so `pc` is the place that task is at.   *)
(* Every action ends where the code awaits the venue or the database.      *)
(* Beside it the operator's views (operator exit, switch of the market     *)
(* type) synchronize the same stored positions, under no lock.             *)
(***************************************************************************)
EXTENDS Integers, FiniteSets

CONSTANTS
    Ids,        \* client order ids, one per entry attempt
    NoId,       \* "no client order id" (None in the code)
    Symbols,    \* trading symbols
    SymbolOf,   \* the symbol each attempt enters
    MaxOpen     \* portfolio capacity (max_open_positions)

ASSUME NoIdAssumption == NoId \notin Ids
ASSUME SymbolAssumption == SymbolOf \in [Ids -> Symbols]
ASSUME CapacityAssumption == MaxOpen \in Nat \ {0}

Kinds == {"stop", "target"}

(* SubmissionAttemptStatus; "absent" is an attempt that has no row yet.    *)
Incomplete == {"prepared", "unresolved", "acknowledged"}
Blocked    == {"blocked_by_existing_position", "blocked_by_portfolio_capacity"}
Terminal   == Blocked \cup {"completed", "rejected", "resolved_no_exposure"}
Status     == Incomplete \cup Terminal \cup {"absent"}

OrderState == {"none", "sent", "open", "filled", "dead"}
LegState   == {"none", "active", "filled", "cancelled"}
Budget     == 2     \* bounded GETs of an ambiguous POST, exit submissions

(* A stored position: the entry that owns it and its two protection ids. A *)
(* protection id is named by the entry it was minted for.                  *)
Row   == [stored : BOOLEAN, entry : Ids \cup {NoId}, legs : [Kinds -> Ids \cup {NoId}]]
Blank == [stored |-> FALSE, entry |-> NoId, legs |-> [k \in Kinds |-> NoId]]

Pcs == {"down", "recover", "ack_observe", "exit_lookup", "exit_post",
        "exit_check", "zero", "stage", "resolve", "reconcile", "natural",
        "portfolio", "cycle", "sync", "block_existing", "block_capacity",
        "submit", "response", "refused", "requery", "acknowledge",
        "observe", "save_row", "inspect", "place", "post", "complete"}

VARIABLES
    status, row, staged,                        \* SQLite
    order, exitOrder, exposure, seen, leg,      \* the venue
    pc, cur, gate, recovering, tries, missing, proof,   \* the process
    sync,       \* what a view of the operator has read
    raced       \* history: has it overwritten what it did not know of?

durable  == <<status, row, staged>>
venue    == <<order, exitOrder, exposure, seen, leg>>
volatile == <<pc, cur, gate, recovering, tries, missing, proof>>
scratch  == <<tries, missing, proof>>
vars     == <<durable, venue, volatile, sync, raced>>

IncompleteIds == {i \in Ids : status[i] \in Incomplete}
Visible(s)    == \E i \in seen : SymbolOf[i] = s
HasLegs(s)    == \E k \in Kinds : row[s].legs[k] # NoId
Here          == SymbolOf[cur]

(* Mutant of Synced: a row that is not visible is deleted, legs or not.    *)
SyncedDropsClosed(s) == IF Visible(s) THEN [row[s] EXCEPT !.stored = TRUE] ELSE Blank

(* PositionService.sync: a visible position is stored over whatever is     *)
(* there, keeping the stored metadata; a row that is not visible stays     *)
(* while it names a protection order, and is deleted otherwise.            *)
Synced(s) == IF Visible(s) THEN [row[s] EXCEPT !.stored = TRUE]
             ELSE IF HasLegs(s) THEN row[s] ELSE Blank
SyncAll == [s \in Symbols |-> Synced(s)]

(* A view that has read nothing, the rows, or what the venue shows, too.   *)
NoSync == [at |-> "idle", rows |-> [s \in Symbols |-> Blank], seen |-> {}]

(* The attempt statuses a fallible save may leave behind.                  *)
SaveMayFail(st) == {status, [status EXCEPT ![cur] = st]}

Init ==
    /\ status = [i \in Ids |-> "absent"] /\ row = [s \in Symbols |-> Blank]
    /\ staged = {}
    /\ order = [i \in Ids |-> "none"] /\ exitOrder = {} /\ exposure = {} /\ seen = {}
    /\ leg = [k \in Kinds |-> [i \in Ids |-> "none"]]
    /\ pc = "down" /\ cur = NoId /\ gate = TRUE /\ recovering = FALSE
    /\ tries = 0 /\ missing = {} /\ proof = "none"
    /\ sync = NoSync /\ raced = FALSE

Goto(place) == pc' = place /\ UNCHANGED <<cur, recovering, tries, missing, proof>>

(* An unsafe outcome: the runner closes the gate, pauses and keeps running *)
(* recovery until one pass succeeds.                                       *)
Fail == /\ pc' = "recover" /\ gate' = FALSE /\ recovering' = TRUE
        /\ cur' = NoId /\ tries' = 0 /\ missing' = {} /\ proof' = "none"

-----------------------------------------------------------------------------
(* The process.                                                            *)

(* The process stops anywhere; a new one starts with an open gate, which   *)
(* startup recovery closes first.                                          *)
Crash ==
    /\ pc # "down"
    /\ pc' = "down" /\ gate' = TRUE /\ recovering' = FALSE
    /\ cur' = NoId /\ tries' = 0 /\ missing' = {} /\ proof' = "none"
    /\ sync' = NoSync /\ UNCHANGED <<durable, venue, raced>>

Restart == pc = "down" /\ Fail /\ UNCHANGED <<durable, venue>>

-----------------------------------------------------------------------------
(* LiveFuturesEntryService.execute                                         *)

(* A cycle reconciles the portfolio before it discovers anything.          *)
BeginCycle == pc = "cycle" /\ Goto("reconcile") /\ UNCHANGED <<durable, venue, gate>>

(* A preflight that fails, or finds a PREPARED or UNRESOLVED attempt,      *)
(* sends the runner into recovery with nothing reserved.                   *)
PreflightFails == pc = "cycle" /\ Fail /\ UNCHANGED <<durable, venue>>

(* Mutant of Reserve: the gate is not closed before the row is written.    *)
ReserveGateOpen(i) ==
    /\ pc = "cycle" /\ status[i] = "absent" /\ IncompleteIds = {}
    /\ status' = [status EXCEPT ![i] = "prepared"]
    /\ pc' = "sync" /\ cur' = i
    /\ UNCHANGED <<row, staged, venue, gate, recovering, scratch>>

(* reserve(): one INSERT guarded by "no incomplete attempt exists".        *)
Reserve(i) ==
    /\ pc = "cycle" /\ status[i] = "absent" /\ IncompleteIds = {}
    /\ status' = [status EXCEPT ![i] = "prepared"]
    /\ pc' = "sync" /\ cur' = i /\ gate' = FALSE
    /\ UNCHANGED <<row, staged, venue, recovering, scratch>>

(* The INSERT is refused, or it raises and may or may not be on disk.      *)
ReserveFails(i) ==
    /\ pc = "cycle" /\ status[i] = "absent"
    /\ status' \in IF IncompleteIds = {}
                   THEN {status, [status EXCEPT ![i] = "prepared"]} ELSE {status}
    /\ Fail /\ UNCHANGED <<row, staged, venue>>

(* Mutant of SyncPortfolio: one position more than the capacity.           *)
SyncPortfolioOffByOne ==
    /\ pc = "sync" /\ row' = SyncAll
    /\ Goto(IF Visible(Here) THEN "block_existing"
            ELSE IF Cardinality(seen) > MaxOpen THEN "block_capacity" ELSE "submit")
    /\ UNCHANGED <<status, staged, venue, gate>>

(* The authoritative portfolio is read and stored, then decides whether    *)
(* the symbol is free and the capacity not yet used.                       *)
SyncPortfolio ==
    /\ pc = "sync"
    /\ row' = SyncAll
    /\ Goto(IF Visible(Here) THEN "block_existing"
            ELSE IF Cardinality(seen) >= MaxOpen THEN "block_capacity" ELSE "submit")
    /\ UNCHANGED <<status, staged, venue, gate>>

SyncPortfolioFails ==
    /\ pc = "sync" /\ row' \in {row, SyncAll} /\ Fail
    /\ UNCHANGED <<status, staged, venue>>

(* A blocked attempt is terminal and was never sent, so the gate reopens;  *)
(* when the save fails the gate stays closed and the attempt incomplete.   *)
PersistBlocked ==
    /\ pc \in {"block_existing", "block_capacity"}
    /\ LET st == IF pc = "block_existing" THEN "blocked_by_existing_position"
                 ELSE "blocked_by_portfolio_capacity"
       IN \/ /\ status' = [status EXCEPT ![cur] = st] /\ gate' = TRUE
             /\ pc' = "cycle" /\ cur' = NoId /\ UNCHANGED <<recovering, scratch>>
          \/ status' \in SaveMayFail(st) /\ Fail
    /\ UNCHANGED <<row, staged, venue>>

(* The POST leaves the process; from here only the venue knows.            *)
Submit ==
    /\ pc = "submit" /\ order[cur] = "none"
    /\ order' = [order EXCEPT ![cur] = "sent"]
    /\ Goto("response") /\ UNCHANGED <<durable, exitOrder, exposure, seen, leg, gate>>

(* An order came back. Its execution status is not looked at.              *)
SubmitAccepted ==
    /\ pc = "response" /\ order[cur] \in {"open", "filled", "dead"}
    /\ Goto("acknowledge") /\ UNCHANGED <<durable, venue, gate>>

(* The venue refused the order: it will never execute.                     *)
SubmitRefused ==
    /\ pc = "response" /\ order[cur] = "dead"
    /\ Goto("refused") /\ UNCHANGED <<durable, venue, gate>>

(* The outcome is unknown: UNRESOLVED is saved if it can be, and the order *)
(* is looked up by its client id.                                          *)
SubmitUnknown ==
    /\ pc = "response" /\ status' \in SaveMayFail("unresolved")
    /\ Goto("requery") /\ UNCHANGED <<row, staged, venue, gate>>

(* Mutant of SubmitFails: any other failure is taken for a refusal.        *)
SubmitFailsRejected ==
    /\ pc = "response" /\ status' \in SaveMayFail("rejected") /\ Fail
    /\ UNCHANGED <<row, staged, venue>>

(* Any other failure of the POST: same save, but straight to recovery.     *)
SubmitFails ==
    /\ pc = "response" /\ status' \in SaveMayFail("unresolved") /\ Fail
    /\ UNCHANGED <<row, staged, venue>>

(* REJECTED is saved and the cycle goes on with the gate still closed.     *)
PersistRefused ==
    /\ pc = "refused"
    /\ \/ /\ status' = [status EXCEPT ![cur] = "rejected"]
          /\ pc' = "cycle" /\ cur' = NoId /\ UNCHANGED <<gate, recovering, scratch>>
       \/ status' \in SaveMayFail("rejected") /\ Fail
    /\ UNCHANGED <<row, staged, venue>>

(* One bounded GET by client id after an ambiguous POST that proves the    *)
(* order filled or never executed.                                         *)
RequeryFilled ==
    /\ pc = "requery" /\ order[cur] = "filled"
    /\ pc' = "acknowledge" /\ tries' = 0
    /\ UNCHANGED <<durable, venue, cur, gate, recovering, missing, proof>>

RequeryDead ==
    /\ pc = "requery" /\ order[cur] = "dead"
    /\ status' \in SaveMayFail("rejected") /\ Fail
    /\ UNCHANGED <<row, staged, venue>>

(* Not found, or unknown again: one more GET, then recovery.               *)
RequeryAgain ==
    /\ pc = "requery" /\ tries + 1 < Budget
    /\ tries' = tries + 1
    /\ UNCHANGED <<durable, venue, pc, cur, gate, recovering, missing, proof>>

(* Mutant of RequeryFails: an order that is not found was never placed.    *)
RequeryMissingIsRejected ==
    /\ pc = "requery" /\ (tries + 1 >= Budget \/ order[cur] = "open") /\ Fail
    /\ status' \in SaveMayFail("rejected") /\ UNCHANGED <<row, staged, venue>>

RequeryFails ==
    /\ pc = "requery" /\ (tries + 1 >= Budget \/ order[cur] = "open") /\ Fail
    /\ UNCHANGED <<durable, venue>>

Acknowledge ==
    /\ pc = "acknowledge" /\ status' = [status EXCEPT ![cur] = "acknowledged"]
    /\ Goto("observe") /\ UNCHANGED <<row, staged, venue, gate>>

(* The acknowledgement raises: it may be on disk, and UNRESOLVED is then   *)
(* saved over it if that save succeeds.                                    *)
AcknowledgeFails ==
    /\ pc = "acknowledge"
    /\ status' \in SaveMayFail("acknowledged") \cup SaveMayFail("unresolved")
    /\ Fail /\ UNCHANGED <<row, staged, venue>>

(* The position is read and stored with the metadata already on the row.   *)
ObserveEntry ==
    /\ pc = "observe" /\ Visible(Here)
    /\ row' = [row EXCEPT ![Here] = Synced(Here)]
    /\ Goto("save_row") /\ UNCHANGED <<status, staged, venue, gate>>

ObserveEntryFails ==
    /\ pc = "observe" /\ row' \in {row, [row EXCEPT ![Here] = Synced(Here)]} /\ Fail
    /\ UNCHANGED <<status, staged, venue>>

(* The row is given its entry identity; protection ids already on it are   *)
(* kept, missing ones are minted.                                          *)
OwnedRow == [stored |-> TRUE, entry |-> cur,
             legs |-> [k \in Kinds |-> IF row[Here].legs[k] = NoId THEN cur
                                       ELSE row[Here].legs[k]]]

SaveRow ==
    /\ pc = "save_row" /\ row' = [row EXCEPT ![Here] = OwnedRow]
    /\ Goto("inspect") /\ UNCHANGED <<status, staged, venue, gate>>

SaveRowFails ==
    /\ pc = "save_row" /\ row' \in {row, [row EXCEPT ![Here] = OwnedRow]} /\ Fail
    /\ UNCHANGED <<status, staged, venue>>

-----------------------------------------------------------------------------
(* LivePositionProtectionService.ensure                                    *)

LegOf(k) == IF row[Here].legs[k] = NoId THEN "none" ELSE leg[k][row[Here].legs[k]]

(* Each id on the row is looked up: an active leg is kept, a cancelled or  *)
(* absent one is to be placed. An executed leg makes the pass raise.       *)
Inspect ==
    /\ pc = "inspect" /\ \A k \in Kinds : LegOf(k) # "filled"
    /\ missing' = {k \in Kinds : LegOf(k) \in {"none", "cancelled"}}
    /\ pc' = IF missing' = {} THEN "complete" ELSE "place"
    /\ UNCHANGED <<durable, venue, cur, gate, recovering, tries, proof>>

InspectFails == pc = "inspect" /\ Fail /\ UNCHANGED <<durable, venue>>

(* The stop first; its identity is stored before the POST. A cancelled id  *)
(* is replaced, an absent one is used again.                               *)
NextLeg == IF "stop" \in missing THEN "stop" ELSE "target"
LegRow  == [row[Here] EXCEPT
              !.legs[NextLeg] = IF LegOf(NextLeg) = "none" /\ @ # NoId THEN @ ELSE cur]

PlaceLeg ==
    /\ pc = "place" /\ row' = [row EXCEPT ![Here] = LegRow]
    /\ Goto("post") /\ UNCHANGED <<status, staged, venue, gate>>

PlaceLegFails ==
    /\ pc = "place" /\ row' \in {row, [row EXCEPT ![Here] = LegRow]} /\ Fail
    /\ UNCHANGED <<status, staged, venue>>

Posted == [k \in Kinds |-> [j \in Ids |->
    IF k = NextLeg /\ j = row[Here].legs[k] THEN "active" ELSE leg[k][j]]]

(* Mutant of PostLeg: the first leg is taken for the whole protection.     *)
PostFirstLegOnly ==
    /\ pc = "post" /\ \E i \in exposure : SymbolOf[i] = Here
    /\ leg' = Posted /\ missing' = {} /\ pc' = "complete"
    /\ UNCHANGED <<durable, order, exitOrder, exposure, seen, cur, gate,
                   recovering, tries, proof>>

(* The venue accepts a closing leg only against an open position.          *)
PostLeg ==
    /\ pc = "post" /\ \E i \in exposure : SymbolOf[i] = Here
    /\ leg' = Posted /\ missing' = missing \ {NextLeg}
    /\ pc' = IF missing' = {} THEN "complete" ELSE "place"
    /\ UNCHANGED <<durable, order, exitOrder, exposure, seen, cur, gate,
                   recovering, tries, proof>>

(* A leg that is refused is given a fresh id, stored, and posted again.    *)
RefreshedRow == [row[Here] EXCEPT !.legs[NextLeg] = cur]

RefreshLeg ==
    /\ pc = "post" /\ row' = [row EXCEPT ![Here] = RefreshedRow]
    /\ \/ UNCHANGED volatile
       \/ Fail
    /\ UNCHANGED <<status, staged, venue>>

(* Refused again, or the answer is lost after the venue may have applied   *)
(* the order.                                                              *)
PostLegFails ==
    /\ pc = "post"
    /\ leg' \in IF \E i \in exposure : SymbolOf[i] = Here THEN {leg, Posted} ELSE {leg}
    /\ Fail /\ UNCHANGED <<durable, order, exitOrder, exposure, seen>>

(* In recovery a plan the venue's rules no longer allow closes the entry.  *)
PlanNoLongerValid ==
    /\ pc = "place" /\ recovering
    /\ pc' = "exit_lookup" /\ missing' = {}
    /\ UNCHANGED <<durable, venue, cur, gate, recovering, tries, proof>>

(* Completion opens the gate only once it is durable.                      *)
Complete ==
    /\ pc = "complete" /\ status' = [status EXCEPT ![cur] = "completed"]
    /\ gate' = TRUE /\ pc' = "reconcile" /\ cur' = NoId
    /\ UNCHANGED <<row, staged, venue, recovering, scratch>>

CompleteFails ==
    /\ pc = "complete" /\ status' \in SaveMayFail("completed") /\ Fail
    /\ UNCHANGED <<row, staged, venue>>

-----------------------------------------------------------------------------
(* LiveSubmissionRecoveryService and LivePostEntryRecoveryService.         *)
(* A pass that cannot prove an outcome changes nothing and is retried, so  *)
(* it is a stuttering step.                                                *)

NothingToRecover ==
    /\ pc = "recover" /\ IncompleteIds = {}
    /\ Goto("reconcile") /\ UNCHANGED <<durable, venue, gate>>

(* The sole incomplete attempt: acknowledged already, or proved filled.    *)
RecoverAcknowledged(i) ==
    /\ pc = "recover" /\ IncompleteIds = {i}
    /\ status[i] = "acknowledged" \/ order[i] = "filled"
    /\ status' = [status EXCEPT ![i] = "acknowledged"]
    /\ pc' = "ack_observe" /\ cur' = i
    /\ UNCHANGED <<row, staged, venue, gate, recovering, scratch>>

RecoverRejected(i) ==
    /\ pc = "recover" /\ IncompleteIds = {i}
    /\ status[i] # "acknowledged" /\ order[i] = "dead"
    /\ status' = [status EXCEPT ![i] = "rejected"]
    /\ Goto("reconcile") /\ UNCHANGED <<row, staged, venue, gate>>

(* The position is visible: its row takes this entry's identity and its    *)
(* protection is ensured.                                                  *)
RecoverVisible ==
    /\ pc = "ack_observe" /\ Visible(Here)
    /\ row' = [row EXCEPT ![Here].stored = TRUE, ![Here].entry = cur]
    /\ Goto("inspect") /\ UNCHANGED <<status, staged, venue, gate>>

(* Not visible: only a row that names this entry proves it once was, and   *)
(* only a filled order makes its absence mean a closed position.           *)
RecoverClosed ==
    /\ pc = "ack_observe" /\ ~Visible(Here)
    /\ row[Here].stored /\ row[Here].entry = cur /\ order[cur] = "filled"
    /\ pc' = "zero" /\ proof' = "lookup"
    /\ UNCHANGED <<durable, venue, cur, gate, recovering, tries, missing>>

RecoverNotVisible ==
    /\ pc = "ack_observe" /\ Fail /\ UNCHANGED <<durable, venue>>

(* The emergency exit: one deterministic id per entry.                     *)
ExitLookup ==
    /\ pc = "exit_lookup"
    /\ \/ ~Visible(Here) /\ pc' = "zero" /\ proof' = "lookup"
       \/ Visible(Here) /\ cur \in exitOrder /\ pc' = "exit_check" /\ proof' = "order"
       \/ Visible(Here) /\ cur \notin exitOrder /\ pc' = "exit_post" /\ UNCHANGED proof
    /\ UNCHANGED <<durable, venue, cur, gate, recovering, tries, missing>>

ExitLookupFails == pc = "exit_lookup" /\ Fail /\ UNCHANGED <<durable, venue>>

ExitGone ==
    /\ pc = "exit_post" /\ ~Visible(Here)
    /\ pc' = "exit_check" /\ tries' = 0
    /\ UNCHANGED <<durable, venue, cur, gate, recovering, missing, proof>>

(* A reduce-only close executes at the venue when there is something to    *)
(* close; its answer arrives, or is lost and only the position can tell.   *)
ExitPost ==
    /\ pc = "exit_post" /\ Visible(Here) /\ \E i \in exposure : SymbolOf[i] = Here
    /\ exposure' = {i \in exposure : SymbolOf[i] # Here}
    /\ exitOrder' = exitOrder \cup {cur}
    /\ proof' \in {"order", "none"} /\ pc' = "exit_check" /\ tries' = 0
    /\ UNCHANGED <<durable, order, seen, leg, cur, gate, recovering, missing>>

ExitPriceBand ==
    /\ pc = "exit_post" /\ Visible(Here) /\ tries + 1 < Budget
    /\ tries' = tries + 1
    /\ UNCHANGED <<durable, venue, pc, cur, gate, recovering, missing, proof>>

ExitPostFails == pc = "exit_post" /\ Fail /\ UNCHANGED <<durable, venue>>

ExitCheck ==
    /\ pc = "exit_check"
    /\ IF Visible(Here) THEN Fail ELSE Goto("zero") /\ UNCHANGED gate
    /\ UNCHANGED <<durable, venue>>

(* Mutant of Cancelled: only the stop is cleaned up.                       *)
CancelledStopOnly(K, s) == [k \in Kinds |->
    [j \in Ids |-> IF k \in K /\ k = "stop" /\ j = row[s].legs[k] /\ leg[k][j] = "active"
                   THEN "cancelled" ELSE leg[k][j]]]

(* Owned orphan legs are cancelled after absence has been proved.          *)
Cancelled(K, s) == [k \in Kinds |->
    [j \in Ids |-> IF k \in K /\ j = row[s].legs[k] /\ leg[k][j] = "active"
                   THEN "cancelled" ELSE leg[k][j]]]

CancelOrphans ==
    /\ pc = "zero" /\ ~Visible(Here)
    /\ leg' = Cancelled(Kinds, Here)
    /\ Goto("stage") /\ UNCHANGED <<durable, order, exitOrder, exposure, seen, gate>>

CancelOrphansFails ==
    /\ pc = "zero" /\ \E K \in SUBSET Kinds : leg' = Cancelled(K, Here)
    /\ Fail /\ UNCHANGED <<durable, order, exitOrder, exposure, seen>>

(* Mutant of StageLifecycle: only the exit order proves a lifecycle.       *)
StageByExitOrderOnly ==
    /\ pc = "stage" /\ (cur \in staged \/ proof = "order")
    /\ staged' = staged \cup {cur}
    /\ Goto("resolve") /\ UNCHANGED <<status, row, venue, gate>>

(* A closed lifecycle is staged before the local identity is given up: it  *)
(* is there already, or the exit order proves it, or - when the exit id    *)
(* was never used - one exact close is found in the account's trades.      *)
StageLifecycle ==
    /\ pc = "stage"
    /\ cur \in staged \/ proof # "none"
    /\ staged' = staged \cup {cur}
    /\ Goto("resolve") /\ UNCHANGED <<status, row, venue, gate>>

StageLifecycleFails ==
    /\ pc = "stage" /\ Fail
    /\ staged' \in IF proof = "none" THEN {staged} ELSE {staged, staged \cup {cur}}
    /\ UNCHANGED <<status, row, venue>>

(* One transaction deletes the row and ends the attempt.                   *)
ResolveNoExposure ==
    /\ pc = "resolve"
    /\ status' = [status EXCEPT ![cur] = "resolved_no_exposure"]
    /\ row' = [row EXCEPT ![Here] = Blank]
    /\ gate' = TRUE /\ pc' = "reconcile" /\ cur' = NoId
    /\ UNCHANGED <<staged, venue, recovering, scratch>>

ResolveNoExposureFails == pc = "resolve" /\ Fail /\ UNCHANGED <<durable, venue>>

-----------------------------------------------------------------------------
(* LiveRuntimePortfolioReconciliationService: natural exits, then the      *)
(* portfolio.                                                              *)

(* The gate closes first; an incomplete attempt makes the pass raise. Bot  *)
(* legs left on a symbol with neither position nor row are cancelled.      *)
BeginReconcile ==
    /\ pc = "reconcile" /\ IncompleteIds = {}
    /\ gate' = FALSE /\ pc' = "natural"
    /\ leg' = [k \in Kinds |-> [i \in Ids |->
                 IF leg[k][i] = "active" /\ ~Visible(SymbolOf[i]) /\ ~row[SymbolOf[i]].stored
                 THEN "cancelled" ELSE leg[k][i]]]
    /\ UNCHANGED <<durable, order, exitOrder, exposure, seen, cur, recovering, scratch>>

BeginReconcileFails == pc = "reconcile" /\ Fail /\ UNCHANGED <<durable, venue>>

(* A stored position the venue no longer shows: its legs are cancelled,    *)
(* its lifecycle staged (only a COMPLETED entry, or one already staged),   *)
(* then its row deleted.                                                   *)
MayStage(s) == row[s].entry # NoId =>
    row[s].entry \in staged \/ status[row[s].entry] = "completed"
StagedWith(s) == IF row[s].entry = NoId THEN staged ELSE staged \cup {row[s].entry}

NaturalExit(s) ==
    /\ pc = "natural" /\ row[s].stored /\ ~Visible(s) /\ MayStage(s)
    /\ leg' = Cancelled(Kinds, s) /\ staged' = StagedWith(s)
    /\ row' = [row EXCEPT ![s] = Blank]
    /\ UNCHANGED <<status, order, exitOrder, exposure, seen, volatile>>

(* It may stop after any of its steps.                                     *)
NaturalExitFails(s) ==
    /\ pc = "natural" /\ row[s].stored /\ ~Visible(s)
    /\ \/ leg' \in {Cancelled(K, s) : K \in SUBSET Kinds} /\ UNCHANGED staged
       \/ MayStage(s) /\ leg' = Cancelled(Kinds, s) /\ staged' = StagedWith(s)
    /\ Fail /\ UNCHANGED <<status, row, order, exitOrder, exposure, seen>>

NaturalExitsDone ==
    /\ pc = "natural" /\ \A s \in Symbols : row[s].stored => Visible(s)
    /\ Goto("portfolio") /\ UNCHANGED <<durable, venue, gate>>

(* Every visible position must have its row and both legs active.          *)
Protected(s) == row[s].stored /\ \A k \in Kinds :
                    row[s].legs[k] # NoId /\ leg[k][row[s].legs[k]] = "active"

PortfolioSafe ==
    /\ pc = "portfolio"
    /\ \A s \in Symbols : Visible(s) => Protected(s)
    /\ row' = SyncAll
    /\ gate' = TRUE /\ pc' = "cycle" /\ recovering' = FALSE
    /\ UNCHANGED <<status, staged, venue, cur, scratch>>

PortfolioUnsafe ==
    /\ pc = "portfolio" /\ row' \in {row, SyncAll} /\ Fail
    /\ UNCHANGED <<status, staged, venue>>

-----------------------------------------------------------------------------
(* PositionService.sync() for a view of the operator: every stored row is  *)
(* read, the venue is asked, and what that makes of the rows is written,   *)
(* each time after an await. Bounds: one view at a time, one race.         *)

SyncReads ==
    /\ pc # "down" /\ ~raced /\ sync.at = "idle"
    /\ sync' = [NoSync EXCEPT !.at = "read", !.rows = row]
    /\ UNCHANGED <<durable, venue, volatile, raced>>

SyncAsks ==
    /\ sync.at = "read" /\ sync' = [sync EXCEPT !.at = "asked", !.seen = seen]
    /\ UNCHANGED <<durable, venue, volatile, raced>>

(* Rows it has read and that are not shown are deleted unless they named a *)
(* protection order, shown ones are stored with the metadata it has read;  *)
(* when it raises on the way only deletions are done.                      *)
Shown(s)   == \E i \in sync.seen : SymbolOf[i] = s
Written(s) == IF Shown(s) THEN [sync.rows[s] EXCEPT !.stored = TRUE]
              ELSE IF sync.rows[s].stored /\ \A k \in Kinds : sync.rows[s].legs[k] = NoId
              THEN Blank ELSE row[s]

(* A row is upset by a write that a sync of the rows as they are now would *)
(* not make, or that takes away the identity of an entry.                  *)
Upset(s) == row'[s] # row[s] /\ (row'[s] # Synced(s) \/ row[s].entry # NoId)

(* After a race the runner is taken to go on from the stored row, where it *)
(* goes on from the position in its hands: nothing is said of it then.     *)
SyncSaves ==
    /\ sync.at = "asked" /\ sync' = NoSync
    /\ \E T \in {Symbols} \cup SUBSET {s \in Symbols : ~Shown(s)} :
          row' = [s \in Symbols |-> IF s \in T THEN Written(s) ELSE row[s]]
    /\ raced' = (raced \/ \E s \in Symbols : Upset(s))
    /\ UNCHANGED <<status, staged, venue, volatile>>

-----------------------------------------------------------------------------
(* The venue.                                                              *)

VenueOpens(i) ==
    /\ order[i] = "sent" /\ order' = [order EXCEPT ![i] = "open"]
    /\ UNCHANGED <<durable, exitOrder, exposure, seen, leg, volatile>>

VenueFills(i) ==
    /\ order[i] \in {"sent", "open"} /\ order' = [order EXCEPT ![i] = "filled"]
    /\ exposure' = exposure \cup {i}
    /\ UNCHANGED <<durable, exitOrder, seen, leg, volatile>>

VenueKills(i) ==
    /\ order[i] \in {"sent", "open"} /\ order' = [order EXCEPT ![i] = "dead"]
    /\ UNCHANGED <<durable, exitOrder, exposure, seen, leg, volatile>>

(* Position reads trail the executions.                                    *)
VenuePublishes ==
    /\ seen # exposure /\ seen' = exposure
    /\ UNCHANGED <<durable, order, exitOrder, exposure, leg, volatile>>

(* A position ends: a leg fires, or the operator or a liquidation closes   *)
(* it; the venue may or may not sweep the legs that are left.              *)
VenueCloses(i) ==
    /\ i \in exposure /\ exposure' = exposure \ {i}
    /\ \E fired \in SUBSET Kinds, swept \in BOOLEAN :
         /\ Cardinality(fired) <= 1
         /\ \A k \in fired : \E j \in Ids : leg[k][j] = "active" /\ SymbolOf[j] = SymbolOf[i]
         /\ leg' = [k \in Kinds |-> [j \in Ids |->
                      IF leg[k][j] # "active" \/ SymbolOf[j] # SymbolOf[i] THEN leg[k][j]
                      ELSE IF k \in fired THEN "filled"
                      ELSE IF swept THEN "cancelled" ELSE "active"]]
    /\ UNCHANGED <<durable, order, exitOrder, seen, volatile>>

-----------------------------------------------------------------------------
EnterStep ==
    \/ BeginCycle \/ PreflightFails \/ SyncPortfolio \/ SyncPortfolioFails
    \/ PersistBlocked \/ Submit \/ SubmitAccepted \/ SubmitRefused
    \/ SubmitUnknown \/ SubmitFails \/ PersistRefused
    \/ RequeryFilled \/ RequeryDead \/ RequeryAgain \/ RequeryFails
    \/ Acknowledge \/ AcknowledgeFails \/ ObserveEntry \/ ObserveEntryFails
    \/ SaveRow \/ SaveRowFails
    \/ \E i \in Ids : Reserve(i) \/ ReserveFails(i)

ProtectStep ==
    \/ Inspect \/ InspectFails \/ PlaceLeg \/ PlaceLegFails
    \/ RefreshLeg \/ PostLeg \/ PostLegFails \/ PlanNoLongerValid \/ Complete \/ CompleteFails

RecoverStep ==
    \/ NothingToRecover \/ RecoverVisible \/ RecoverClosed \/ RecoverNotVisible
    \/ ExitLookup \/ ExitLookupFails \/ ExitGone \/ ExitPost \/ ExitPriceBand
    \/ ExitPostFails \/ ExitCheck \/ CancelOrphans \/ CancelOrphansFails
    \/ StageLifecycle \/ StageLifecycleFails
    \/ ResolveNoExposure \/ ResolveNoExposureFails
    \/ \E i \in Ids : RecoverAcknowledged(i) \/ RecoverRejected(i)

ReconcileStep ==
    \/ BeginReconcile \/ BeginReconcileFails \/ NaturalExitsDone
    \/ PortfolioSafe \/ PortfolioUnsafe
    \/ \E s \in Symbols : NaturalExit(s) \/ NaturalExitFails(s)

VenueStep ==
    \/ VenuePublishes
    \/ \E i \in Ids : VenueOpens(i) \/ VenueFills(i) \/ VenueKills(i) \/ VenueCloses(i)

RunnerStep == EnterStep \/ ProtectStep \/ RecoverStep \/ ReconcileStep
SyncStep   == SyncReads \/ SyncAsks \/ SyncSaves

Next ==
    \/ (Restart \/ RunnerStep \/ VenueStep) /\ UNCHANGED <<sync, raced>>
    \/ Crash \/ SyncStep

Spec == Init /\ [][Next]_vars

-----------------------------------------------------------------------------
(* Properties.                                                             *)

SyncOK ==
    /\ raced \in BOOLEAN
    /\ sync \in [at : {"idle", "read", "asked"}, rows : [Symbols -> Row], seen : SUBSET Ids]

(* Every variable stays in its type.                                       *)
TypeOK ==
    /\ status \in [Ids -> Status] /\ row \in [Symbols -> Row] /\ staged \subseteq Ids
    /\ order \in [Ids -> OrderState] /\ exitOrder \subseteq Ids
    /\ exposure \subseteq Ids /\ seen \subseteq Ids
    /\ leg \in [Kinds -> [Ids -> LegState]]
    /\ pc \in Pcs /\ cur \in Ids \cup {NoId} /\ gate \in BOOLEAN
    /\ recovering \in BOOLEAN /\ tries \in 0 .. Budget - 1
    /\ missing \subseteq Kinds /\ proof \in {"none", "lookup", "order"}
    /\ SyncOK

(* At no time are two attempts incomplete: what recovery needs in order to *)
(* find "the sole incomplete attempt" after any crash.                     *)
SingleIncomplete == \A i, j \in IncompleteIds : i = j

(* An order that can still execute is always backed by an incomplete row   *)
(* on disk, and no terminal verdict is contradicted by the venue, now or   *)
(* later: a rejected or blocked entry never executes, a completed or       *)
(* resolved one did.                                                       *)
VerdictIsTrue == \A i \in Ids :
    /\ order[i] \in {"sent", "open"} => status[i] \in Incomplete
    /\ status[i] \in Blocked \cup {"absent"} => order[i] = "none"
    /\ status[i] = "rejected" => order[i] = "dead"
    /\ status[i] \in {"completed", "resolved_no_exposure"} => order[i] = "filled"

(* The venue never holds two entries of one symbol, nor more entries than  *)
(* the capacity, however late an ambiguous order executes.                 *)
ExposureBounded ==
    /\ \A i, j \in exposure : SymbolOf[i] = SymbolOf[j] => i = j
    /\ Cardinality(exposure) <= MaxOpen

(* Exposure is never unattended: the entry is still incomplete, so the     *)
(* next recovery takes it up, or it is completed, stored under its own id  *)
(* and both protection legs on its row are live at the venue. It holds     *)
(* until a view of the operator upsets a row.                              *)
NoNakedExposure == ~raced => \A i \in exposure :
    \/ status[i] \in Incomplete
    \/ status[i] = "completed" /\ row[SymbolOf[i]].entry = i /\ Protected(SymbolOf[i])

(* While the process runs, an open gate means that nothing is in doubt: no *)
(* attempt is incomplete and, until a view of the operator upsets a row,   *)
(* every open position is protected.                                       *)
GateMeansSettled ==
    gate /\ pc # "down" =>
        IncompleteIds = {} /\ (~raced => \A i \in exposure : Protected(SymbolOf[i]))

(* A live leg of a symbol is named by the symbol's row, so that cleanup,   *)
(* which works from the row, can find it - until a view of the operator    *)
(* upsets a row.                                                           *)
NoOrphanLeg == ~raced => \A k \in Kinds, i \in Ids :
    leg[k][i] = "active" => row[SymbolOf[i]].stored /\ row[SymbolOf[i]].legs[k] = i

(* A resolved entry is closed at the venue, its lifecycle is staged and it *)
(* left no leg behind, unless a view of the operator upset its row.        *)
ResolvedIsClosed == \A i \in Ids :
    status[i] = "resolved_no_exposure" =>
        /\ i \notin exposure /\ i \in staged
        /\ ~raced => \A k \in Kinds : leg[k][i] # "active"

(* A row is not deleted before the lifecycle of the entry it names is      *)
(* staged, unless a view of the operator upsets it.                        *)
StagedBeforeDeletion ==
    [][\A s \in Symbols :
         ~raced' /\ row[s].stored /\ ~row'[s].stored /\ row[s].entry # NoId
             => row[s].entry \in staged']_vars

(* Until a view of the operator upsets a row, every entry that executed    *)
(* can still be accounted for: its attempt is incomplete, its position is  *)
(* open, a row names it, or its lifecycle is staged. (PositionService      *)
(* retains the row of a closed position for natural-exit reconciliation,   *)
(* which owns the final durable deletion.)                                 *)
FilledEntryAccounted == ~raced => \A i \in Ids :
    order[i] = "filled" =>
        \/ status[i] \in Incomplete \/ i \in exposure \/ i \in staged
        \/ row[SymbolOf[i]].entry = i

(* The durable attempts and the venue's orders implement the abstract      *)
(* ledger: at most one entry is owned, each is sent once and only while    *)
(* owned, and every verdict agrees with the venue for good.                *)
VerdictOf(i) ==
    IF status[i] \in Blocked THEN "unsent"
    ELSE IF status[i] = "rejected" THEN "refused"
    ELSE IF status[i] \in {"completed", "resolved_no_exposure"} THEN "executed"
    ELSE "pending"

Ledger == INSTANCE AttemptLedger WITH
    MayMiss  <- FALSE,
    owned    <- IncompleteIds,
    sent     <- {i \in Ids : order[i] # "none"},
    executed <- {i \in Ids : order[i] = "filled"},
    verdict  <- [i \in Ids |-> VerdictOf(i)]

ImplementsLedger == Ledger!LedgerSpec
=============================================================================
