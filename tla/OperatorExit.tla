---------------------------- MODULE OperatorExit ----------------------------
(***************************************************************************)
(* OperatorExitService in LIVE mode: the operator asks for one position or *)
(* the whole portfolio to be closed, confirms, and a durable operation is  *)
(* worked off by exact close orders, one at a time. Three tasks may do the *)
(* work: the handler of the confirmation, a background worker it leaves    *)
(* behind when it fails, and the runner's recovery. The process may die    *)
(* anywhere; the venue executes orders and closes positions by itself.     *)
(***************************************************************************)
EXTENDS Naturals, FiniteSets

CONSTANTS
    Symbols,        \* markets
    Orders,         \* client order ids of close attempts
    MaxFaults,    \* bound on calls that fail or are left in doubt
    MaxCrashes,   \* bound on ends of the process
    MaxEntries,   \* bound on positions entered
    MaxRequests   \* bound on requests of the operator

ASSUME SymbolAssumption == Symbols # {}
ASSUME BoundAssumption ==
    MaxFaults \in Nat /\ MaxCrashes \in Nat /\ MaxEntries \in Nat /\ MaxRequests \in Nat

VARIABLES
    op,         \* durable: the latest operation
    attempt,    \* durable: the close attempts
    row,        \* durable: symbols with a stored position
    staged,     \* durable: rows whose lifecycle is staged as an operator exit
    policy,     \* durable: the policy switch has been committed
    exposure,   \* venue: symbols with an open position
    order,      \* venue: what became of each close order
    byExit,     \* venue: rows whose position a close order has closed
    control,    \* runtime control: paused, reserved, ready
    request,    \* the operator's pending request
    runner,     \* what the trading runner is doing
    pc,         \* where each worker is
    lock,       \* who holds _operation_lock
    mishaps,    \* history: what may upset the reservation of the runtime
    spent       \* faults, crashes, entries and requests so far

durable == <<op, attempt, row, staged, policy>>
venue   == <<exposure, order, byExit>>
process == <<control, request, runner, pc, lock>>
vars    == <<durable, venue, process, mishaps, spent>>

Workers == {"confirm", "background", "runner"}
NoOne   == "nobody"

(* FLATTENING, RECONCILING and RECOVERY_REQUIRED are told apart by nobody. *)
Statuses  == {"none", "FLATTENING", "SWITCH_PENDING", "COMPLETE", "FAILED"}
Open      == op.status \in {"FLATTENING", "SWITCH_PENDING"}
Locked    == {"attempts", "recover", "flat", "record", "positions", "post",
              "answer", "reconcile", "settle", "complete", "switch"}
Places    == Locked \cup {"idle", "dead", "read", "lock", "reject", "mark"}
AtRest(w) == pc[w] \in {"idle", "dead"}

(* PREPARED, ACKNOWLEDGED, RECONCILING and RECOVERY_REQUIRED attempts are  *)
(* all incomplete.                                                         *)
Incomplete == {i \in Orders : attempt[i].status = "INCOMPLETE"}
Unused     == {i \in Orders : attempt[i].status = "unused"}
Fresh(i)   == i \in Unused /\ i = CHOOSE j \in Unused : TRUE    \* a new uuid
Targets    == exposure \cap op.scope
(* Closing everything stops when something else turns out to be open.      *)
Unconfirmed == op.broad /\ ~(exposure \subseteq op.scope)

NoRequest == [at |-> "none", scope |-> {}, broad |-> FALSE, switch |-> FALSE, resume |-> FALSE]
Running   == [paused |-> FALSE, reserved |-> FALSE, ready |-> TRUE]
Halted    == [paused |-> TRUE, reserved |-> FALSE, ready |-> FALSE]

Init ==
    /\ op = [status |-> "none", scope |-> {}, broad |-> FALSE, switch |-> FALSE]
    /\ attempt = [i \in Orders |-> [status |-> "unused", symbol |-> CHOOSE s \in Symbols : TRUE]]
    /\ row = {} /\ staged = {} /\ policy = FALSE
    /\ exposure = {} /\ order = [i \in Orders |-> "none"]
    /\ byExit = {}
    /\ control = Running /\ request = NoRequest /\ runner = "active"
    /\ pc = [w \in Workers |-> "idle"] /\ lock = NoOne
    /\ mishaps = {} /\ spent = [faults |-> 0, crashes |-> 0, entries |-> 0, requests |-> 0]

Fault == spent.faults < MaxFaults /\ spent' = [spent EXCEPT !.faults = @ + 1]

-----------------------------------------------------------------------------
(* The venue.                                                              *)

Set(i, status)  == order' = [order EXCEPT ![i] = status]

VenueTakes(i) ==
    /\ order[i] = "sent"
    /\ LET s == attempt[i].symbol IN
       \/ /\ s \in exposure /\ exposure' = exposure \ {s}
          /\ byExit' = byExit \cup {s} /\ Set(i, "filled")
          /\ UNCHANGED spent
       \/ Set(i, "dead") /\ UNCHANGED <<exposure, byExit, spent>>
       \/ s \in exposure /\ Fault /\ Set(i, "partial") /\ UNCHANGED <<exposure, byExit>>
    /\ UNCHANGED <<durable, process>>

(* A stop or a target fires.                                               *)
VenueCloses(s) ==
    /\ s \in exposure /\ exposure' = exposure \ {s}
    /\ UNCHANGED <<durable, order, byExit, process, spent>>

-----------------------------------------------------------------------------
(* The runner.                                                             *)

(* A cycle enters a position; a cycle and a reservation exclude each other.*)
Trade(s) ==
    /\ runner = "active" /\ ~control.paused /\ ~control.reserved
    /\ s \notin exposure \cup row /\ spent.entries < MaxEntries
    /\ spent' = [spent EXCEPT !.entries = @ + 1]
    /\ exposure' = exposure \cup {s} /\ row' = row \cup {s}
    /\ UNCHANGED <<op, attempt, staged, policy, order, byExit, process>>

RunnerFails ==
    /\ runner = "active" /\ ~control.paused /\ Fault
    /\ runner' = "recovering"
    /\ control' = [control EXCEPT !.paused = TRUE, !.ready = FALSE]
    /\ UNCHANGED <<durable, venue, request, pc, lock>>

(* Natural-exit reconciliation refuses while a close attempt is open. Rows *)
(* of closed positions are staged as natural exits unless they are staged  *)
(* already, and go.                                                        *)
MayReconcile == Incomplete = {}
Reconciled ==
    /\ row' = row \cap exposure
    /\ staged' = staged \cap exposure /\ byExit' = byExit \cap exposure

RecoverExit ==
    /\ runner = "recovering" /\ Open
    /\ runner' = "exit" /\ pc' = [pc EXCEPT !["runner"] = "read"]
    /\ control' = [control EXCEPT !.paused = TRUE]
    /\ UNCHANGED <<durable, venue, request, lock, spent>>

(* The portfolio is settled and the runtime resumed; under a reservation   *)
(* resume() raises and the runner ends.                                    *)
RecoverPortfolio ==
    /\ runner = "recovering" /\ ~Open /\ MayReconcile /\ Reconciled
    /\ IF control.reserved
       THEN runner' = "ended" /\ \E r \in BOOLEAN : control' = [control EXCEPT !.ready = r]
       ELSE runner' = "active" /\ control' = Running
    /\ UNCHANGED <<op, attempt, policy, exposure, order, request, pc, lock, spent>>

-----------------------------------------------------------------------------
(* The operator: request, cancel, confirm.                                 *)

(* With auto_pause the runtime is paused first; then it is reserved.       *)
Request(scope, broad, switch) ==
    /\ request.at = "none" /\ runner # "down" /\ ~control.reserved
    /\ spent.requests < MaxRequests /\ spent' = [spent EXCEPT !.requests = @ + 1]
    /\ request' = [at |-> "preflight", scope |-> scope, broad |-> broad,
                   switch |-> switch, resume |-> ~control.paused]
    /\ control' = [control EXCEPT !.paused = TRUE, !.reserved = TRUE]
    /\ UNCHANGED <<durable, venue, runner, pc, lock>>

Released(resume) ==
    control' = [control EXCEPT !.reserved = FALSE, !.paused = @ /\ ~(resume /\ control.ready)]

(* Mutant of Preflight: the protection gate is not asked.                  *)
PreflightUngated ==
    /\ request.at = "preflight" /\ UNCHANGED mishaps
    /\ IF /\ MayReconcile
          /\ request.scope # {} /\ request.scope \subseteq exposure
       THEN request' = [request EXCEPT !.at = "pending"] /\ UNCHANGED control
       ELSE request' = NoRequest /\ Released(request.resume)
    /\ UNCHANGED <<durable, venue, runner, pc, lock, spent>>

(* READY, no attempt under way, everything to be closed is still open; the *)
(* request is withdrawn otherwise. Nothing keeps it behind a worker that   *)
(* is still to find out that its operation is over (bound: a fault).       *)
Preflight ==
    /\ request.at = "preflight"
    /\ IF /\ control.ready /\ MayReconcile
          /\ request.scope # {} /\ request.scope \subseteq exposure
       THEN /\ request' = [request EXCEPT !.at = "pending"] /\ UNCHANGED control
            /\ IF \E w \in Workers : pc[w] = "read"
               THEN mishaps' = mishaps \cup {"overtaken"} /\ Fault
               ELSE UNCHANGED <<mishaps, spent>>
       ELSE /\ request' = NoRequest /\ Released(request.resume)
            /\ UNCHANGED <<mishaps, spent>>
    /\ UNCHANGED <<durable, venue, runner, pc, lock>>

(* Cancelled by the operator, or expired.                                  *)
CancelRequest ==
    /\ request.at = "pending" /\ pc["confirm"] = "idle"
    /\ request' = NoRequest /\ Released(request.resume)
    /\ UNCHANGED <<durable, venue, runner, pc, lock, spent>>

(* The operator resumes by hand.                                           *)
Resume ==
    /\ control.paused /\ ~control.reserved /\ control.ready /\ runner # "down"
    /\ control' = [control EXCEPT !.paused = FALSE]
    /\ UNCHANGED <<durable, venue, request, runner, pc, lock, spent>>

NewOperation == [status |-> "FLATTENING", scope |-> request.scope,
                 broad |-> request.broad, switch |-> request.switch]

(* reserve_operation() inserts the row unless one is incomplete.           *)
Confirm ==
    /\ request.at = "pending" /\ pc["confirm"] = "idle" /\ ~Open
    /\ op' = NewOperation /\ policy' = FALSE
    /\ request' = [NoRequest EXCEPT !.resume = request.resume]
    /\ pc' = [pc EXCEPT !["confirm"] = "lock"]
    /\ UNCHANGED <<attempt, row, staged, venue, control, runner, lock, spent>>

(* It raises, before the row is committed or after it; the request stays   *)
(* pending.                                                                *)
ConfirmFails ==
    /\ request.at = "pending" /\ pc["confirm"] = "idle" /\ ~Open /\ Fault
    /\ \/ UNCHANGED <<op, policy, mishaps>>
       \/ op' = NewOperation /\ policy' = FALSE /\ mishaps' = mishaps \cup {"orphaned"}
    /\ UNCHANGED <<attempt, row, staged, venue, process>>

-----------------------------------------------------------------------------
(* The workers.                                                            *)

Goto(w, place) == pc' = [pc EXCEPT ![w] = place]

Leave(w, place) == Goto(w, place) /\ lock' = NoOne

(* recover_until_safe() returns; the runner goes on recovering, with the   *)
(* runtime state cleared first.                                            *)
Ended(w) == runner' = IF w = "runner" THEN "recovering" ELSE runner
ReadyAfter(w, ready) == ready /\ w # "runner"

Read(w) ==
    /\ pc[w] = "read"
    /\ IF Open
       THEN /\ control' = [control EXCEPT !.paused = TRUE, !.reserved = TRUE]
            /\ Goto(w, "lock") /\ UNCHANGED runner
       ELSE /\ Goto(w, "idle") /\ Ended(w)
            /\ control' = [control EXCEPT !.ready = ReadyAfter(w, @)]
    /\ UNCHANGED <<durable, venue, request, lock, spent>>

Acquire(w) ==
    /\ pc[w] = "lock" /\ lock = NoOne /\ lock' = w
    /\ IF op.status = "SWITCH_PENDING"
       THEN Goto(w, "complete") /\ UNCHANGED op
       ELSE op' = [op EXCEPT !.status = "FLATTENING"] /\ Goto(w, "attempts")
    /\ UNCHANGED <<attempt, row, staged, policy, venue, control, request, runner, spent>>

CheckAttempts(w) ==
    /\ pc[w] = "attempts"
    /\ Goto(w, IF Cardinality(Incomplete) > 1 THEN "mark"
               ELSE IF Incomplete # {} THEN "recover" ELSE "positions")
    /\ lock' = IF Cardinality(Incomplete) > 1 THEN NoOne ELSE lock
    /\ UNCHANGED <<durable, venue, control, request, runner, spent>>

(* Mutant of ReserveAttempt: every open position is closed.                *)
ReserveAnyAttempt(w, i, s) ==
    /\ pc[w] = "positions" /\ s \in exposure /\ Fresh(i)
    /\ attempt' = [attempt EXCEPT ![i] = [status |-> "INCOMPLETE", symbol |-> s]]
    /\ control' = [control EXCEPT !.ready = FALSE] /\ Goto(w, "post")
    /\ UNCHANGED <<op, row, staged, policy, venue, request, runner, lock, spent>>

(* Mutant of ReserveAttempt: the id of an attempt that has ended is used   *)
(* again.                                                                  *)
ReserveSameAttempt(w, i, s) ==
    /\ pc[w] = "positions" /\ ~Unconfirmed
    /\ s \in Targets /\ MayReconcile
    /\ attempt' = [attempt EXCEPT ![i] = [status |-> "INCOMPLETE", symbol |-> s]]
    /\ control' = [control EXCEPT !.ready = FALSE] /\ Goto(w, "post")
    /\ UNCHANGED <<op, row, staged, policy, venue, request, runner, lock, spent>>

(* The first target that is still open gets an attempt.                    *)
ReserveAttempt(w, i, s) ==
    /\ pc[w] = "positions" /\ ~Unconfirmed
    /\ s \in Targets /\ Fresh(i) /\ MayReconcile
    /\ attempt' = [attempt EXCEPT ![i] = [status |-> "INCOMPLETE", symbol |-> s]]
    /\ control' = [control EXCEPT !.ready = FALSE] /\ Goto(w, "post")
    /\ UNCHANGED <<op, row, staged, policy, venue, request, runner, lock, spent>>

NothingLeft(w) ==
    /\ pc[w] = "positions" /\ ~Unconfirmed /\ Targets = {} /\ Goto(w, "settle")
    /\ UNCHANGED <<durable, venue, control, request, runner, lock, spent>>

Post(w, i) ==
    /\ pc[w] = "post" /\ i \in Incomplete /\ Set(i, "sent") /\ Goto(w, "answer")
    /\ UNCHANGED <<durable, exposure, byExit, control, request, runner, lock, spent>>

Conclude(i, status) == attempt' = [attempt EXCEPT ![i].status = status]

(* The answer, or a look-up, tells that the order is dead: _ExitRejected.  *)
(* One look-up that does not find it concludes the attempt as well,        *)
(* whether it was never sent or is still on its way: the same REJECTED     *)
(* with another reason, told apart here as NOT_FOUND.                      *)
LearnsRejected(w, i) ==
    /\ i \in Incomplete
    /\ \/ pc[w] \in {"answer", "recover"} /\ order[i] = "dead" /\ Conclude(i, "REJECTED")
       \/ pc[w] = "recover" /\ order[i] \in {"none", "sent"} /\ Conclude(i, "NOT_FOUND")
    /\ Leave(w, "reject")
    /\ UNCHANGED <<op, row, staged, policy, venue, control, request, runner, spent>>

(* The order is acknowledged.                                              *)
LearnsAccepted(w, i) ==
    /\ pc[w] = "answer" /\ i \in Incomplete /\ order[i] \in {"sent", "filled"}
    /\ Goto(w, "recover")
    /\ UNCHANGED <<durable, venue, control, request, runner, lock, spent>>

(* Terminal with a partial execution, or not final yet.                    *)
LearnsPending(w, i) ==
    /\ i \in Incomplete /\ pc[w] \in {"answer", "recover"}
    /\ order[i] = "partial" \/ (order[i] = "sent" /\ pc[w] = "recover")
    /\ Leave(w, "mark")
    /\ UNCHANGED <<durable, venue, control, request, runner, spent>>

LearnsFilled(w, i) ==
    /\ pc[w] = "recover" /\ i \in Incomplete /\ order[i] = "filled"
    /\ Goto(w, "flat")
    /\ UNCHANGED <<durable, venue, control, request, runner, lock, spent>>

(* Mutant of StageExit: what is staged already is not looked at.           *)
StageNothing(w, i) ==
    /\ pc[w] = "flat" /\ i \in Incomplete /\ Goto(w, "record")
    /\ UNCHANGED <<durable, venue, control, request, runner, lock, spent>>

(* Flat and stored, the lifecycle is staged unless it is owned already.    *)
StageExit(w, i) ==
    /\ pc[w] = "flat" /\ i \in Incomplete
    /\ LET s == attempt[i].symbol IN
       IF s \notin exposure /\ s \in row
       THEN /\ staged' = staged \cup {s}
            /\ Goto(w, "record") /\ UNCHANGED lock
       ELSE Leave(w, "mark") /\ UNCHANGED staged
    /\ UNCHANGED <<op, attempt, row, policy, venue, control, request, runner, spent>>

RecordExit(w, i) ==
    /\ pc[w] = "record" /\ i \in Incomplete
    /\ Conclude(i, "COMPLETED") /\ Goto(w, "reconcile")
    /\ UNCHANGED <<op, row, staged, policy, venue, control, request, runner, lock, spent>>

(* Canonical protection and ownership are restored; the gate is READY.     *)
Reconcile(w, place, next) ==
    /\ pc[w] = place /\ MayReconcile /\ Reconciled
    /\ control' = [control EXCEPT !.ready = TRUE] /\ Goto(w, next)
    /\ UNCHANGED <<op, attempt, policy, exposure, order, request, runner, lock, spent>>

(* What a worker does next once its operation is done.                     *)
Proceed(w) == Leave(w, IF w = "confirm" THEN "idle" ELSE "read")

Complete(w) ==
    /\ pc[w] = "complete" /\ ~Unconfirmed /\ Targets = {}
    /\ \/ /\ op.switch
          /\ op' = [op EXCEPT !.status = "SWITCH_PENDING"] /\ Goto(w, "switch")
          /\ UNCHANGED <<control, lock>>
       \/ /\ ~op.switch
          /\ op' = [op EXCEPT !.status = "COMPLETE"]
          /\ Released(w = "confirm" /\ request.resume) /\ Proceed(w)
    /\ UNCHANGED <<attempt, row, staged, policy, venue, request, runner, spent>>

(* The switch is committed and handed to a soft restart, still reserved.   *)
HandOver(w) ==
    /\ pc[w] = "switch" /\ ~policy /\ policy' = TRUE /\ Leave(w, "idle")
    /\ runner' = "restarting"
    /\ UNCHANGED <<op, attempt, row, staged, venue, control, request, spent>>

(* After the restart the policy is the wanted one.                         *)
Switched(w) ==
    /\ pc[w] = "switch" /\ policy
    /\ op' = [op EXCEPT !.status = "COMPLETE"]
    /\ Released(FALSE) /\ Proceed(w)
    /\ UNCHANGED <<attempt, row, staged, policy, venue, request, runner, spent>>

(* Any other error of a step, or a portfolio that is not as confirmed: the *)
(* lock is left and recovery is required.                                  *)
NotAsConfirmed(w) ==
    \/ Unconfirmed /\ pc[w] \in {"positions", "complete"}
    \/ Targets # {} /\ pc[w] = "complete"

StepRaises(w) ==
    /\ lock = w /\ Leave(w, "mark")
    /\ IF NotAsConfirmed(w) THEN UNCHANGED spent ELSE Fault
    /\ UNCHANGED <<durable, venue, control, request, runner>>

(* A proven rejection: protection is restored, the operation has failed.   *)
Reject(w) ==
    /\ pc[w] = "reject" /\ MayReconcile /\ Reconciled
    /\ op' = [op EXCEPT !.status = "FAILED"]
    /\ control' = [control EXCEPT !.ready = ReadyAfter(w, TRUE), !.reserved = FALSE]
    /\ Goto(w, "idle") /\ Ended(w)
    /\ UNCHANGED <<attempt, policy, exposure, order, request, lock, spent>>

RejectFails(w) ==
    /\ pc[w] = "reject" /\ Fault /\ Goto(w, "mark")
    /\ UNCHANGED <<durable, venue, control, request, runner, lock>>

(* The confirmation leaves a background worker behind, which starts anew.  *)
HandOn(w) ==
    IF w = "confirm"
    THEN pc' = [pc EXCEPT ![w] = "idle", !["background"] = IF AtRest("background") THEN "read" ELSE @]
    ELSE Goto(w, "read")

Mark(w) ==
    /\ pc[w] = "mark"
    /\ op' = [op EXCEPT !.status = "FLATTENING"]
    /\ control' = [control EXCEPT !.paused = TRUE, !.ready = FALSE] /\ HandOn(w)
    /\ UNCHANGED <<attempt, row, staged, policy, venue, request, runner, lock, spent>>

(* It raises: the confirmation starts the background worker all the same,  *)
(* a worker of recover_until_safe() ends.                                  *)
Dies(w) ==
    /\ Goto(w, IF w = "runner" THEN "idle" ELSE "dead")
    /\ \E r \in {"recovering", "ended"} : runner' = IF w = "runner" THEN r ELSE runner

MarkFails(w) ==
    /\ pc[w] = "mark" /\ Fault /\ UNCHANGED mishaps
    /\ IF w = "confirm" THEN HandOn(w) /\ UNCHANGED runner ELSE Dies(w)
    /\ UNCHANGED <<durable, venue, control, request, lock>>

(* So it does when its read raises, though the work may be done already.   *)
ReadFails(w) ==
    /\ pc[w] = "read" /\ Fault /\ Dies(w)
    /\ mishaps' = IF Open THEN mishaps ELSE mishaps \cup {"unread"}
    /\ UNCHANGED <<durable, venue, control, request, lock>>

-----------------------------------------------------------------------------
(* The end of the process and its next start.                              *)

Stop ==
    /\ control' = Halted /\ request' = NoRequest /\ runner' = "down"
    /\ pc' = [w \in Workers |-> "idle"] /\ lock' = NoOne

Crash ==
    /\ runner # "down" /\ spent.crashes < MaxCrashes
    /\ spent' = [spent EXCEPT !.crashes = @ + 1] /\ Stop
    /\ UNCHANGED <<durable, venue>>

SoftRestart == runner = "restarting" /\ Stop /\ UNCHANGED <<durable, venue, spent>>

(* Mutant of Start: the gate is not installed for incomplete work.         *)
StartUnreserved ==
    /\ runner = "down" /\ runner' = "recovering"
    /\ UNCHANGED <<durable, venue, control, request, pc, lock, spent>>

(* initialize(), then recovery on behalf of the runner.                    *)
Start ==
    /\ runner = "down" /\ runner' = "recovering"
    /\ control' = [control EXCEPT !.reserved = Open]
    /\ UNCHANGED <<durable, venue, request, pc, lock, spent>>

-----------------------------------------------------------------------------
WorkerStep(w) == UNCHANGED mishaps /\
   (\/ Read(w) \/ Acquire(w) \/ CheckAttempts(w) \/ NothingLeft(w) \/ Complete(w)
    \/ HandOver(w) \/ Switched(w) \/ Reject(w) \/ Mark(w)
    \/ Reconcile(w, "reconcile", "positions") \/ Reconcile(w, "settle", "complete")
    \/ \E i \in Orders :
          \/ Post(w, i) \/ LearnsRejected(w, i) \/ LearnsAccepted(w, i)
          \/ LearnsPending(w, i) \/ LearnsFilled(w, i)
          \/ StageExit(w, i) \/ RecordExit(w, i)
          \/ \E s \in Symbols : ReserveAttempt(w, i, s))

WorkerFault(w) ==
    \/ UNCHANGED mishaps /\ (StepRaises(w) \/ RejectFails(w))
    \/ MarkFails(w) \/ ReadFails(w)

RunnerStep == UNCHANGED mishaps /\ (RecoverExit \/ RecoverPortfolio \/ SoftRestart \/ Start)

Operator ==
    \/ Preflight \/ ConfirmFails
    \/ /\ UNCHANGED mishaps
       /\ \/ \E s \in Symbols : Request({s}, FALSE, FALSE)
          \/ \E switch \in BOOLEAN : Request(exposure, TRUE, switch)
          \/ CancelRequest \/ Resume \/ Confirm

Venue == UNCHANGED mishaps /\ \E i \in Orders : VenueTakes(i)

Next ==
    \/ \E w \in Workers : WorkerStep(w) \/ WorkerFault(w)
    \/ RunnerStep \/ Operator \/ Venue
    \/ UNCHANGED mishaps /\ (RunnerFails \/ Crash \/ \E s \in Symbols : Trade(s) \/ VenueCloses(s))

Fairness ==
    /\ \A w \in Workers : WF_vars(WorkerStep(w))
    /\ WF_vars(RunnerStep) /\ WF_vars(Preflight) /\ WF_vars(Venue)

Spec == Init /\ [][Next]_vars /\ Fairness

-----------------------------------------------------------------------------
(* Properties.                                                             *)

Up == runner # "down"

(* Every variable stays in its type, and the lock is held exactly by the   *)
(* worker that is inside _run_operation().                                 *)
TypeOK ==
    /\ op \in [status : Statuses, scope : SUBSET Symbols, broad : BOOLEAN, switch : BOOLEAN]
    /\ attempt \in [Orders -> [status : {"unused", "INCOMPLETE", "REJECTED", "NOT_FOUND", "COMPLETED"},
                               symbol : Symbols]]
    /\ mishaps \subseteq {"overtaken", "orphaned", "unread"}
    /\ row \subseteq Symbols /\ exposure \subseteq row /\ staged \subseteq row /\ policy \in BOOLEAN
    /\ order \in [Orders -> {"none", "sent", "filled", "dead", "partial"}]
    /\ byExit \subseteq row
    /\ control \in [paused : BOOLEAN, reserved : BOOLEAN, ready : BOOLEAN]
    /\ request \in [at : {"none", "preflight", "pending"}, scope : SUBSET Symbols,
                    broad : BOOLEAN, switch : BOOLEAN, resume : BOOLEAN]
    /\ runner \in {"active", "recovering", "exit", "restarting", "ended", "down"}
    /\ pc \in [Workers -> Places] /\ lock \in Workers \cup {NoOne}
    /\ \A w \in Workers : pc[w] \in Locked <=> lock = w

(* The handler, the background worker and the runner never work on an      *)
(* operation together, and whoever does holds the paused runtime, unless a *)
(* reservation raised with its row on disk, or the last read of a worker   *)
(* whose operation is over raised or was overtaken by the next request.    *)
AtWork(w) == ~AtRest(w) /\ pc[w] # "read"

OneWorkerUnderReservation == mishaps = {} => \A w \in Workers : AtWork(w) =>
    /\ control.reserved /\ control.paused
    /\ \A v \in Workers \ {w} : ~AtWork(v)

(* Given up because one look-up did not find it, an order may still        *)
(* execute.                                                                *)
GivenUp(i) == attempt[i].status = "NOT_FOUND"

(* Once the runtime is given back no close order is left that may still    *)
(* execute, unless one look-up did not find it.                            *)
ReleasedIsSettled ==
    Up /\ ~control.reserved /\ mishaps = {} =>
        \A i \in Orders : order[i] \in {"sent", "partial"} => GivenUp(i)

(* "A proven non-executed terminal failure" (the docstring of              *)
(* _mark_failed()): an attempt that has failed has not executed, a         *)
(* completed one has. Refuted by a run: a look-up that comes too early.    *)
ExitVerdictIsTrue == \A i \in Orders :
    /\ attempt[i].status \in {"REJECTED", "NOT_FOUND"} => order[i] \in {"none", "dead"}
    /\ attempt[i].status = "COMPLETED" => order[i] = "filled"

(* The close attempts and the venue's orders implement the ledger of       *)
(* attempts, in which an attempt may be given up as missing: one is owned  *)
(* at a time, its order is sent once and while it is owned, it executes    *)
(* while it is owned or missing, and every other verdict agrees with the   *)
(* venue for good, whichever worker has written it.                        *)
VerdictOf(i) ==
    IF attempt[i].status = "COMPLETED" THEN "executed"
    ELSE IF attempt[i].status = "REJECTED" THEN "refused"
    ELSE IF GivenUp(i) THEN "missing" ELSE "pending"

Attempted == INSTANCE AttemptLedger WITH
    Ids <- Orders, MayMiss <- TRUE, owned <- Incomplete,
    sent <- {i \in Orders : order[i] # "none"},
    executed <- {i \in Orders : order[i] = "filled"},
    verdict <- [i \in Orders |-> VerdictOf(i)]

ExitsImplementLedger == Attempted!LedgerSpec

(* A closed position leaves the books as an operator exit exactly when a   *)
(* close order closed it, unless an order given up as missing did.         *)
ClosedLate(s) == \E i \in Orders : GivenUp(i) /\ order[i] = "filled" /\ attempt[i].symbol = s

ExitIsAttributed == [][\A s \in row \ row' :
    /\ s \in staged => s \in byExit
    /\ s \in byExit => s \in staged \/ ClosedLate(s)]_vars

(* Close orders are sent for confirmed symbols only, one at a time but for *)
(* those given up as missing, and while nothing else can trade.            *)
ExitsOnlyConfirmed == [][\A i \in Orders :
  mishaps = {} /\ order[i] = "none" /\ order'[i] # "none" =>
    /\ Open /\ attempt[i].symbol \in op.scope
    /\ control.reserved /\ control.paused
    /\ \A j \in Orders : order[j] = "sent" => GivenUp(j)]_vars

(* "Recover confirmed work indefinitely" (the docstring of                 *)
(* recover_until_safe()): confirmed work ends, unless a close is left      *)
(* partly executed, the close attempts of the instance run out, or its     *)
(* reservation raised. Refuted by a run: a worker whose own bookkeeping    *)
(* raises does not go on.                                                  *)
ConfirmedWorkEnds == Open ~>
    \/ ~Open \/ Unused = {} \/ "orphaned" \in mishaps
    \/ \E i \in Orders : order[i] = "partial"
=============================================================================
