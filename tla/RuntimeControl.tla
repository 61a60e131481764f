--------------------------- MODULE RuntimeControl ---------------------------
(***************************************************************************)
(* TradingRuntimeControl, the process-local switchboard of the bot, under  *)
(* the actors that share it: the operator's Telegram commands, a runtime   *)
(* risk-limit update, an operator exit, and the runner task of autonomous  *)
(* LIVE trading with its cycles, health checks and recovery.               *)
(*                                                                         *)
(* Its methods do not await, so each call is one step; the runner's steps  *)
(* end where it does await.                                                *)
(***************************************************************************)
EXTENDS Naturals

CONSTANTS Markets,      \* values of the symbol and interval settings
          Strategies    \* StrategyType

(* What a position is managed under. A market stands for a symbol with its *)
(* interval: the two settings follow the same rules.                       *)
Context    == [market : Markets, strategy : Strategies]
Portfolios == {C \in SUBSET Context : \A c, d \in C : c.market = d.market => c = d}

Selections == {"exchange", "market_type", "market", "strategy"}
RunnerPcs  == {"waiting", "woken", "cycling", "adopting", "trading", "recovering",
               "cleared", "recovered", "stopped", "abandoned"}

VARIABLES
    active,          \* _active_event is set
    gate,            \* _position_protection_ready
    cycle,           \* _cycle_in_progress
    riskChange,      \* _risk_limit_change_in_progress
    operatorExit,    \* _operator_exit_in_progress: "none", or reserved for an exit
                     \* that awaits its confirmation or is durable
    wasRunning,      \* the runtime ran when the operator exit was requested
    contexts,        \* _runtime_contexts
    authorization,   \* contexts of _live_management_authorization; {} is None
    chosen,          \* the configured market and strategy
    confirmed,       \* the confirmed startup selections
    stream,          \* "off", "silent" (enabled, no tick yet) or "ticking"
    runnerTask,          \* where the runner task is
    plan             \* the portfolio its reconciliation has read

controlVars == <<active, gate, cycle, riskChange, operatorExit, wasRunning, contexts,
          authorization, chosen, confirmed, stream, runnerTask, plan>>
setup  == <<chosen, confirmed, stream>>
owners == <<cycle, riskChange, operatorExit, wasRunning>>

(* The process after startup recovery: active with the portfolio it has    *)
(* authorized, or paused because recovery did not succeed. An operator exit*)
(* incomplete on disk is reserved again before any adapter runs.           *)
ControlInit ==
    /\ active \in BOOLEAN /\ gate \in BOOLEAN /\ cycle = FALSE /\ riskChange = FALSE
    /\ operatorExit \in {"none", "durable"} /\ wasRunning = FALSE
    /\ contexts \in Portfolios /\ authorization = contexts
    /\ active => gate /\ operatorExit = "none"
    /\ ~active => contexts = {}
    /\ chosen \in Context /\ confirmed = {} /\ stream = "off"
    /\ runnerTask = "waiting" /\ plan = {}

(* set_runtime_contexts: the singular selections and stream state are      *)
(* reset unless exactly one context is installed, and an authorization that*)
(* no longer matches is dropped.                                           *)
Single(C) == \E c \in C : C = {c}
KeepMatching(C) == authorization' = IF authorization = C THEN C ELSE {}
SetContexts(C) ==
    /\ contexts' = C
    /\ IF Single(C) THEN UNCHANGED <<confirmed, stream>>
       ELSE confirmed' = confirmed \ {"market", "strategy"} /\ stream' = "off"

StartupComplete == confirmed = Selections /\ stream = "ticking" /\ gate

(* Whether resume() and resume_global_cycle() activate a paused runtime,   *)
(* given the operator-exit reservation they find.                          *)
MayResume(exit) ==
    /\ ~riskChange /\ exit = "none"
    /\ IF contexts # {} /\ authorization # {}
       THEN authorization = contexts /\ gate ELSE StartupComplete
MayResumeGlobal(exit) == ~riskChange /\ exit = "none" /\ gate

-----------------------------------------------------------------------------
(* The operator, paused or not.                                            *)

Pause == active /\ active' = FALSE
         /\ UNCHANGED <<gate, owners, contexts, authorization, setup, runnerTask, plan>>

ResumeRuntime == ~active /\ MayResume(operatorExit) /\ active' = TRUE
          /\ UNCHANGED <<gate, owners, contexts, authorization, setup, runnerTask, plan>>

PausedConfiguration == ~active /\ ~cycle /\ ~riskChange /\ operatorExit = "none" /\ stream = "off"

ConfirmSelection(what) ==
    /\ PausedConfiguration /\ what \in {"exchange", "market_type"}
    /\ confirmed' = confirmed \cup {what}
    /\ UNCHANGED <<active, gate, owners, contexts, authorization, chosen, stream, runnerTask, plan>>

(* select_symbol, select_interval: a single installed context follows.     *)
Current(f) == IF Single(contexts) THEN (CHOOSE c \in contexts : TRUE)[f] ELSE chosen[f]

SelectMarket(m) ==
    /\ PausedConfiguration
    /\ confirmed' = confirmed \cup {"market"}
    /\ IF m = Current("market") THEN UNCHANGED <<chosen, contexts>>
       ELSE /\ chosen' = [chosen EXCEPT !.market = m]
            /\ contexts' = IF Single(contexts)
                           THEN {[c EXCEPT !.market = m] : c \in contexts} ELSE contexts
    /\ UNCHANGED <<active, gate, owners, authorization, stream, runnerTask, plan>>

(* Mutant of SelectStrategy: accepted while a cycle runs.                  *)
SelectStrategyInCycle(t) ==
    /\ ~riskChange /\ operatorExit = "none"
    /\ confirmed' = confirmed \cup {"strategy"}
    /\ IF t = Current("strategy") THEN UNCHANGED <<chosen, contexts>>
       ELSE /\ chosen' = [chosen EXCEPT !.strategy = t]
            /\ contexts' = {[c EXCEPT !.strategy = t] : c \in contexts}
    /\ UNCHANGED <<active, gate, owners, authorization, stream, runnerTask, plan>>

(* select_strategy is not refused while active or streaming, and every     *)
(* installed context follows.                                              *)
SelectStrategy(t) ==
    /\ ~cycle /\ ~riskChange /\ operatorExit = "none"
    /\ confirmed' = confirmed \cup {"strategy"}
    /\ IF t = Current("strategy") THEN UNCHANGED <<chosen, contexts>>
       ELSE /\ chosen' = [chosen EXCEPT !.strategy = t]
            /\ contexts' = {[c EXCEPT !.strategy = t] : c \in contexts}
    /\ UNCHANGED <<active, gate, owners, authorization, stream, runnerTask, plan>>

(* set_stream_enabled and record_stream_tick.                              *)
Stream(next) ==
    /\ <<stream, next>> \in {<<"off", "silent">>, <<"silent", "ticking">>,
                             <<"silent", "off">>, <<"ticking", "off">>}
    /\ stream' = next
    /\ UNCHANGED <<active, gate, owners, contexts, authorization, chosen, confirmed, runnerTask, plan>>

-----------------------------------------------------------------------------
(* The two reservations.                                                   *)

BeginRiskLimitChange ==
    /\ ~active /\ ~cycle /\ ~riskChange /\ operatorExit = "none"
    /\ riskChange' = TRUE
    /\ UNCHANGED <<active, gate, cycle, operatorExit, wasRunning, contexts,
                   authorization, setup, runnerTask, plan>>

EndRiskLimitChange ==
    /\ riskChange /\ riskChange' = FALSE
    /\ UNCHANGED <<active, gate, cycle, operatorExit, wasRunning, contexts,
                   authorization, setup, runnerTask, plan>>

(* An exit request may pause the runtime itself before it reserves it.     *)
RequestOperatorExit(autoPause) ==
    /\ autoPause \/ ~active
    /\ ~cycle /\ ~riskChange /\ operatorExit = "none"
    /\ active' = FALSE /\ operatorExit' = "pending" /\ wasRunning' = active
    /\ UNCHANGED <<gate, cycle, riskChange, contexts, authorization, setup, runnerTask, plan>>

(* Refused by a cycle in progress, but the pause has already happened.     *)
OperatorExitRefused ==
    /\ active /\ (cycle \/ riskChange \/ operatorExit # "none") /\ active' = FALSE
    /\ UNCHANGED <<gate, owners, contexts, authorization, setup, runnerTask, plan>>

(* The confirmed exit is durable before it touches anything.               *)
ConfirmOperatorExit ==
    /\ operatorExit = "pending" /\ operatorExit' = "durable"
    /\ UNCHANGED <<active, gate, cycle, riskChange, wasRunning, contexts,
                   authorization, setup, runnerTask, plan>>

(* Its own reconciliation, before it can end, succeeds or fails closed.    *)
OperatorExitReconciles(C) ==
    /\ operatorExit = "durable" /\ SetContexts(C)
    /\ \/ authorization' = C /\ gate' = TRUE /\ UNCHANGED active
       \/ authorization' = {} /\ gate' = FALSE /\ active' = FALSE
    /\ UNCHANGED <<owners, chosen, runnerTask, plan>>

(* Completed, failed, cancelled or expired: the reservation is released,   *)
(* and a runtime that was running is resumed, or else resumed globally -   *)
(* unless the background worker ended the exit, which does not know.       *)
EndOperatorExit ==
    /\ operatorExit # "none" /\ operatorExit' = "none" /\ wasRunning' = FALSE
    /\ \/ UNCHANGED active
       \/ wasRunning /\ (MayResume("none") \/ MayResumeGlobal("none")) /\ active' = TRUE
    /\ UNCHANGED <<gate, cycle, riskChange, contexts, authorization, setup, runnerTask, plan>>

-----------------------------------------------------------------------------
(* The runner.                                                             *)

Healthy == contexts = {} \/ authorization = contexts

(* wait_until_active returns; the runtime may be paused again before the   *)
(* task runs on.                                                           *)
Wake ==
    /\ runnerTask = "waiting" /\ active /\ runnerTask' = "woken"
    /\ UNCHANGED <<active, gate, owners, contexts, authorization, setup, plan>>

FailClosed == gate' = FALSE /\ active' = FALSE

(* A health failure: recoverable only under an exact authorization.        *)
HealthFails ==
    /\ runnerTask = "woken" /\ FailClosed
    /\ runnerTask' = IF Healthy THEN "recovering" ELSE "stopped"
    /\ UNCHANGED <<owners, contexts, authorization, setup, plan>>

(* Mutant of BeginCycle: only another cycle refuses it.                    *)
BeginCycleUnreserved ==
    /\ runnerTask = "woken" /\ Healthy
    /\ IF ~cycle THEN cycle' = TRUE /\ runnerTask' = "cycling"
       ELSE runnerTask' = "waiting" /\ UNCHANGED cycle
    /\ UNCHANGED <<active, gate, riskChange, operatorExit, wasRunning, contexts,
                   authorization, setup, plan>>

BeginCycle ==
    /\ runnerTask = "woken" /\ Healthy
    /\ IF ~cycle /\ ~riskChange /\ operatorExit = "none"
       THEN cycle' = TRUE /\ runnerTask' = "cycling"
       ELSE runnerTask' = "waiting" /\ UNCHANGED cycle
    /\ UNCHANGED <<active, gate, riskChange, operatorExit, wasRunning, contexts,
                   authorization, setup, plan>>

(* Reconciliation closes the gate, reads the portfolio and installs its    *)
(* contexts, then - streams and monitors ready - authorizes exactly them.  *)
CycleReconciles(C) ==
    /\ runnerTask = "cycling" /\ gate' = FALSE /\ plan' = C
    /\ SetContexts(C) /\ KeepMatching(C)
    /\ runnerTask' = "adopting"
    /\ UNCHANGED <<active, owners, chosen>>

CycleAdopts ==
    /\ runnerTask = "adopting" /\ contexts = plan
    /\ authorization' = plan /\ gate' = TRUE /\ runnerTask' = "trading"
    /\ UNCHANGED <<active, owners, contexts, setup, plan>>

(* An entry closes the gate and opens it when its outcome is durable; the  *)
(* portfolio it leaves is reconciled again.                                *)
CycleEnters ==
    /\ runnerTask = "trading" /\ gate' = ~gate
    /\ runnerTask' \in IF gate THEN {"trading"} ELSE {"trading", "cycling"}
    /\ UNCHANGED <<active, owners, contexts, authorization, setup, plan>>

EndCycle ==
    /\ runnerTask = "trading" /\ runnerTask' = "waiting" /\ cycle' = FALSE
    /\ UNCHANGED <<active, gate, riskChange, operatorExit, wasRunning, contexts,
                   authorization, setup, plan>>

(* An unsafe cycle ends, then the runner pauses and recovers.              *)
CycleUnsafe ==
    /\ runnerTask \in {"cycling", "adopting", "trading"}
    /\ cycle' = FALSE /\ FailClosed /\ runnerTask' = "recovering"
    /\ authorization' \in {authorization, {}}
    /\ UNCHANGED <<riskChange, operatorExit, wasRunning, contexts, setup, plan>>

(* Recovery first sees a durable operator exit through, then lets go of    *)
(* everything the process holds.                                           *)
RecoverClears ==
    /\ runnerTask = "recovering" /\ operatorExit # "durable"
    /\ FailClosed /\ SetContexts({}) /\ KeepMatching({}) /\ runnerTask' = "cleared"
    /\ UNCHANGED <<owners, chosen, plan>>

RecoverReconciles(C) ==
    /\ runnerTask = "cleared" /\ gate' = FALSE /\ plan' = C
    /\ SetContexts(C) /\ KeepMatching(C)
    /\ runnerTask' = "recovered"
    /\ UNCHANGED <<active, owners, chosen>>

(* The reconciled portfolio is authorized and the runtime activated: a     *)
(* reservation makes the activation raise, which ends the recovery loop.   *)
RecoverAdopts ==
    /\ runnerTask = "recovered" /\ contexts = plan
    /\ authorization' = plan /\ gate' = TRUE
    /\ IF riskChange \/ operatorExit # "none"
       THEN runnerTask' = "abandoned" /\ UNCHANGED active
       ELSE runnerTask' = "waiting" /\ active' = TRUE
    /\ UNCHANGED <<owners, contexts, setup, plan>>

(* The portfolio is authorized but the runtime's health is not: the runner *)
(* stays paused and retries, or gives up for the operator to look at it.   *)
RecoverUnhealthy ==
    /\ runnerTask = "recovered" /\ contexts = plan
    /\ authorization' = plan /\ FailClosed /\ runnerTask' \in {"recovering", "stopped"}
    /\ UNCHANGED <<owners, contexts, setup, plan>>

(* Any failure, or a strategy selected meanwhile, closes and retries.      *)
RecoverFails ==
    /\ runnerTask \in {"cleared", "recovered"} /\ FailClosed /\ authorization' = {}
    /\ runnerTask' = "recovering"
    /\ UNCHANGED <<owners, contexts, setup, plan>>

-----------------------------------------------------------------------------
OperatorStep ==
    \/ Pause \/ ResumeRuntime
    \/ \E what \in Selections : ConfirmSelection(what)
    \/ \E m \in Markets : SelectMarket(m)
    \/ \E t \in Strategies : SelectStrategy(t)
    \/ \E next \in {"off", "silent", "ticking"} : Stream(next)

ReservationStep ==
    \/ BeginRiskLimitChange \/ EndRiskLimitChange
    \/ \E autoPause \in BOOLEAN : RequestOperatorExit(autoPause)
    \/ OperatorExitRefused \/ ConfirmOperatorExit \/ EndOperatorExit
    \/ \E C \in Portfolios : OperatorExitReconciles(C)

RunnerTaskStep ==
    \/ Wake \/ HealthFails \/ BeginCycle \/ CycleAdopts \/ CycleEnters \/ EndCycle
    \/ CycleUnsafe \/ RecoverClears \/ RecoverAdopts
    \/ RecoverUnhealthy \/ RecoverFails
    \/ \E C \in Portfolios : CycleReconciles(C) \/ RecoverReconciles(C)

ControlNext == OperatorStep \/ ReservationStep \/ RunnerTaskStep

ControlSpec == ControlInit /\ [][ControlNext]_controlVars

-----------------------------------------------------------------------------
(* Properties.                                                             *)

(* Every variable stays in its type; no portfolio manages one market twice.*)
ControlTypeOK ==
    /\ active \in BOOLEAN /\ gate \in BOOLEAN /\ cycle \in BOOLEAN
    /\ riskChange \in BOOLEAN /\ operatorExit \in {"none", "pending", "durable"}
    /\ wasRunning \in BOOLEAN
    /\ contexts \in Portfolios /\ authorization \in Portfolios
    /\ chosen \in Context /\ confirmed \subseteq Selections
    /\ stream \in {"off", "silent", "ticking"}
    /\ runnerTask \in RunnerPcs /\ plan \in Portfolios

(* A trading cycle, a risk-limit change and an operator exit never own the *)
(* runtime together, although a cycle may begin after a pause; nothing     *)
(* activates it while one of the latter two does; and the cycle lock is    *)
(* held exactly while the runner is inside a cycle: no failure leaves it.  *)
OneOwner ==
    /\ ~(cycle /\ riskChange)
    /\ operatorExit # "none" => ~cycle /\ ~riskChange
    /\ riskChange \/ operatorExit # "none" => ~active
    /\ cycle <=> runnerTask \in {"cycling", "adopting", "trading"}

(* While a cycle may send entries, the portfolio it manages is the one its *)
(* reconciliation read, exactly authorized, whatever was selected or       *)
(* requested meanwhile; and an open gate never covers a portfolio nobody   *)
(* was authorized to manage.                                               *)
TradesUnderExactAuthorization ==
    /\ runnerTask = "trading" => contexts = plan /\ authorization = plan
    /\ gate /\ contexts # {} => authorization # {}

(* The configuration is locked for the length of a cycle.                  *)
CycleSettingsStable == [][cycle /\ cycle' => chosen' = chosen]_controlVars

(* Recovery is retried until it is safe or the runner is stopped; it is    *)
(* not given up because the operator holds a reservation.                  *)
RecoveryNotAbandoned == runnerTask # "abandoned"
=============================================================================
