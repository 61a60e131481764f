----------------------- MODULE RuntimeControl_proofs -----------------------
(* Proofs about RuntimeControl, for every set of markets and strategies.   *)
EXTENDS RuntimeControl, TLAPS

(* What the reservations and the cycle lock rule out, and what the gate    *)
(* stands for: together with the type they are preserved by every step.    *)
Safe == OneOwner /\ TradesUnderExactAuthorization

IInv == ControlTypeOK /\ Safe

-----------------------------------------------------------------------------
(* Changing the strategy of every context, or the market of the only one,  *)
(* leaves a portfolio with one context per market.                         *)
LEMMA StrategyKeepsPortfolio ==
    ASSUME NEW C \in Portfolios, NEW t \in Strategies
    PROVE  {[c EXCEPT !.strategy = t] : c \in C} \in Portfolios
<1> DEFINE D == {[c EXCEPT !.strategy = t] : c \in C}
<1>1. D \subseteq Context
  BY DEF Portfolios, Context
<1>2. \A c, d \in D : c.market = d.market => c = d
  BY DEF Portfolios, Context
<1> QED
  BY <1>1, <1>2 DEF Portfolios

LEMMA MarketKeepsPortfolio ==
    ASSUME NEW C \in Portfolios, Single(C), NEW m \in Markets
    PROVE  {[c EXCEPT !.market = m] : c \in C} \in Portfolios
<1>1. PICK c \in Context : C = {c}
  BY DEF Single, Portfolios
<1>2. {[d EXCEPT !.market = m] : d \in C} = {[c EXCEPT !.market = m]}
  BY <1>1
<1>3. [c EXCEPT !.market = m] \in Context
  BY DEF Context
<1> QED
  BY <1>2, <1>3 DEF Portfolios

LEMMA EmptyPortfolio == {} \in Portfolios
BY DEF Portfolios

-----------------------------------------------------------------------------
LEMMA TypeInit == ControlInit => ControlTypeOK
BY EmptyPortfolio DEF ControlInit, ControlTypeOK, Selections, RunnerPcs

(* Operator steps keep the type: the two selections by the lemmas above.   *)
LEMMA TypeOperator == ASSUME ControlTypeOK, OperatorStep PROVE ControlTypeOK'
<1> USE DEF ControlTypeOK, Selections, RunnerPcs, owners, setup
<1>1. CASE Pause \/ ResumeRuntime
  <2>1. active' \in BOOLEAN
    BY <1>1 DEF Pause, ResumeRuntime
  <2>2. UNCHANGED <<gate, owners, contexts, authorization, setup, runnerTask, plan>>
    BY <1>1 DEF Pause, ResumeRuntime
  <2> QED
    BY <2>1, <2>2
<1>2. ASSUME NEW what \in Selections, ConfirmSelection(what) PROVE ControlTypeOK'
  BY <1>2 DEF ConfirmSelection
<1>3. ASSUME NEW m \in Markets, SelectMarket(m) PROVE ControlTypeOK'
  <2>1. contexts' \in Portfolios
    BY <1>3, MarketKeepsPortfolio DEF SelectMarket
  <2>2. chosen' \in Context
    BY <1>3 DEF SelectMarket, Context
  <2> QED
    BY <1>3, <2>1, <2>2 DEF SelectMarket
<1>4. ASSUME NEW t \in Strategies, SelectStrategy(t) PROVE ControlTypeOK'
  <2>1. contexts' \in Portfolios
    BY <1>4, StrategyKeepsPortfolio DEF SelectStrategy
  <2>2. chosen' \in Context
    BY <1>4 DEF SelectStrategy, Context
  <2> QED
    BY <1>4, <2>1, <2>2 DEF SelectStrategy
<1>5. ASSUME NEW next \in {"off", "silent", "ticking"}, Stream(next) PROVE ControlTypeOK'
  BY <1>5 DEF Stream
<1> QED
  BY <1>1, <1>2, <1>3, <1>4, <1>5 DEF OperatorStep

LEMMA TypeReservation == ASSUME ControlTypeOK, ReservationStep PROVE ControlTypeOK'
<1> USE DEF ControlTypeOK, Selections, RunnerPcs, owners, setup
<1>1. CASE BeginRiskLimitChange \/ EndRiskLimitChange
  <2>1. riskChange' \in BOOLEAN
    BY <1>1 DEF BeginRiskLimitChange, EndRiskLimitChange
  <2>2. UNCHANGED <<active, gate, cycle, operatorExit, wasRunning, contexts,
                    authorization, setup, runnerTask, plan>>
    BY <1>1 DEF BeginRiskLimitChange, EndRiskLimitChange
  <2> QED
    BY <2>1, <2>2
<1>2. ASSUME NEW autoPause \in BOOLEAN, RequestOperatorExit(autoPause) PROVE ControlTypeOK'
  BY <1>2 DEF RequestOperatorExit
<1>3. CASE OperatorExitRefused \/ ConfirmOperatorExit
  <2>1. active' \in BOOLEAN /\ operatorExit' \in {"none", "pending", "durable"}
    BY <1>3 DEF OperatorExitRefused, ConfirmOperatorExit
  <2>2. UNCHANGED <<gate, cycle, riskChange, wasRunning, contexts, authorization,
                    setup, runnerTask, plan>>
    BY <1>3 DEF OperatorExitRefused, ConfirmOperatorExit
  <2> QED
    BY <2>1, <2>2
<1>4. CASE EndOperatorExit
  BY <1>4 DEF EndOperatorExit
<1>5. ASSUME NEW C \in Portfolios, OperatorExitReconciles(C) PROVE ControlTypeOK'
  BY <1>5, EmptyPortfolio DEF OperatorExitReconciles, SetContexts
<1> QED
  BY <1>1, <1>2, <1>3, <1>4, <1>5 DEF ReservationStep

LEMMA TypeRunner == ASSUME ControlTypeOK, RunnerTaskStep PROVE ControlTypeOK'
<1> USE EmptyPortfolio DEF ControlTypeOK, Selections, RunnerPcs, owners, setup
<1>1. CASE Wake \/ HealthFails \/ BeginCycle
  BY <1>1 DEF Wake, HealthFails, BeginCycle, FailClosed
<1>2. CASE CycleAdopts \/ CycleEnters \/ EndCycle \/ CycleUnsafe
  BY <1>2 DEF CycleAdopts, CycleEnters, EndCycle, CycleUnsafe, FailClosed
<1>3. CASE RecoverClears \/ RecoverAdopts \/ RecoverUnhealthy \/ RecoverFails
  BY <1>3 DEF RecoverClears, RecoverAdopts, RecoverUnhealthy, RecoverFails, FailClosed,
              SetContexts, KeepMatching
<1>4. ASSUME NEW C \in Portfolios, CycleReconciles(C) \/ RecoverReconciles(C)
      PROVE  ControlTypeOK'
  BY <1>4 DEF CycleReconciles, RecoverReconciles, SetContexts, KeepMatching
<1> QED
  BY <1>1, <1>2, <1>3, <1>4 DEF RunnerTaskStep

-----------------------------------------------------------------------------
LEMMA SafeInit == ControlInit => Safe
BY DEF ControlInit, Safe, OneOwner, TradesUnderExactAuthorization

LEMMA SafeOperator == ASSUME IInv, OperatorStep PROVE Safe'
<1> USE DEF IInv, ControlTypeOK, Safe, OneOwner, TradesUnderExactAuthorization, owners, setup
<1>1. CASE Pause
  BY <1>1 DEF Pause
<1>2. CASE ResumeRuntime
  BY <1>2 DEF ResumeRuntime, MayResume
<1>3. ASSUME NEW what \in Selections, ConfirmSelection(what) PROVE Safe'
  BY <1>3 DEF ConfirmSelection
<1>4. ASSUME NEW m \in Markets, SelectMarket(m) PROVE Safe'
  BY <1>4 DEF SelectMarket, PausedConfiguration
<1>5. ASSUME NEW t \in Strategies, SelectStrategy(t) PROVE Safe'
  BY <1>5 DEF SelectStrategy
<1>6. ASSUME NEW next \in {"off", "silent", "ticking"}, Stream(next) PROVE Safe'
  BY <1>6 DEF Stream
<1> QED
  BY <1>1, <1>2, <1>3, <1>4, <1>5, <1>6 DEF OperatorStep

LEMMA SafeReservation == ASSUME IInv, ReservationStep PROVE Safe'
<1> USE DEF IInv, ControlTypeOK, Safe, OneOwner, TradesUnderExactAuthorization, owners, setup
<1>1. CASE BeginRiskLimitChange \/ EndRiskLimitChange
  BY <1>1 DEF BeginRiskLimitChange, EndRiskLimitChange
<1>2. ASSUME NEW autoPause \in BOOLEAN, RequestOperatorExit(autoPause) PROVE Safe'
  BY <1>2 DEF RequestOperatorExit
<1>3. CASE OperatorExitRefused \/ ConfirmOperatorExit
  BY <1>3 DEF OperatorExitRefused, ConfirmOperatorExit
<1>4. CASE EndOperatorExit
  BY <1>4 DEF EndOperatorExit, MayResume, MayResumeGlobal
<1>5. ASSUME NEW C \in Portfolios, OperatorExitReconciles(C) PROVE Safe'
  BY <1>5 DEF OperatorExitReconciles, SetContexts
<1> QED
  BY <1>1, <1>2, <1>3, <1>4, <1>5 DEF ReservationStep

LEMMA SafeRunner == ASSUME IInv, RunnerTaskStep PROVE Safe'
<1> USE DEF IInv, ControlTypeOK, Safe, OneOwner, TradesUnderExactAuthorization, owners, setup
<1>1. CASE Wake
  BY <1>1 DEF Wake
<1>2. CASE HealthFails
  BY <1>2 DEF HealthFails, FailClosed
<1>3. CASE BeginCycle
  BY <1>3 DEF BeginCycle
<1>4. CASE CycleAdopts \/ CycleEnters \/ EndCycle
  BY <1>4 DEF CycleAdopts, CycleEnters, EndCycle
<1>5. CASE CycleUnsafe
  BY <1>5 DEF CycleUnsafe, FailClosed
<1>6. CASE RecoverClears \/ RecoverUnhealthy \/ RecoverFails
  BY <1>6 DEF RecoverClears, RecoverUnhealthy, RecoverFails, FailClosed,
              SetContexts, KeepMatching
<1>7. CASE RecoverAdopts
  BY <1>7 DEF RecoverAdopts
<1>8. ASSUME NEW C \in Portfolios, CycleReconciles(C) \/ RecoverReconciles(C)
      PROVE  Safe'
  BY <1>8 DEF CycleReconciles, RecoverReconciles, SetContexts, KeepMatching
<1> QED
  BY <1>1, <1>2, <1>3, <1>4, <1>5, <1>6, <1>7, <1>8 DEF RunnerTaskStep

-----------------------------------------------------------------------------
LEMMA Unchanged == ASSUME IInv, UNCHANGED controlVars PROVE IInv'
BY DEF IInv, ControlTypeOK, Safe, OneOwner, TradesUnderExactAuthorization, controlVars

(* The invariant is inductive.                                             *)
THEOREM Invariance == ControlSpec => []IInv
<1>1. ControlInit => IInv
  BY TypeInit, SafeInit DEF IInv
<1>2. IInv /\ [ControlNext]_controlVars => IInv'
  BY TypeOperator, TypeReservation, TypeRunner, SafeOperator, SafeReservation,
     SafeRunner, Unchanged DEF IInv, ControlNext
<1> QED
  BY <1>1, <1>2, PTL DEF ControlSpec

(* Every variable stays in its type, and no portfolio the runtime installs *)
(* or authorizes manages one market twice.                                 *)
THEOREM TypeCorrect == ControlSpec => []ControlTypeOK
BY Invariance, PTL DEF IInv

(* Cycles, risk-limit changes and operator exits exclude one another, no   *)
(* step activates a reserved runtime and no failure path leaves the cycle  *)
(* lock behind, or works without it.                                       *)
THEOREM Exclusion == ControlSpec => []OneOwner
BY Invariance, PTL DEF IInv, Safe

(* Whatever the operator does meanwhile, a cycle trades the portfolio its  *)
(* own reconciliation read and authorized, and no open gate covers a       *)
(* portfolio without an authorization.                                     *)
THEOREM ExactAuthorization == ControlSpec => []TradesUnderExactAuthorization
BY Invariance, PTL DEF IInv, Safe

(* Nothing selects another market or strategy during a cycle.              *)
THEOREM StableSettings == ControlSpec => CycleSettingsStable
<1>1. [ControlNext]_controlVars => [cycle /\ cycle' => chosen' = chosen]_controlVars
  BY DEF ControlNext, OperatorStep, ReservationStep, RunnerTaskStep, controlVars, setup, Pause, ResumeRuntime,
     ConfirmSelection, SelectMarket, PausedConfiguration, SelectStrategy, Stream,
     BeginRiskLimitChange, EndRiskLimitChange, RequestOperatorExit,
     OperatorExitRefused, ConfirmOperatorExit, OperatorExitReconciles,
     EndOperatorExit, Wake, HealthFails, BeginCycle, CycleReconciles, CycleAdopts,
     CycleEnters, EndCycle, CycleUnsafe, RecoverClears, RecoverReconciles,
     RecoverAdopts, RecoverUnhealthy, RecoverFails
<1> QED
  BY <1>1, PTL DEF ControlSpec, CycleSettingsStable
=============================================================================
