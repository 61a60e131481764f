------------------------- MODULE OperatorExit_proofs -------------------------
(***************************************************************************)
(* The operator's exit is worked off by one task at a time, its close      *)
(* attempts implement the ledger that entries keep, and what it closes is  *)
(* attributed to it: for any markets, any close orders, any number of      *)
(* faults and crashes, and without a hypothesis. An order that one look-up *)
(* did not find is given up as missing and may execute afterwards; who     *)
(* works, and when the runtime is given back, is shown until one of the    *)
(* recorded mishaps has upset the reservation.                             *)
(***************************************************************************)
EXTENDS OperatorExit, TLAPS

(* TypeOK, of what is stored or at the venue, of the process, and of the   *)
(* lock.                                                                   *)
Operations == [status : Statuses, scope : SUBSET Symbols, broad : BOOLEAN, switch : BOOLEAN]
Attempts   == [status : {"unused", "INCOMPLETE", "REJECTED", "NOT_FOUND", "COMPLETED"}, symbol : Symbols]
Requests   == [at : {"none", "preflight", "pending"}, scope : SUBSET Symbols,
               broad : BOOLEAN, switch : BOOLEAN, resume : BOOLEAN]
Controls   == [paused : BOOLEAN, reserved : BOOLEAN, ready : BOOLEAN]
OperationOK == op \in Operations /\ policy \in BOOLEAN
BooksOK ==
    /\ attempt \in [Orders -> Attempts]
    /\ order \in [Orders -> {"none", "sent", "filled", "dead", "partial"}]
    /\ row \subseteq Symbols /\ exposure \subseteq row /\ staged \subseteq row /\ byExit \subseteq row
ProcessOK ==
    /\ control \in Controls /\ request \in Requests
    /\ runner \in {"active", "recovering", "exit", "restarting", "ended", "down"}
LockOK ==
    /\ pc \in [Workers -> Places] /\ lock \in Workers \cup {NoOne}
    /\ \A w \in Workers : pc[w] \in Locked <=> lock = w
(* The runner's recovery works for a runner that waits for it.             *)
RunnerIdle == runner \in {"active", "recovering", "down"} => pc["runner"] = "idle"

TypeInv == OperationOK /\ BooksOK /\ ProcessOK /\ LockOK /\ RunnerIdle

MishapsOK == mishaps \subseteq {"overtaken", "orphaned", "unread"}

LEMMA TypeParts == TypeInv /\ MishapsOK => TypeOK
BY DEF MishapsOK, TypeInv, TypeOK, OperationOK, BooksOK, ProcessOK, LockOK, Operations, Attempts, Requests,
   Controls

LEMMA WorkersAre == Workers = {"confirm", "background", "runner"} /\ NoOne \notin Workers
BY DEF Workers, NoOne

LEMMA TypeInit == Init => TypeInv
<1> SUFFICES ASSUME Init PROVE TypeInv
  OBVIOUS
<1>1. OperationOK
  BY DEF Init, OperationOK, Operations, Statuses
<1>2. BooksOK
  BY SymbolAssumption DEF Init, BooksOK, Attempts
<1>3. ProcessOK
  BY DEF Init, ProcessOK, Controls, Requests, Running, NoRequest
<1>4. LockOK
  BY WorkersAre DEF Init, LockOK, Places, Locked
<1>5. RunnerIdle
  BY WorkersAre DEF Init, RunnerIdle
<1> QED
  BY <1>1, <1>2, <1>3, <1>4, <1>5 DEF TypeInv

-----------------------------------------------------------------------------
(* How a worker moves.                                                     *)

LEMMA GoesOn ==
    ASSUME LockOK, NEW w \in Workers, pc[w] \in Locked, NEW place \in Locked,
           Goto(w, place), UNCHANGED lock
    PROVE  LockOK'
BY DEF LockOK, Goto, Places

LEMMA LeavesLock ==
    ASSUME LockOK, NEW w \in Workers, pc[w] \in Locked, NEW place \in Places \ Locked,
           Leave(w, place)
    PROVE  LockOK'
BY WorkersAre DEF LockOK, Leave, Goto

LEMMA MovesOutside ==
    ASSUME LockOK, NEW w \in Workers, pc[w] \notin Locked, NEW place \in Places \ Locked,
           Goto(w, place), UNCHANGED lock
    PROVE  LockOK'
BY DEF LockOK, Goto

LEMMA HandsOn ==
    ASSUME LockOK, NEW w \in Workers, pc[w] = "mark", HandOn(w), UNCHANGED lock
    PROVE  LockOK'
BY WorkersAre DEF LockOK, HandOn, Goto, AtRest, Places, Locked

-----------------------------------------------------------------------------
(* How the flags of the runtime are set.                                   *)

LEMMA FlagSet ==
    ASSUME control \in Controls, NEW b \in BOOLEAN
    PROVE  [control EXCEPT !.reserved = b] \in Controls /\ [control EXCEPT !.ready = b] \in Controls
BY DEF Controls

LEMMA ReleasedTyped ==
    ASSUME control \in Controls, NEW resume, Released(resume)
    PROVE  control' \in Controls
BY DEF Controls, Released

(* One step per action, and one per part of the type.                      *)
LEMMA TypeStep == TypeInv /\ [Next]_vars => TypeInv'
<1> SUFFICES ASSUME TypeInv, [Next]_vars PROVE TypeInv'
  OBVIOUS
<1>0. OperationOK /\ BooksOK /\ ProcessOK /\ LockOK /\ RunnerIdle
  BY DEF TypeInv
<1> USE DEF durable, venue, process
<1>1. ASSUME NEW w \in Workers, Read(w) PROVE TypeInv'
  <2>1. LockOK'
    BY <1>0, <1>1, MovesOutside DEF Read, Places, Locked
  <2>2. OperationOK' /\ ProcessOK'
    <3>1. runner' \in {runner, "recovering"} /\ UNCHANGED <<op, policy, request>>
      BY <1>1 DEF Read, Ended
    <3>2. control' \in Controls
      <4>1. ReadyAfter(w, control.ready) \in BOOLEAN
        BY DEF ReadyAfter
      <4>2. \/ control' = [control EXCEPT !.paused = TRUE, !.reserved = TRUE]
            \/ control' = [control EXCEPT !.ready = ReadyAfter(w, control.ready)]
        BY <1>1 DEF Read
      <4> QED
        BY <1>0, <4>1, <4>2, FlagSet DEF ProcessOK, Controls
    <3> QED
      BY <1>0, <3>1, <3>2 DEF OperationOK, ProcessOK
  <2>3. BooksOK'
    BY <1>0, <1>1 DEF Read, Ended, ReadyAfter, BooksOK, Attempts
  <2>4. RunnerIdle'
    BY <1>0, <1>1, WorkersAre DEF Read, RunnerIdle, LockOK, Goto, Leave, Proceed, Ended
  <2> QED
    BY <2>1, <2>2, <2>3, <2>4 DEF TypeInv
<1>2. ASSUME NEW w \in Workers, Acquire(w) PROVE TypeInv'
  <2>1. LockOK'
    BY <1>0, <1>2, WorkersAre DEF Acquire, LockOK, Goto, Places, Locked
  <2>2. OperationOK' /\ ProcessOK'
    BY <1>0, <1>2 DEF Acquire, OperationOK, Operations, ProcessOK, Controls, Requests, Statuses
  <2>3. BooksOK'
    BY <1>0, <1>2 DEF Acquire, BooksOK
  <2>4. RunnerIdle'
    BY <1>0, <1>2, WorkersAre DEF Acquire, RunnerIdle, LockOK, Goto, Leave
  <2> QED
    BY <2>1, <2>2, <2>3, <2>4 DEF TypeInv
<1>3. ASSUME NEW w \in Workers, CheckAttempts(w) PROVE TypeInv'
  <2>1. LockOK'
    BY <1>0, <1>3, GoesOn, LeavesLock DEF CheckAttempts, Leave, Places, Locked
  <2>2. OperationOK' /\ ProcessOK'
    BY <1>0, <1>3 DEF CheckAttempts, OperationOK, Operations, ProcessOK, Controls
  <2>3. BooksOK'
    BY <1>0, <1>3 DEF CheckAttempts, BooksOK
  <2>4. RunnerIdle'
    BY <1>0, <1>3, WorkersAre DEF CheckAttempts, RunnerIdle, LockOK, Goto, Leave
  <2> QED
    BY <2>1, <2>2, <2>3, <2>4 DEF TypeInv
<1>4. ASSUME NEW w \in Workers, NothingLeft(w) PROVE TypeInv'
  <2>1. LockOK'
    BY <1>0, <1>4, GoesOn DEF NothingLeft, Places, Locked
  <2>2. OperationOK' /\ ProcessOK'
    BY <1>0, <1>4 DEF NothingLeft, OperationOK, Operations, ProcessOK, Controls
  <2>3. BooksOK'
    BY <1>0, <1>4 DEF NothingLeft, BooksOK
  <2>4. RunnerIdle'
    BY <1>0, <1>4, WorkersAre DEF NothingLeft, RunnerIdle, LockOK, Goto, Leave
  <2> QED
    BY <2>1, <2>2, <2>3, <2>4 DEF TypeInv
<1>5. ASSUME NEW w \in Workers, Complete(w) PROVE TypeInv'
  <2>1. LockOK'
    BY <1>0, <1>5, GoesOn, LeavesLock DEF Complete, Proceed, Places, Locked
  <2>2. OperationOK' /\ ProcessOK'
    BY <1>0, <1>5 DEF Complete, Released, Proceed, OperationOK, Operations, ProcessOK, Controls,
       Requests, Statuses
  <2>3. BooksOK'
    BY <1>0, <1>5 DEF Complete, Released, Proceed, BooksOK, Attempts
  <2>4. RunnerIdle'
    BY <1>0, <1>5, WorkersAre DEF Complete, RunnerIdle, LockOK, Goto, Leave, Proceed, Ended
  <2> QED
    BY <2>1, <2>2, <2>3, <2>4 DEF TypeInv
<1>6. ASSUME NEW w \in Workers, HandOver(w) PROVE TypeInv'
  <2>1. LockOK'
    BY <1>0, <1>6, LeavesLock DEF HandOver, Places, Locked
  <2>2. OperationOK' /\ ProcessOK'
    BY <1>0, <1>6 DEF HandOver, Leave, OperationOK, Operations, ProcessOK, Controls
  <2>3. BooksOK'
    BY <1>0, <1>6 DEF HandOver, Leave, BooksOK
  <2>4. RunnerIdle'
    BY <1>0, <1>6, WorkersAre DEF HandOver, RunnerIdle, LockOK
  <2> QED
    BY <2>1, <2>2, <2>3, <2>4 DEF TypeInv
<1>7. ASSUME NEW w \in Workers, Switched(w) PROVE TypeInv'
  <2>1. LockOK'
    BY <1>0, <1>7, LeavesLock DEF Switched, Proceed, Places, Locked
  <2>2. OperationOK' /\ ProcessOK'
    BY <1>0, <1>7 DEF Switched, Released, Proceed, OperationOK, Operations, ProcessOK, Controls,
       Requests, Statuses
  <2>3. BooksOK'
    BY <1>0, <1>7 DEF Switched, Released, Proceed, BooksOK, Attempts
  <2>4. RunnerIdle'
    BY <1>0, <1>7, WorkersAre DEF Switched, RunnerIdle, LockOK, Goto, Leave, Proceed, Ended
  <2> QED
    BY <2>1, <2>2, <2>3, <2>4 DEF TypeInv
<1>8. ASSUME NEW w \in Workers, Reject(w) PROVE TypeInv'
  <2>1. LockOK'
    BY <1>0, <1>8, MovesOutside DEF Reject, Places, Locked
  <2>2. OperationOK' /\ ProcessOK'
    BY <1>0, <1>8 DEF Reject, Ended, ReadyAfter, Reconciled, OperationOK, Operations, ProcessOK,
       Controls, Requests, Statuses
  <2>3. BooksOK'
    BY <1>0, <1>8 DEF Reject, Ended, ReadyAfter, Reconciled, BooksOK, Attempts
  <2>4. RunnerIdle'
    BY <1>0, <1>8, WorkersAre DEF Reject, RunnerIdle, LockOK, Goto, Leave, Proceed, Ended
  <2> QED
    BY <2>1, <2>2, <2>3, <2>4 DEF TypeInv
<1>9. ASSUME NEW w \in Workers, Mark(w) PROVE TypeInv'
  <2>1. LockOK'
    BY <1>0, <1>9, HandsOn DEF Mark
  <2>2. OperationOK' /\ ProcessOK'
    BY <1>0, <1>9 DEF Mark, OperationOK, Operations, ProcessOK, Controls, Requests, Statuses
  <2>3. BooksOK'
    BY <1>0, <1>9 DEF Mark, BooksOK
  <2>4. RunnerIdle'
    BY <1>0, <1>9, WorkersAre DEF Mark, HandOn, RunnerIdle, LockOK, Goto, Leave
  <2> QED
    BY <2>1, <2>2, <2>3, <2>4 DEF TypeInv
<1>10. ASSUME NEW w \in Workers, StepRaises(w) PROVE TypeInv'
  <2>1. LockOK'
    BY <1>0, <1>10, LeavesLock DEF StepRaises, LockOK, Places, Locked
  <2>2. OperationOK' /\ ProcessOK'
    BY <1>0, <1>10 DEF StepRaises, OperationOK, Operations, ProcessOK, Controls
  <2>3. BooksOK'
    BY <1>0, <1>10 DEF StepRaises, BooksOK
  <2>4. RunnerIdle'
    BY <1>0, <1>10, WorkersAre DEF StepRaises, RunnerIdle, LockOK, Locked, Goto, Leave
  <2> QED
    BY <2>1, <2>2, <2>3, <2>4 DEF TypeInv
<1>11. ASSUME NEW w \in Workers, RejectFails(w) PROVE TypeInv'
  <2>1. LockOK'
    BY <1>0, <1>11, MovesOutside DEF RejectFails, Places, Locked
  <2>2. OperationOK' /\ ProcessOK'
    BY <1>0, <1>11 DEF RejectFails, OperationOK, Operations, ProcessOK, Controls
  <2>3. BooksOK'
    BY <1>0, <1>11 DEF RejectFails, BooksOK
  <2>4. RunnerIdle'
    BY <1>0, <1>11, WorkersAre DEF RejectFails, RunnerIdle, LockOK, Goto, Leave
  <2> QED
    BY <2>1, <2>2, <2>3, <2>4 DEF TypeInv
<1>12. ASSUME NEW w \in Workers, MarkFails(w) PROVE TypeInv'
  <2>1. LockOK'
    BY <1>0, <1>12, HandsOn, MovesOutside DEF MarkFails, Dies, Places, Locked
  <2>2. OperationOK' /\ ProcessOK'
    BY <1>0, <1>12 DEF MarkFails, Dies, OperationOK, Operations, ProcessOK, Controls
  <2>3. BooksOK'
    BY <1>0, <1>12 DEF MarkFails, BooksOK
  <2>4. RunnerIdle'
    BY <1>0, <1>12, WorkersAre DEF MarkFails, Dies, HandOn, RunnerIdle, LockOK, Goto, Leave
  <2> QED
    BY <2>1, <2>2, <2>3, <2>4 DEF TypeInv
<1>120. ASSUME NEW w \in Workers, ReadFails(w) PROVE TypeInv'
  <2>1. LockOK'
    BY <1>0, <1>120, MovesOutside DEF ReadFails, Dies, Places, Locked
  <2>2. OperationOK' /\ ProcessOK'
    BY <1>0, <1>120 DEF ReadFails, Dies, OperationOK, Operations, ProcessOK, Controls
  <2>3. BooksOK'
    BY <1>0, <1>120 DEF ReadFails, BooksOK
  <2>4. RunnerIdle'
    BY <1>0, <1>120, WorkersAre DEF ReadFails, Dies, RunnerIdle, LockOK, Goto
  <2> QED
    BY <2>1, <2>2, <2>3, <2>4 DEF TypeInv
<1>13. ASSUME NEW w \in Workers, NEW i \in Orders, Post(w, i) PROVE TypeInv'
  <2>1. LockOK'
    BY <1>0, <1>13, GoesOn DEF Post, Places, Locked
  <2>2. OperationOK' /\ ProcessOK'
    BY <1>0, <1>13 DEF Post, Set, OperationOK, Operations, ProcessOK, Controls
  <2>3. BooksOK'
    BY <1>0, <1>13 DEF Post, Set, BooksOK
  <2>4. RunnerIdle'
    BY <1>0, <1>13, WorkersAre DEF Post, RunnerIdle, LockOK, Goto, Leave
  <2> QED
    BY <2>1, <2>2, <2>3, <2>4 DEF TypeInv
<1>14. ASSUME NEW w \in Workers, NEW i \in Orders, LearnsRejected(w, i) PROVE TypeInv'
  <2>1. LockOK'
    BY <1>0, <1>14, LeavesLock DEF LearnsRejected, Places, Locked
  <2>2. OperationOK' /\ ProcessOK'
    BY <1>0, <1>14 DEF LearnsRejected, Conclude, OperationOK, Operations, ProcessOK, Controls
  <2>3. BooksOK'
    BY <1>0, <1>14 DEF LearnsRejected, Conclude, BooksOK, Attempts
  <2>4. RunnerIdle'
    BY <1>0, <1>14, WorkersAre DEF LearnsRejected, RunnerIdle, LockOK, Goto, Leave
  <2> QED
    BY <2>1, <2>2, <2>3, <2>4 DEF TypeInv
<1>15. ASSUME NEW w \in Workers, NEW i \in Orders, LearnsAccepted(w, i) PROVE TypeInv'
  <2>1. LockOK'
    BY <1>0, <1>15, GoesOn DEF LearnsAccepted, Places, Locked
  <2>2. OperationOK' /\ ProcessOK'
    BY <1>0, <1>15 DEF LearnsAccepted, OperationOK, Operations, ProcessOK, Controls
  <2>3. BooksOK'
    BY <1>0, <1>15 DEF LearnsAccepted, BooksOK
  <2>4. RunnerIdle'
    BY <1>0, <1>15, WorkersAre DEF LearnsAccepted, RunnerIdle, LockOK, Goto, Leave
  <2> QED
    BY <2>1, <2>2, <2>3, <2>4 DEF TypeInv
<1>16. ASSUME NEW w \in Workers, NEW i \in Orders, LearnsPending(w, i) PROVE TypeInv'
  <2>1. LockOK'
    BY <1>0, <1>16, LeavesLock DEF LearnsPending, Places, Locked
  <2>2. OperationOK' /\ ProcessOK'
    BY <1>0, <1>16 DEF LearnsPending, OperationOK, Operations, ProcessOK, Controls
  <2>3. BooksOK'
    BY <1>0, <1>16 DEF LearnsPending, BooksOK
  <2>4. RunnerIdle'
    BY <1>0, <1>16, WorkersAre DEF LearnsPending, RunnerIdle, LockOK, Goto, Leave
  <2> QED
    BY <2>1, <2>2, <2>3, <2>4 DEF TypeInv
<1>17. ASSUME NEW w \in Workers, NEW i \in Orders, LearnsFilled(w, i) PROVE TypeInv'
  <2>1. LockOK'
    BY <1>0, <1>17, GoesOn DEF LearnsFilled, Places, Locked
  <2>2. OperationOK' /\ ProcessOK'
    BY <1>0, <1>17 DEF LearnsFilled, OperationOK, Operations, ProcessOK, Controls
  <2>3. BooksOK'
    BY <1>0, <1>17 DEF LearnsFilled, BooksOK
  <2>4. RunnerIdle'
    BY <1>0, <1>17, WorkersAre DEF LearnsFilled, RunnerIdle, LockOK, Goto, Leave
  <2> QED
    BY <2>1, <2>2, <2>3, <2>4 DEF TypeInv
<1>18. ASSUME NEW w \in Workers, NEW i \in Orders, StageExit(w, i) PROVE TypeInv'
  <2>1. LockOK'
    BY <1>0, <1>18, GoesOn, LeavesLock DEF StageExit, Places, Locked
  <2>2. OperationOK' /\ ProcessOK'
    BY <1>0, <1>18 DEF StageExit, OperationOK, Operations, ProcessOK, Controls
  <2>3. BooksOK'
    BY <1>0, <1>18 DEF StageExit, BooksOK
  <2>4. RunnerIdle'
    BY <1>0, <1>18, WorkersAre DEF StageExit, RunnerIdle, LockOK, Goto, Leave
  <2> QED
    BY <2>1, <2>2, <2>3, <2>4 DEF TypeInv
<1>19. ASSUME NEW w \in Workers, NEW i \in Orders, RecordExit(w, i) PROVE TypeInv'
  <2>1. LockOK'
    BY <1>0, <1>19, GoesOn DEF RecordExit, Places, Locked
  <2>2. OperationOK' /\ ProcessOK'
    BY <1>0, <1>19 DEF RecordExit, Conclude, OperationOK, Operations, ProcessOK, Controls
  <2>3. BooksOK'
    BY <1>0, <1>19 DEF RecordExit, Conclude, BooksOK, Attempts
  <2>4. RunnerIdle'
    BY <1>0, <1>19, WorkersAre DEF RecordExit, RunnerIdle, LockOK, Goto, Leave
  <2> QED
    BY <2>1, <2>2, <2>3, <2>4 DEF TypeInv
<1>20. ASSUME NEW w \in Workers, NEW i \in Orders, NEW s \in Symbols, ReserveAttempt(w, i, s)
      PROVE  TypeInv'
  <2>1. LockOK'
    BY <1>0, <1>20, GoesOn DEF ReserveAttempt, Places, Locked
  <2>2. OperationOK' /\ ProcessOK'
    <3>1. control' \in Controls
      BY <1>0, <1>20, FlagSet DEF ReserveAttempt, ProcessOK
    <3> QED
      BY <1>0, <1>20, <3>1 DEF ReserveAttempt, OperationOK, ProcessOK
  <2>3. BooksOK'
    BY <1>0, <1>20 DEF ReserveAttempt, BooksOK, Attempts
  <2>4. RunnerIdle'
    BY <1>0, <1>20, WorkersAre DEF ReserveAttempt, RunnerIdle, LockOK, Goto, Leave
  <2> QED
    BY <2>1, <2>2, <2>3, <2>4 DEF TypeInv
<1>21. ASSUME NEW w \in Workers, Reconcile(w, "reconcile", "positions") \/ Reconcile(w, "settle", "complete")
      PROVE  TypeInv'
  <2>1. LockOK'
    BY <1>0, <1>21, GoesOn DEF Reconcile, Places, Locked
  <2>2. OperationOK' /\ ProcessOK'
    BY <1>0, <1>21 DEF Reconcile, Reconciled, OperationOK, Operations, ProcessOK, Controls
  <2>3. BooksOK'
    BY <1>0, <1>21 DEF Reconcile, Reconciled, BooksOK
  <2>4. RunnerIdle'
    BY <1>0, <1>21, WorkersAre DEF Reconcile, RunnerIdle, LockOK, Goto, Leave
  <2> QED
    BY <2>1, <2>2, <2>3, <2>4 DEF TypeInv
<1>22. CASE RecoverExit
  <2>1. LockOK'
    BY <1>0, <1>22, WorkersAre DEF RecoverExit, LockOK, RunnerIdle, Places, Locked
  <2>2. OperationOK' /\ ProcessOK'
    BY <1>0, <1>22 DEF RecoverExit, OperationOK, Operations, ProcessOK, Controls
  <2>3. BooksOK'
    BY <1>0, <1>22 DEF RecoverExit, BooksOK
  <2>4. RunnerIdle'
    BY <1>0, <1>22, WorkersAre DEF RecoverExit, RunnerIdle, LockOK
  <2> QED
    BY <2>1, <2>2, <2>3, <2>4 DEF TypeInv
<1>23. CASE RecoverPortfolio
  <2>1. LockOK'
    BY <1>0, <1>23 DEF RecoverPortfolio, LockOK
  <2>2. OperationOK' /\ ProcessOK'
    <3>1. runner' \in {"ended", "active"} /\ UNCHANGED <<op, policy, request>>
      BY <1>23 DEF RecoverPortfolio
    <3>2. control' = Running \/ \E r \in BOOLEAN : control' = [control EXCEPT !.ready = r]
      BY <1>23 DEF RecoverPortfolio
    <3>3. Running \in Controls
      BY DEF Running, Controls
    <3>4. control' \in Controls
      BY <1>0, <3>2, <3>3, FlagSet DEF ProcessOK
    <3> QED
      BY <1>0, <3>1, <3>4 DEF OperationOK, ProcessOK
  <2>3. BooksOK'
    BY <1>0, <1>23 DEF RecoverPortfolio, Reconciled, Running, BooksOK, Attempts
  <2>4. RunnerIdle'
    BY <1>0, <1>23, WorkersAre DEF RecoverPortfolio, RunnerIdle, LockOK
  <2> QED
    BY <2>1, <2>2, <2>3, <2>4 DEF TypeInv
<1>24. CASE SoftRestart
  <2>1. LockOK'
    BY <1>0, <1>24, WorkersAre DEF SoftRestart, LockOK, Stop, Places, Locked
  <2>2. OperationOK' /\ ProcessOK'
    BY <1>0, <1>24 DEF SoftRestart, Stop, NoRequest, Halted, OperationOK, Operations, ProcessOK,
       Controls, Requests, Statuses
  <2>3. BooksOK'
    BY <1>0, <1>24 DEF SoftRestart, Stop, NoRequest, Halted, BooksOK, Attempts
  <2>4. RunnerIdle'
    BY <1>0, <1>24, WorkersAre DEF SoftRestart, Stop, RunnerIdle, LockOK
  <2> QED
    BY <2>1, <2>2, <2>3, <2>4 DEF TypeInv
<1>25. CASE Start
  <2>1. LockOK'
    BY <1>0, <1>25 DEF Start, LockOK
  <2>2. OperationOK' /\ ProcessOK'
    <3>1. control' = [control EXCEPT !.reserved = Open] /\ Open \in BOOLEAN
      BY <1>25 DEF Start, Open
    <3>2. control' \in Controls
      BY <1>0, <3>1, FlagSet DEF ProcessOK
    <3> QED
      BY <1>0, <1>25, <3>2 DEF Start, OperationOK, ProcessOK
  <2>3. BooksOK'
    BY <1>0, <1>25 DEF Start, BooksOK
  <2>4. RunnerIdle'
    BY <1>0, <1>25, WorkersAre DEF Start, RunnerIdle, LockOK
  <2> QED
    BY <2>1, <2>2, <2>3, <2>4 DEF TypeInv
<1>26. CASE RunnerFails
  <2>1. LockOK'
    BY <1>0, <1>26 DEF RunnerFails, LockOK
  <2>2. OperationOK' /\ ProcessOK'
    BY <1>0, <1>26 DEF RunnerFails, OperationOK, Operations, ProcessOK, Controls
  <2>3. BooksOK'
    BY <1>0, <1>26 DEF RunnerFails, BooksOK
  <2>4. RunnerIdle'
    BY <1>0, <1>26, WorkersAre DEF RunnerFails, RunnerIdle, LockOK
  <2> QED
    BY <2>1, <2>2, <2>3, <2>4 DEF TypeInv
<1>27. CASE Crash
  <2>1. LockOK'
    BY <1>0, <1>27, WorkersAre DEF Crash, LockOK, Stop, Places, Locked
  <2>2. OperationOK' /\ ProcessOK'
    BY <1>0, <1>27 DEF Crash, Stop, NoRequest, Halted, OperationOK, Operations, ProcessOK,
       Controls, Requests, Statuses
  <2>3. BooksOK'
    BY <1>0, <1>27 DEF Crash, Stop, NoRequest, Halted, BooksOK, Attempts
  <2>4. RunnerIdle'
    BY <1>0, <1>27, WorkersAre DEF Crash, Stop, RunnerIdle, LockOK
  <2> QED
    BY <2>1, <2>2, <2>3, <2>4 DEF TypeInv
<1>28. CASE Preflight
  <2>1. LockOK'
    BY <1>0, <1>28 DEF Preflight, LockOK
  <2>2. OperationOK' /\ ProcessOK'
    <3>1. control' \in Controls
      BY <1>0, <1>28, ReleasedTyped DEF Preflight, ProcessOK
    <3>2. request' = [request EXCEPT !.at = "pending"] \/ request' = NoRequest
      BY <1>28 DEF Preflight
    <3>3. request' \in Requests
      <4>1. [request EXCEPT !.at = "pending"] \in Requests
        BY <1>0 DEF ProcessOK, Requests
      <4>2. NoRequest \in Requests
        BY DEF NoRequest, Requests
      <4> QED
        BY <3>2, <4>1, <4>2
    <3> QED
      BY <1>0, <1>28, <3>1, <3>3 DEF Preflight, OperationOK, ProcessOK
  <2>3. BooksOK'
    BY <1>0, <1>28 DEF Preflight, NoRequest, Released, BooksOK, Attempts
  <2>4. RunnerIdle'
    BY <1>0, <1>28, WorkersAre DEF Preflight, RunnerIdle, LockOK
  <2> QED
    BY <2>1, <2>2, <2>3, <2>4 DEF TypeInv
<1>29. CASE CancelRequest
  <2>1. LockOK'
    BY <1>0, <1>29 DEF CancelRequest, LockOK
  <2>2. OperationOK' /\ ProcessOK'
    <3>1. control' \in Controls
      BY <1>0, <1>29, ReleasedTyped DEF CancelRequest, ProcessOK
    <3> QED
      BY <1>0, <1>29, <3>1 DEF CancelRequest, OperationOK, ProcessOK, NoRequest, Requests
  <2>3. BooksOK'
    BY <1>0, <1>29 DEF CancelRequest, NoRequest, Released, BooksOK, Attempts
  <2>4. RunnerIdle'
    BY <1>0, <1>29, WorkersAre DEF CancelRequest, RunnerIdle, LockOK
  <2> QED
    BY <2>1, <2>2, <2>3, <2>4 DEF TypeInv
<1>30. CASE Resume
  <2>1. LockOK'
    BY <1>0, <1>30 DEF Resume, LockOK
  <2>2. OperationOK' /\ ProcessOK'
    <3>1. control' \in Controls
      BY <1>0, <1>30 DEF Resume, ProcessOK, Controls
    <3> QED
      BY <1>0, <1>30, <3>1 DEF Resume, OperationOK, ProcessOK
  <2>3. BooksOK'
    BY <1>0, <1>30 DEF Resume, BooksOK
  <2>4. RunnerIdle'
    BY <1>0, <1>30, WorkersAre DEF Resume, RunnerIdle, LockOK
  <2> QED
    BY <2>1, <2>2, <2>3, <2>4 DEF TypeInv
<1>31. CASE Confirm
  <2>1. LockOK'
    BY <1>0, <1>31 DEF Confirm, LockOK, Stop, Places, Locked
  <2>2. OperationOK' /\ ProcessOK'
    BY <1>0, <1>31 DEF Confirm, NoRequest, NewOperation, OperationOK, Operations, ProcessOK,
       Controls, Requests, Statuses
  <2>3. BooksOK'
    BY <1>0, <1>31 DEF Confirm, NoRequest, NewOperation, BooksOK, Attempts
  <2>4. RunnerIdle'
    BY <1>0, <1>31, WorkersAre DEF Confirm, RunnerIdle, LockOK
  <2> QED
    BY <2>1, <2>2, <2>3, <2>4 DEF TypeInv
<1>32. CASE ConfirmFails
  <2>1. LockOK'
    BY <1>0, <1>32 DEF ConfirmFails, LockOK
  <2>2. OperationOK' /\ ProcessOK'
    <3>1. NewOperation \in Operations
      BY <1>0 DEF NewOperation, ProcessOK, Requests, Operations, Statuses
    <3> QED
      BY <1>0, <1>32, <3>1 DEF ConfirmFails, OperationOK, ProcessOK
  <2>3. BooksOK'
    BY <1>0, <1>32 DEF ConfirmFails, NewOperation, BooksOK
  <2>4. RunnerIdle'
    BY <1>0, <1>32, WorkersAre DEF ConfirmFails, RunnerIdle, LockOK
  <2> QED
    BY <2>1, <2>2, <2>3, <2>4 DEF TypeInv
<1>33. ASSUME NEW scope \in SUBSET Symbols, NEW broad \in BOOLEAN, NEW switch \in BOOLEAN,
             Request(scope, broad, switch)
      PROVE  TypeInv'
  <2>1. LockOK'
    BY <1>0, <1>33 DEF Request, LockOK
  <2>2. OperationOK' /\ ProcessOK'
    BY <1>0, <1>33 DEF Request, OperationOK, Operations, ProcessOK, Controls, Requests, Statuses
  <2>3. BooksOK'
    BY <1>0, <1>33 DEF Request, BooksOK
  <2>4. RunnerIdle'
    BY <1>0, <1>33, WorkersAre DEF Request, RunnerIdle, LockOK
  <2> QED
    BY <2>1, <2>2, <2>3, <2>4 DEF TypeInv
<1>34. ASSUME NEW i \in Orders, VenueTakes(i) PROVE TypeInv'
  <2>1. LockOK'
    BY <1>0, <1>34 DEF VenueTakes, LockOK
  <2>2. OperationOK' /\ ProcessOK'
    BY <1>0, <1>34 DEF VenueTakes, Set, OperationOK, Operations, ProcessOK, Controls
  <2>3. BooksOK'
    BY <1>0, <1>34 DEF VenueTakes, Set, BooksOK
  <2>4. RunnerIdle'
    BY <1>0, <1>34, WorkersAre DEF VenueTakes, RunnerIdle, LockOK
  <2> QED
    BY <2>1, <2>2, <2>3, <2>4 DEF TypeInv
<1>35. ASSUME NEW s \in Symbols, Trade(s) PROVE TypeInv'
  <2>1. LockOK'
    BY <1>0, <1>35 DEF Trade, LockOK
  <2>2. OperationOK' /\ ProcessOK'
    BY <1>0, <1>35 DEF Trade, OperationOK, Operations, ProcessOK, Controls
  <2>3. BooksOK'
    BY <1>0, <1>35 DEF Trade, BooksOK
  <2>4. RunnerIdle'
    BY <1>0, <1>35, WorkersAre DEF Trade, RunnerIdle, LockOK
  <2> QED
    BY <2>1, <2>2, <2>3, <2>4 DEF TypeInv
<1>36. ASSUME NEW s \in Symbols, VenueCloses(s) PROVE TypeInv'
  <2>1. LockOK'
    BY <1>0, <1>36 DEF VenueCloses, LockOK
  <2>2. OperationOK' /\ ProcessOK'
    BY <1>0, <1>36 DEF VenueCloses, OperationOK, Operations, ProcessOK, Controls
  <2>3. BooksOK'
    BY <1>0, <1>36 DEF VenueCloses, BooksOK
  <2>4. RunnerIdle'
    BY <1>0, <1>36, WorkersAre DEF VenueCloses, RunnerIdle, LockOK
  <2> QED
    BY <2>1, <2>2, <2>3, <2>4 DEF TypeInv
<1>37. CASE UNCHANGED vars
  <2>1. LockOK'
    BY <1>0, <1>37 DEF vars, LockOK
  <2>2. OperationOK' /\ ProcessOK'
    BY <1>0, <1>37 DEF vars, OperationOK, Operations, ProcessOK, Controls
  <2>3. BooksOK'
    BY <1>0, <1>37 DEF vars, BooksOK
  <2>4. RunnerIdle'
    BY <1>0, <1>37, WorkersAre DEF vars, RunnerIdle, LockOK
  <2> QED
    BY <2>1, <2>2, <2>3, <2>4 DEF TypeInv
<1> HIDE DEF durable, venue, process
<1> QED
  BY <1>0, <1>1, <1>2, <1>3, <1>4, <1>5, <1>6, <1>7, <1>8, <1>9, <1>10, <1>11, <1>12,
     <1>120, <1>13, <1>14, <1>15, <1>16, <1>17, <1>18, <1>19, <1>20, <1>21, <1>22, <1>23, <1>24,
     <1>25, <1>26, <1>27, <1>28, <1>29, <1>30, <1>31, <1>32, <1>33, <1>34, <1>35, <1>36, <1>37 DEF BooksOK,
     Next, WorkerStep, WorkerFault, RunnerStep, Operator, Venue

(* What has gone wrong stays on record.                                    *)
LEMMA MishapsStay == [Next]_vars => mishaps \subseteq mishaps' /\ (MishapsOK => MishapsOK')
<1> SUFFICES ASSUME [Next]_vars PROVE mishaps \subseteq mishaps' /\ (MishapsOK => MishapsOK')
  OBVIOUS
<1>1. \/ mishaps' = mishaps
      \/ \E m \in {"overtaken", "orphaned", "unread"} : mishaps' = mishaps \cup {m}
  BY DEF Next, WorkerStep, WorkerFault, MarkFails, ReadFails, RunnerStep, Operator, Preflight,
     ConfirmFails, Venue, vars
<1> QED
  BY <1>1 DEF MishapsOK

-----------------------------------------------------------------------------
(* Who may work on an operation, and what the runtime is like meanwhile,   *)
(* until a mishap: reserve_operation() raises with its row stored, or the  *)
(* last read of a worker whose operation is over raises or is overtaken by *)
(* the operator's next request.                                            *)
Requested == request.at # "none" =>
    /\ Up /\ ~Open /\ control.reserved /\ control.paused
    /\ request.at = "pending" =>
          control.ready /\ runner # "recovering" /\ \A w \in Workers : AtRest(w)
OpenIsReserved == Open /\ Up => control.reserved /\ control.paused
Flattening == Locked \ {"complete", "switch"}
Alone ==
    /\ \A w \in Workers : AtWork(w) => Open
    /\ Open => \A v, w \in Workers : ~AtRest(v) /\ ~AtRest(w) => v = w
    /\ ~Up => control.paused /\ ~control.ready /\ \A w \in Workers : pc[w] = "idle"
    /\ runner = "recovering" =>
          IF Open THEN \A w \in Workers : AtRest(w) ELSE ~control.ready
    /\ \A w \in Workers : pc[w] \in Flattening => op.status = "FLATTENING"
Ownership == Requested /\ OpenIsReserved /\ Alone
Owned     == mishaps = {} => Ownership

LEMMA OwnershipInit == Init => Owned
BY DEF Init, Owned, Ownership, Requested, OpenIsReserved, Alone, Open, Up, AtWork, AtRest, Running,
   NoRequest, Flattening, Locked

(* While an operation is open nothing is requested; its worker is the only *)
(* one and the runner is not recovering.                                   *)
LEMMA Owner ==
    ASSUME Ownership, NEW w \in Workers, AtWork(w)
    PROVE  /\ Open /\ Up /\ request.at = "none" /\ runner # "recovering"
           /\ control.reserved /\ control.paused
           /\ \A v \in Workers : ~AtRest(v) => v = w
BY DEF Ownership, Requested, OpenIsReserved, Alone, AtWork, AtRest

(* It goes on.                                                             *)
LEMMA OwnerGoesOn ==
    ASSUME TypeInv, Ownership, NEW w \in Workers, AtWork(w),
           NEW place \in Places \ {"idle", "dead", "read"}, Goto(w, place),
           Open', place \in Flattening => op'.status = "FLATTENING", control'.paused = control.paused, control'.reserved = control.reserved,
           UNCHANGED <<request, runner>>
    PROVE  Ownership'
<1>1. pc \in [Workers -> Places]
  BY DEF TypeInv, LockOK
<1>2. \A v \in Workers : ~AtRest(v)' => v = w
  BY <1>1, Owner DEF Goto, AtRest
<1>3. \A v \in Workers : (pc[v] \in Flattening)' => op'.status = "FLATTENING"
  BY <1>1, <1>2 DEF Goto, AtRest, Flattening, Locked
<1> QED
  BY <1>2, <1>3, Owner DEF Ownership, Requested, OpenIsReserved, Alone, Up, AtWork

(* It ends the operation.                                                  *)
LEMMA OwnerEnds ==
    ASSUME TypeInv, Ownership, NEW w \in Workers, AtWork(w),
           NEW place \in {"idle", "read"}, Goto(w, place), ~Open',
           runner' = runner \/ (runner' = "recovering" /\ ~control'.ready), UNCHANGED request
    PROVE  Ownership'
<1>1. pc \in [Workers -> Places]
  BY DEF TypeInv, LockOK
<1>2. \A v \in Workers : ~AtWork(v)'
  BY <1>1, Owner DEF Goto, AtWork, AtRest
<1> QED
  BY <1>2, Owner DEF Ownership, Requested, OpenIsReserved, Alone, Up, Flattening, Locked, AtWork,
     AtRest

(* One step per action: whoever works keeps to itself, nothing is requested*)
(* and nobody recovers while an operation is open.                         *)
LEMMA OwnershipStep ==
    ASSUME TypeInv, Ownership, [Next]_vars, mishaps' = {} PROVE Ownership'
<1>0. op \in Operations /\ control \in Controls /\ request \in Requests /\ pc \in [Workers -> Places]
      /\ (\A w \in Workers : pc[w] \in Locked <=> lock = w) /\ RunnerIdle
  BY DEF TypeInv, OperationOK, ProcessOK, LockOK
<1> USE DEF durable, venue, process
<1>1. ASSUME NEW w \in Workers, CheckAttempts(w) PROVE Ownership'
  <2>1. AtWork(w) /\ Open
    BY <1>0, <1>1, Owner DEF CheckAttempts, AtWork, AtRest
  <2> QED
    BY <1>0, <1>1, <2>1, OwnerGoesOn DEF CheckAttempts, Places, Locked, Flattening, Ownership,
       Alone, Open, Statuses, Operations
<1>2. ASSUME NEW w \in Workers, NothingLeft(w) PROVE Ownership'
  <2>1. AtWork(w) /\ Open
    BY <1>0, <1>2, Owner DEF NothingLeft, AtWork, AtRest
  <2> QED
    BY <1>0, <1>2, <2>1, OwnerGoesOn DEF NothingLeft, Places, Locked, Flattening, Ownership,
       Alone, Open, Statuses, Operations
<1>3. ASSUME NEW w \in Workers, Acquire(w) PROVE Ownership'
  <2>1. AtWork(w) /\ Open
    BY <1>0, <1>3, Owner DEF Acquire, AtWork, AtRest
  <2> QED
    BY <1>0, <1>3, <2>1, OwnerGoesOn DEF Acquire, Places, Locked, Flattening, Ownership, Alone,
       Open, Statuses, Operations
<1>4. ASSUME NEW w \in Workers, StepRaises(w) PROVE Ownership'
  <2>1. AtWork(w) /\ Open
    BY <1>0, <1>4, Owner DEF StepRaises, AtWork, AtRest, Locked
  <2> QED
    BY <1>0, <1>4, <2>1, OwnerGoesOn DEF StepRaises, Leave, Places, Locked, Flattening, Ownership,
       Alone, Open, Statuses, Operations
<1>5. ASSUME NEW w \in Workers, RejectFails(w) PROVE Ownership'
  <2>1. AtWork(w) /\ Open
    BY <1>0, <1>5, Owner DEF RejectFails, AtWork, AtRest
  <2> QED
    BY <1>0, <1>5, <2>1, OwnerGoesOn DEF RejectFails, Places, Locked, Flattening, Ownership,
       Alone, Open, Statuses, Operations
<1>6. ASSUME NEW w \in Workers, NEW i \in Orders, Post(w, i) PROVE Ownership'
  <2>1. AtWork(w) /\ Open
    BY <1>6, Owner DEF Post, AtWork, AtRest
  <2> QED
    BY <1>6, <2>1, OwnerGoesOn DEF Post, Places, Locked, Flattening, Ownership, Alone, Open
<1>7. ASSUME NEW w \in Workers, NEW i \in Orders, LearnsRejected(w, i) PROVE Ownership'
  <2>1. AtWork(w) /\ Open
    BY <1>7, Owner DEF LearnsRejected, AtWork, AtRest
  <2> QED
    BY <1>7, <2>1, OwnerGoesOn DEF LearnsRejected, Leave, Places, Locked, Flattening, Ownership,
       Alone, Open
<1>8. ASSUME NEW w \in Workers, NEW i \in Orders, LearnsAccepted(w, i) PROVE Ownership'
  <2>1. AtWork(w) /\ Open
    BY <1>8, Owner DEF LearnsAccepted, AtWork, AtRest
  <2> QED
    BY <1>8, <2>1, OwnerGoesOn DEF LearnsAccepted, Places, Locked, Flattening, Ownership, Alone,
       Open
<1>9. ASSUME NEW w \in Workers, NEW i \in Orders, LearnsPending(w, i) PROVE Ownership'
  <2>1. AtWork(w) /\ Open
    BY <1>9, Owner DEF LearnsPending, AtWork, AtRest
  <2> QED
    BY <1>9, <2>1, OwnerGoesOn DEF LearnsPending, Leave, Places, Locked, Flattening, Ownership,
       Alone, Open
<1>10. ASSUME NEW w \in Workers, NEW i \in Orders, LearnsFilled(w, i) PROVE Ownership'
  <2>1. AtWork(w) /\ Open
    BY <1>10, Owner DEF LearnsFilled, AtWork, AtRest
  <2> QED
    BY <1>10, <2>1, OwnerGoesOn DEF LearnsFilled, Places, Locked, Flattening, Ownership, Alone,
       Open
<1>11. ASSUME NEW w \in Workers, NEW i \in Orders, StageExit(w, i) PROVE Ownership'
  <2>1. AtWork(w) /\ Open
    BY <1>11, Owner DEF StageExit, AtWork, AtRest
  <2> QED
    BY <1>11, <2>1, OwnerGoesOn DEF StageExit, Leave, Places, Locked, Flattening, Ownership,
       Alone, Open
<1>12. ASSUME NEW w \in Workers, NEW i \in Orders, RecordExit(w, i) PROVE Ownership'
  <2>1. AtWork(w) /\ Open
    BY <1>12, Owner DEF RecordExit, AtWork, AtRest
  <2> QED
    BY <1>12, <2>1, OwnerGoesOn DEF RecordExit, Places, Locked, Flattening, Ownership, Alone, Open
<1>13. ASSUME NEW w \in Workers, NEW i \in Orders, NEW s \in Symbols, ReserveAttempt(w, i, s) PROVE Ownership'
  <2>1. AtWork(w) /\ Open
    BY <1>13, Owner DEF ReserveAttempt, AtWork, AtRest
  <2> QED
    BY <1>0, <1>13, <2>1, OwnerGoesOn DEF ReserveAttempt, Places, Locked, Flattening, Ownership,
       Alone, Open, Controls
<1>14. ASSUME NEW w \in Workers,
             Reconcile(w, "reconcile", "positions") \/ Reconcile(w, "settle", "complete") PROVE Ownership'
  <2>1. AtWork(w) /\ Open
    BY <1>14, Owner DEF Reconcile, AtWork, AtRest
  <2> QED
    BY <1>0, <1>14, <2>1, OwnerGoesOn DEF Reconcile, Places, Locked, Flattening, Ownership, Alone,
       Open, Controls
<1>15. ASSUME NEW w \in Workers, Complete(w) PROVE Ownership'
  <2>1. AtWork(w) /\ Open
    BY <1>15, Owner DEF Complete, AtWork, AtRest
  <2>2. CASE op.switch
    BY <1>0, <1>15, <2>1, <2>2, OwnerGoesOn DEF Complete, Places, Locked, Flattening, Open,
       Operations, Statuses
  <2>3. CASE ~op.switch
    BY <1>0, <1>15, <2>1, <2>3, OwnerEnds DEF Complete, Proceed, Leave, Open, Operations, Statuses
  <2> QED
    BY <2>2, <2>3
<1>16. ASSUME NEW w \in Workers, Switched(w) PROVE Ownership'
  <2>1. AtWork(w)
    BY <1>16 DEF Switched, AtWork, AtRest
  <2> QED
    BY <1>0, <1>16, <2>1, OwnerEnds DEF Switched, Proceed, Leave, Open
<1>17. ASSUME NEW w \in Workers, Reject(w) PROVE Ownership'
  <2>1. AtWork(w)
    BY <1>17 DEF Reject, AtWork, AtRest
  <2> QED
    BY <1>0, <1>17, <2>1, OwnerEnds DEF Reject, Ended, ReadyAfter, Open, Operations, Statuses,
       Controls
<1>18. ASSUME NEW w \in Workers, Read(w) PROVE Ownership'
  <2>1. CASE Open
    <3>1. control'.paused /\ control'.reserved /\ UNCHANGED <<op, request, runner>> /\ Goto(w, "lock")
      BY <1>0, <1>18, <2>1 DEF Read, Controls
    <3>2. ~AtRest(w) /\ Up /\ request.at = "none" /\ runner # "recovering"
      BY <1>18, <2>1, WorkersAre DEF Read, Ownership, Requested, OpenIsReserved, Alone, Open, Up,
         AtWork, AtRest, Flattening, Locked
    <3>3. \A v \in Workers : ~AtRest(v)' => v = w
      BY <1>0, <2>1, <3>1, <3>2 DEF Goto, Ownership, Requested, OpenIsReserved, Alone, Open, Up,
         AtWork, AtRest, Flattening, Locked
    <3>4. \A v \in Workers : (pc[v] \notin Flattening)'
      BY <1>0, <3>1, <3>3 DEF Goto, AtRest, Flattening, Locked
    <3> QED
      BY <2>1, <3>1, <3>2, <3>3, <3>4 DEF Ownership, Requested, OpenIsReserved, Alone, Open, Up
  <2>2. CASE ~Open
    <3>1. control'.paused = control.paused /\ control'.reserved = control.reserved
          /\ (control'.ready => control.ready) /\ (w = "runner" => ~control'.ready)
      BY <1>0, <1>18, <2>2 DEF Read, ReadyAfter, Controls
    <3> QED
      BY <1>0, <1>18, <2>2, <3>1, WorkersAre DEF Read, Goto, Ended, RunnerIdle, Ownership,
         Requested, OpenIsReserved, Alone, Open, Up, AtWork, AtRest, Flattening, Locked
  <2> QED
    BY <2>1, <2>2
<1>19. ASSUME NEW w \in Workers, HandOver(w) PROVE Ownership'
  <2>1. AtWork(w)
    BY <1>19 DEF HandOver, AtWork, AtRest
  <2> QED
    BY <1>0, <1>19, <2>1, Owner DEF HandOver, Leave, Goto, Ownership, Requested, OpenIsReserved,
       Alone, Open, Up, AtWork, AtRest, Flattening, Locked
<1>20. ASSUME NEW w \in Workers, Mark(w) PROVE Ownership'
  <2>1. AtWork(w)
    BY <1>20 DEF Mark, AtWork, AtRest
  <2> QED
    BY <1>0, <1>20, <2>1, Owner, WorkersAre DEF Mark, HandOn, Goto, Controls, Operations,
       Statuses, Ownership, Requested, OpenIsReserved, Alone, Open, Up, AtWork, AtRest,
       Flattening, Locked
<1>21. ASSUME NEW w \in Workers, MarkFails(w) PROVE Ownership'
  <2>1. AtWork(w)
    BY <1>21 DEF MarkFails, AtWork, AtRest
  <2> QED
    BY <1>0, <1>21, <2>1, Owner, WorkersAre DEF MarkFails, Dies, HandOn, Goto, Ownership,
       Requested, OpenIsReserved, Alone, Open, Up, AtWork, AtRest, Flattening, Locked
<1>210. ASSUME NEW w \in Workers, ReadFails(w) PROVE Ownership'
  <2>1. Open /\ UNCHANGED <<op, control, request>>
    BY <1>210 DEF ReadFails
  <2>2. PICK place \in {"idle", "dead"} : Goto(w, place)
    BY <1>210 DEF ReadFails, Dies
  <2>3. ~AtRest(w)
    BY <1>210 DEF ReadFails, AtRest
  <2>4. \A v \in Workers : AtRest(v)'
    BY <1>0, <2>1, <2>2, <2>3 DEF Goto, Ownership, Alone, AtRest
  <2>5. Up /\ runner' \in {runner, "recovering", "ended"} /\ Up'
    BY <1>210, <2>1, <2>3 DEF ReadFails, Dies, Ownership, Alone, Up, AtRest
  <2> QED
    BY <2>1, <2>4, <2>5 DEF Ownership, Requested, OpenIsReserved, Alone, Open, Up, AtWork, AtRest,
       Flattening, Locked
<1>22. CASE RecoverExit
  BY <1>0, <1>22, WorkersAre DEF RecoverExit, RunnerIdle, Controls, Ownership, Requested,
     OpenIsReserved, Alone, Open, Up, AtWork, AtRest, Flattening, Locked
<1>23. CASE RecoverPortfolio
  BY <1>0, <1>23, WorkersAre DEF RecoverPortfolio, Running, Controls, Ownership, Requested,
     OpenIsReserved, Alone, Open, Up, AtWork, AtRest, Flattening, Locked
<1>24. CASE SoftRestart
  BY <1>0, <1>24, WorkersAre DEF SoftRestart, Stop, Halted, NoRequest, Ownership, Requested,
     OpenIsReserved, Alone, Open, Up, AtWork, AtRest, Flattening, Locked
<1>25. CASE Start
  BY <1>0, <1>25, WorkersAre DEF Start, Controls, Ownership, Requested, OpenIsReserved, Alone,
     Open, Up, AtWork, AtRest, Flattening, Locked
<1>26. CASE RunnerFails
  BY <1>0, <1>26, WorkersAre DEF RunnerFails, Controls, Ownership, Requested, OpenIsReserved,
     Alone, Open, Up, AtWork, AtRest, Flattening, Locked
<1>27. CASE Crash
  BY <1>0, <1>27, WorkersAre DEF Crash, Stop, Halted, NoRequest, Ownership, Requested,
     OpenIsReserved, Alone, Open, Up, AtWork, AtRest, Flattening, Locked
<1>28. CASE CancelRequest
  BY <1>0, <1>28, WorkersAre DEF CancelRequest, Released, NoRequest, Controls, Ownership,
     Requested, OpenIsReserved, Alone, Open, Up, AtWork, AtRest, Flattening, Locked
<1>29. CASE Resume
  BY <1>0, <1>29, WorkersAre DEF Resume, Controls, Ownership, Requested, OpenIsReserved, Alone,
     Open, Up, AtWork, AtRest, Flattening, Locked
<1>30. CASE Confirm
  BY <1>0, <1>30, WorkersAre DEF Confirm, NewOperation, NoRequest, Ownership, Requested,
     OpenIsReserved, Alone, Open, Up, AtWork, AtRest, Flattening, Locked
<1>31. CASE ConfirmFails
  BY <1>0, <1>31, WorkersAre DEF ConfirmFails, NewOperation, Ownership, Requested, OpenIsReserved,
     Alone, Open, Up, AtWork, AtRest, Flattening, Locked
<1>32. CASE Preflight
  <2>0. request' # NoRequest => \A w \in Workers : AtRest(w)
    <3>1. request' # NoRequest => ~\E w \in Workers : pc[w] = "read"
      BY <1>32 DEF Preflight
    <3> QED
      BY <1>32, <3>1 DEF Preflight, Ownership, Requested, OpenIsReserved, Alone, Open, Up, AtWork
  <2>1. CASE request' = [request EXCEPT !.at = "pending"] /\ UNCHANGED control /\ control.ready
    BY <1>0, <1>32, <2>0, <2>1 DEF Preflight, NoRequest, Requests, Ownership, Requested, OpenIsReserved,
       Alone, Open, Up, AtWork, AtRest, Flattening, Locked
  <2>2. CASE request' = NoRequest
    BY <1>0, <1>32, <2>2 DEF Preflight, Released, NoRequest, Controls, Ownership, Requested,
       OpenIsReserved, Alone, Open, Up, AtWork, AtRest, Flattening, Locked
  <2> QED
    BY <1>32, <2>1, <2>2 DEF Preflight
<1>33. ASSUME NEW scope, NEW broad, NEW switch, Request(scope, broad, switch) PROVE Ownership'
  BY <1>0, <1>33 DEF Request, Controls, Ownership, Requested, OpenIsReserved, Alone, Open, Up,
     AtWork, AtRest, Flattening, Locked
<1>34. ASSUME NEW i \in Orders, VenueTakes(i) PROVE Ownership'
  BY <1>34 DEF VenueTakes, Ownership, Requested, OpenIsReserved, Alone, Open, Up, AtWork, AtRest,
     Flattening, Locked
<1>35. ASSUME NEW s \in Symbols, Trade(s) PROVE Ownership'
  BY <1>35 DEF Trade, Ownership, Requested, OpenIsReserved, Alone, Open, Up, AtWork, AtRest,
     Flattening, Locked
<1>36. ASSUME NEW s \in Symbols, VenueCloses(s) PROVE Ownership'
  BY <1>36 DEF VenueCloses, Ownership, Requested, OpenIsReserved, Alone, Open, Up, AtWork, AtRest,
     Flattening, Locked
<1>37. CASE UNCHANGED vars
  BY <1>37 DEF vars, Ownership, Requested, OpenIsReserved, Alone, Open, Up, AtWork, AtRest,
     Flattening, Locked
<1> HIDE DEF durable, venue, process
<1> QED
  BY <1>1, <1>2, <1>3, <1>4, <1>5, <1>6, <1>7, <1>8, <1>9, <1>10, <1>11, <1>12, <1>13, <1>14,
     <1>15, <1>16, <1>17, <1>18, <1>19, <1>20, <1>21, <1>22, <1>23, <1>24, <1>25, <1>26, <1>27,
     <1>28, <1>29, <1>30, <1>31, <1>32, <1>33, <1>34, <1>35, <1>36, <1>37, <1>210 DEF Next,
     WorkerStep, WorkerFault, RunnerStep, Operator, Venue


-----------------------------------------------------------------------------
(* What the close attempts say of the orders, whoever works and whatever   *)
(* has failed: only the worker that holds the lock touches an attempt, at  *)
(* most one is open, a worker knows what has become of its order, and the  *)
(* verdicts other than "not found" are true.                               *)
Settled == {"positions", "settle", "complete", "switch"}
OneAtATime ==
    /\ \A i, j \in Incomplete : i = j
    /\ op.status = "SWITCH_PENDING" => Incomplete = {}
    /\ \A w \in Workers : pc[w] \in Settled => Incomplete = {}
Verdicts == \A i \in Orders :
    /\ attempt[i].status = "unused" => order[i] = "none"
    /\ attempt[i].status = "REJECTED" => order[i] = "dead"
    /\ attempt[i].status = "COMPLETED" => order[i] = "filled"
Known == \A w \in Workers : \A i \in Incomplete :
    /\ pc[w] = "post" => order[i] = "none"
    /\ pc[w] \in {"flat", "record"} => order[i] = "filled"
    /\ pc[w] = "record" => attempt[i].symbol \in staged
(* An operation that is closing positions is not waiting for its switch.   *)
Closing == \A w \in Workers : pc[w] \in Flattening => op.status # "SWITCH_PENDING"
Ledger == OneAtATime /\ Verdicts /\ Known /\ Closing

LEMMA LedgerInit == Init => Ledger
BY DEF Init, Ledger, OneAtATime, Verdicts, Known, Closing, Incomplete, Settled, Flattening, Locked

(* The lock has one holder.                                                *)
LEMMA LockHolder ==
    ASSUME TypeInv, NEW w \in Workers, pc[w] \in Locked
    PROVE  \A v \in Workers : pc[v] \in Locked => v = w
BY DEF TypeInv, LockOK

(* The attempts and the orders stay, and no worker comes to a place where  *)
(* it has to know something of them.                                       *)
Calm(w) == pc'[w] = pc[w] \/ pc'[w] \notin Settled \cup {"post", "flat", "record"}

LEMMA LedgerKept ==
    ASSUME Ledger, UNCHANGED <<attempt, order>>, Closing',
           Incomplete = {} \/
           (/\ op'.status # "SWITCH_PENDING" \/ op'.status = op.status
            /\ staged \subseteq staged' /\ \A w \in Workers : Calm(w))
    PROVE  Ledger'
<1>1. Incomplete' = Incomplete
  BY DEF Incomplete
<1>2. OneAtATime'
  BY <1>1 DEF Ledger, OneAtATime, Calm
<1>3. Verdicts'
  BY DEF Ledger, Verdicts
<1>4. Known'
  BY <1>1 DEF Ledger, Known, Calm
<1> QED
  BY <1>2, <1>3, <1>4 DEF Ledger

(* One worker steps, and the operation stays.                              *)
LEMMA LedgerGoesOn ==
    ASSUME TypeInv, Ledger, Closing', NEW w \in Workers,
           NEW place \in Places \ (Settled \cup {"post", "flat", "record"}), Goto(w, place),
           UNCHANGED <<op, attempt, order, staged>>
    PROVE  Ledger'
<1>1. pc \in [Workers -> Places]
  BY DEF TypeInv, LockOK
<1>2. \A v \in Workers : Calm(v)
  BY <1>1 DEF Goto, Calm
<1> QED
  BY <1>2, LedgerKept

(* The attempt under way is i; nobody else holds the lock.                 *)
LEMMA TheAttempt ==
    ASSUME TypeInv, Ledger, NEW w \in Workers, pc[w] \in Locked, NEW i \in Incomplete
    PROVE  /\ i \in Orders /\ Incomplete = {i} /\ op.status # "SWITCH_PENDING"
           /\ \A v \in Workers : pc[v] \in Locked => v = w
BY LockHolder DEF Ledger, OneAtATime, Incomplete

(* The attempt under way is concluded.                                     *)
LEMMA LedgerConcludes ==
    ASSUME TypeInv, Ledger, Closing', NEW w \in Workers, pc[w] \in Locked, NEW i \in Incomplete,
           NEW status \in {"REJECTED", "NOT_FOUND", "COMPLETED"}, Conclude(i, status),
           status = "REJECTED" => order[i] = "dead",
           status = "COMPLETED" => order[i] = "filled",
           UNCHANGED <<op, order>>
    PROVE  Ledger' /\ Incomplete' = {}
<1>1. attempt \in [Orders -> Attempts] /\ i \in Orders /\ Incomplete = {i}
  BY TheAttempt DEF TypeInv, BooksOK
<1>2. /\ \A j \in Orders \ {i} : attempt'[j] = attempt[j]
      /\ attempt'[i].status = status
  BY <1>1 DEF Conclude
<1>3. Incomplete' = {}
  BY <1>1, <1>2 DEF Incomplete
<1>4. Verdicts'
  BY <1>1, <1>2 DEF Ledger, Verdicts
<1> QED
  BY <1>3, <1>4 DEF Ledger, OneAtATime, Known

(* Only the holder of the lock sets SWITCH_PENDING, and it closes nothing  *)
(* any more; whoever takes the lock looks at it first.                     *)
LEMMA ClosingStep == TypeInv /\ Closing /\ [Next]_vars => Closing'
<1> SUFFICES ASSUME TypeInv, Closing, [Next]_vars PROVE Closing'
  OBVIOUS
<1>0. op \in Operations /\ pc \in [Workers -> Places]
  BY DEF TypeInv, OperationOK, LockOK
<1> USE DEF durable, venue, process
<1>1. ASSUME op' = op, \A v \in Workers : pc'[v] \in Flattening => pc[v] \in Flattening
      PROVE  Closing'
  BY <1>1 DEF Closing
<1>2. ASSUME NEW w \in Workers, Acquire(w) PROVE Closing'
  BY <1>0, <1>2 DEF Acquire, Goto, Closing, Flattening, Operations
<1>3. ASSUME NEW w \in Workers, Mark(w) PROVE Closing'
  <2>1. op'.status = "FLATTENING"
    BY <1>0, <1>3 DEF Mark, Operations
  <2> QED
    BY <2>1 DEF Closing
<1>4. ASSUME NEW w \in Workers, Complete(w) PROVE Closing'
  <2>1. \A v \in Workers : pc[v] \in Locked => v = w
    BY <1>4, LockHolder DEF Complete, Locked
  <2>2. PICK place \in {"switch", "idle", "read"} : Goto(w, place)
    BY <1>4 DEF Complete, Proceed, Leave
  <2>3. \A v \in Workers : pc'[v] \notin Flattening
    BY <1>0, <1>4, <2>1, <2>2 DEF Complete, Goto, Flattening, Locked
  <2> QED
    BY <2>3 DEF Closing
<1>5. ASSUME NEW w \in Workers, Switched(w) PROVE Closing'
  <2>1. op'.status = "COMPLETE"
    BY <1>0, <1>5 DEF Switched, Operations
  <2> QED
    BY <2>1 DEF Closing
<1>6. ASSUME NEW w \in Workers, Reject(w) PROVE Closing'
  <2>1. op'.status = "FAILED"
    BY <1>0, <1>6 DEF Reject, Operations
  <2> QED
    BY <2>1 DEF Closing
<1>7. ASSUME NEW w \in Workers, Read(w) PROVE Closing'
  <2>1. PICK place \in {"lock", "idle"} : Goto(w, place)
    BY <1>7 DEF Read
  <2> QED
    BY <1>0, <1>1, <1>7, <2>1 DEF Read, Goto, Flattening, Locked
<1>8. ASSUME NEW w \in Workers, CheckAttempts(w) \/ NothingLeft(w) PROVE Closing'
  <2>1. PICK place : Goto(w, place)
    BY <1>8 DEF CheckAttempts, NothingLeft
  <2> QED
    BY <1>0, <1>1, <1>8, <2>1 DEF CheckAttempts, NothingLeft, Goto, Flattening, Locked
<1>9. ASSUME NEW w \in Workers, HandOver(w) \/ StepRaises(w) PROVE Closing'
  BY <1>0, <1>1, <1>9 DEF HandOver, StepRaises, Leave, Goto, Flattening, Locked
<1>10. ASSUME NEW w \in Workers, RejectFails(w) PROVE Closing'
  BY <1>0, <1>1, <1>10 DEF RejectFails, Goto, Flattening, Locked
<1>11. ASSUME NEW w \in Workers, MarkFails(w) \/ ReadFails(w) PROVE Closing'
  BY <1>0, <1>1, <1>11 DEF MarkFails, ReadFails, Dies, HandOn, Goto, Flattening, Locked
<1>12. ASSUME NEW w \in Workers,
              Reconcile(w, "reconcile", "positions") \/ Reconcile(w, "settle", "complete")
       PROVE  Closing'
  BY <1>0, <1>1, <1>12 DEF Reconcile, Goto, Flattening, Locked
<1>13. ASSUME NEW w \in Workers, NEW i \in Orders,
              \/ Post(w, i) \/ LearnsRejected(w, i) \/ LearnsAccepted(w, i)
              \/ LearnsPending(w, i) \/ LearnsFilled(w, i)
              \/ StageExit(w, i) \/ RecordExit(w, i)
              \/ \E s \in Symbols : ReserveAttempt(w, i, s)
       PROVE  Closing'
  <2>1. pc[w] \in Flattening /\ op' = op
    BY <1>13 DEF Post, LearnsRejected, LearnsAccepted, LearnsPending, LearnsFilled, StageExit,
       RecordExit, ReserveAttempt, Flattening, Locked
  <2>2. \E place : Goto(w, place)
    BY <1>13 DEF Post, LearnsRejected, LearnsAccepted, LearnsPending, LearnsFilled, StageExit,
       RecordExit, ReserveAttempt, Leave
  <2> QED
    BY <1>0, <1>1, <2>1, <2>2 DEF Goto
<1>14. CASE RunnerStep \/ RunnerFails \/ Crash
  BY <1>0, <1>1, <1>14 DEF RunnerStep, RecoverExit, RecoverPortfolio, SoftRestart, Start, Stop,
     RunnerFails, Crash, Flattening, Locked
<1>15. CASE Confirm \/ ConfirmFails
  <2>1. CASE op' = NewOperation
    <3>1. op'.status = "FLATTENING"
      BY <2>1 DEF NewOperation
    <3> QED
      BY <3>1 DEF Closing
  <2>2. CASE ConfirmFails /\ op' = op
    BY <1>1, <2>2 DEF ConfirmFails
  <2> QED
    BY <1>15, <2>1, <2>2 DEF Confirm, ConfirmFails
<1>16. CASE Operator /\ ~(Confirm \/ ConfirmFails)
  BY <1>1, <1>16 DEF Operator, Request, Preflight, CancelRequest, Resume
<1>17. CASE \/ \E i \in Orders : VenueTakes(i)
            \/ \E s \in Symbols : Trade(s) \/ VenueCloses(s)
  BY <1>1, <1>17 DEF VenueTakes, Trade, VenueCloses
<1>18. CASE UNCHANGED vars
  BY <1>1, <1>18 DEF vars
<1> HIDE DEF durable, venue, process
<1> QED
  BY <1>2, <1>3, <1>4, <1>5, <1>6, <1>7, <1>8, <1>9, <1>10, <1>11, <1>12, <1>13, <1>14, <1>15,
     <1>16, <1>17, <1>18 DEF Next, WorkerStep, WorkerFault, Venue

(* The attempt changes only in the hands of the worker that holds the lock. *)
LEMMA LedgerStep == TypeInv /\ Ledger /\ [Next]_vars => Ledger'
<1> SUFFICES ASSUME TypeInv, Ledger, [Next]_vars PROVE Ledger'
  OBVIOUS
<1>0. /\ op \in Operations /\ pc \in [Workers -> Places]
      /\ attempt \in [Orders -> Attempts]
      /\ order \in [Orders -> {"none", "sent", "filled", "dead", "partial"}]
  BY DEF TypeInv, OperationOK, LockOK, BooksOK
<1>00. /\ op.status = "SWITCH_PENDING" => Incomplete = {}
       /\ \A w \in Workers : pc[w] \in Settled => Incomplete = {}
       /\ Closing'
  BY ClosingStep DEF Ledger, OneAtATime
<1> USE DEF durable, venue, process
<1>1. ASSUME NEW w \in Workers, StepRaises(w)
      PROVE  Ledger'
  BY <1>00, <1>1, LedgerGoesOn DEF StepRaises, Leave, Places, Settled
<1>2. ASSUME NEW w \in Workers, RejectFails(w)
      PROVE  Ledger'
  BY <1>00, <1>2, LedgerGoesOn DEF RejectFails, Places, Settled
<1>3. ASSUME NEW w \in Workers, HandOver(w)
      PROVE  Ledger'
  BY <1>00, <1>3, LedgerGoesOn DEF HandOver, Leave, Places, Settled
<1>4. ASSUME NEW w \in Workers, Read(w)
      PROVE  Ledger'
  <2>1. PICK place \in {"lock", "idle"} : Goto(w, place)
    BY <1>4 DEF Read
  <2> QED
    BY <1>00, <1>4, <2>1, LedgerGoesOn DEF Read, Places, Settled
<1>5. ASSUME NEW w \in Workers, NEW i \in Orders, LearnsAccepted(w, i)
      PROVE  Ledger'
  BY <1>00, <1>5, LedgerGoesOn DEF LearnsAccepted, Places, Locked, Settled
<1>6. ASSUME NEW w \in Workers, NEW i \in Orders, LearnsPending(w, i)
      PROVE  Ledger'
  BY <1>00, <1>6, LedgerGoesOn DEF LearnsPending, Leave, Places, Settled
<1>7. ASSUME NEW w \in Workers, Acquire(w)
      PROVE  Ledger'
  <2>1. CASE op.status = "SWITCH_PENDING"
    <3>1. Incomplete = {}
      BY <1>00, <2>1
    <3> QED
      BY <1>00, <1>7, <3>1, LedgerKept DEF Acquire
  <2>2. CASE op.status # "SWITCH_PENDING"
    BY <1>00, <1>0, <1>7, <2>2, LedgerKept DEF Acquire, Goto, Calm, Settled, Operations
  <2> QED
    BY <2>1, <2>2
<1>8. ASSUME NEW w \in Workers, CheckAttempts(w)
      PROVE  Ledger'
  <2>1. CASE Incomplete = {}
    BY <1>00, <1>8, <2>1, LedgerKept DEF CheckAttempts
  <2>2. CASE Incomplete # {}
    <3>1. PICK place \in {"mark", "recover"} : Goto(w, place)
      BY <1>8, <2>2 DEF CheckAttempts
    <3> QED
      BY <1>00, <1>8, <3>1, LedgerGoesOn DEF CheckAttempts, Places, Locked, Settled
  <2> QED
    BY <2>1, <2>2
<1>9. ASSUME NEW w \in Workers, NothingLeft(w)
      PROVE  Ledger'
  BY <1>00, <1>9, LedgerKept DEF NothingLeft, Settled
<1>10. ASSUME NEW w \in Workers, Complete(w)
      PROVE  Ledger'
  BY <1>00, <1>10, LedgerKept DEF Complete, Settled
<1>11. ASSUME NEW w \in Workers, Switched(w)
      PROVE  Ledger'
  BY <1>00, <1>11, LedgerKept DEF Switched, Settled
<1>12. ASSUME NEW w \in Workers, Reject(w)
      PROVE  Ledger'
  BY <1>00, <1>12, LedgerKept DEF Reject, MayReconcile
<1>13. ASSUME NEW w \in Workers, Reconcile(w, "reconcile", "positions") \/ Reconcile(w, "settle", "complete")
      PROVE  Ledger'
  BY <1>00, <1>13, LedgerKept DEF Reconcile, MayReconcile
<1>14. ASSUME NEW w \in Workers, Mark(w)
      PROVE  Ledger'
  <2>1. \A v \in Workers : Calm(v)
    BY <1>0, <1>14 DEF Mark, HandOn, Goto, Calm, Settled
  <2>2. op'.status # "SWITCH_PENDING"
    BY <1>0, <1>14 DEF Mark, Operations
  <2> QED
    BY <1>00, <1>14, <2>1, <2>2, LedgerKept DEF Mark
<1>15. ASSUME NEW w \in Workers, MarkFails(w) \/ ReadFails(w)
      PROVE  Ledger'
  <2>1. \A v \in Workers : Calm(v)
    BY <1>0, <1>15 DEF MarkFails, ReadFails, Dies, HandOn, Goto, Calm, Settled
  <2> QED
    BY <1>00, <1>15, <2>1, LedgerKept DEF MarkFails, ReadFails
<1>16. ASSUME NEW w \in Workers, NEW i \in Orders, Post(w, i)
      PROVE  Ledger'
  <2>1. pc[w] \in Locked /\ order[i] = "none"
    BY <1>16 DEF Post, Locked, Ledger, Known
  <2>2. Incomplete = {i} /\ Incomplete' = {i} /\ op.status # "SWITCH_PENDING"
    BY <1>16, <2>1, TheAttempt DEF Post, Incomplete
  <2>3. \A v \in Workers : pc'[v] \notin Settled \cup {"post", "flat", "record"}
    BY <1>0, <1>16, <2>1, TheAttempt DEF Post, Goto, Locked, Settled
  <2>4. Verdicts'
    BY <1>0, <1>16, <2>2 DEF Post, Set, Ledger, Verdicts, Incomplete
  <2> QED
    BY <1>00, <1>16, <2>2, <2>3, <2>4 DEF Post, Ledger, OneAtATime, Known
<1>17. ASSUME NEW w \in Workers, NEW i \in Orders, LearnsRejected(w, i)
      PROVE  Ledger'
  <2>1. pc[w] \in Locked /\ i \in Incomplete
    BY <1>17 DEF LearnsRejected, Locked
  <2>2. PICK status \in {"REJECTED", "NOT_FOUND"} :
           Conclude(i, status) /\ (status = "REJECTED" => order[i] = "dead")
    BY <1>17 DEF LearnsRejected
  <2> QED
    BY <1>00, <1>17, <2>1, <2>2, LedgerConcludes DEF LearnsRejected
<1>18. ASSUME NEW w \in Workers, NEW i \in Orders, RecordExit(w, i)
      PROVE  Ledger'
  <2>1. pc[w] \in Locked /\ i \in Incomplete /\ order[i] = "filled"
    BY <1>18 DEF RecordExit, Locked, Ledger, Known
  <2> QED
    BY <1>00, <1>18, <2>1, LedgerConcludes DEF RecordExit
<1>19. ASSUME NEW w \in Workers, NEW i \in Orders, LearnsFilled(w, i)
      PROVE  Ledger'
  <2>1. pc[w] \in Locked /\ i \in Incomplete
    BY <1>19 DEF LearnsFilled, Locked
  <2>2. Incomplete = {i} /\ Incomplete' = Incomplete
    BY <1>19, <2>1, TheAttempt DEF LearnsFilled, Incomplete
  <2>3. \A v \in Workers : pc'[v] \notin Settled \cup {"post", "record"}
    BY <1>0, <1>19, <2>1, TheAttempt DEF LearnsFilled, Goto, Locked, Settled
  <2> QED
    BY <1>00, <1>19, <2>2, <2>3 DEF LearnsFilled, Ledger, OneAtATime, Verdicts, Known
<1>20. ASSUME NEW w \in Workers, NEW i \in Orders, StageExit(w, i)
      PROVE  Ledger'
  <2>1. pc[w] \in Locked /\ i \in Incomplete /\ order[i] = "filled"
    BY <1>20 DEF StageExit, Locked, Ledger, Known
  <2>2. Incomplete = {i} /\ Incomplete' = Incomplete
    BY <1>20, <2>1, TheAttempt DEF StageExit, Incomplete
  <2>3. \A v \in Workers : pc'[v] \notin Settled \cup {"post", "flat"}
    BY <1>0, <1>20, <2>1, TheAttempt DEF StageExit, Leave, Goto, Locked, Settled
  <2>4. \A v \in Workers : pc'[v] = "record" => attempt[i].symbol \in staged'
    BY <1>0, <1>20, <2>1, TheAttempt DEF StageExit, Leave, Goto, Locked
  <2> QED
    BY <1>00, <1>20, <2>1, <2>2, <2>3, <2>4 DEF StageExit, Ledger, OneAtATime, Verdicts, Known
<1>21. ASSUME NEW w \in Workers, NEW i \in Orders, NEW s \in Symbols, ReserveAttempt(w, i, s)
      PROVE  Ledger'
  <2>1. /\ pc[w] \in Locked /\ op.status # "SWITCH_PENDING" /\ Incomplete = {}
        /\ order[i] = "none"
    BY <1>21 DEF ReserveAttempt, MayReconcile, Fresh, Unused, Ledger, Verdicts, Closing, Flattening, Locked
  <2>2. Incomplete' = {i} /\ attempt'[i] = [status |-> "INCOMPLETE", symbol |-> s]
        /\ \A j \in Orders \ {i} : attempt'[j] = attempt[j]
    BY <1>0, <1>21, <2>1 DEF ReserveAttempt, Incomplete
  <2>3. Verdicts'
    BY <1>21, <2>1, <2>2 DEF ReserveAttempt, Targets, Ledger, Verdicts
  <2>4. \A v \in Workers : pc'[v] \notin Settled \cup {"flat", "record"}
    BY <1>0, <1>21, <2>1, LockHolder DEF ReserveAttempt, Goto, Locked, Settled
  <2> QED
    BY <1>00, <1>21, <2>1, <2>2, <2>3, <2>4 DEF ReserveAttempt, Ledger, OneAtATime, Known
<1>22. CASE RecoverExit
  BY <1>0, <1>00, <1>22, LedgerKept DEF RecoverExit, Calm, Settled
<1>23. CASE RecoverPortfolio
  BY <1>00, <1>23, LedgerKept DEF RecoverPortfolio, MayReconcile
<1>24. CASE SoftRestart
  BY <1>00, <1>24, LedgerKept DEF SoftRestart, Stop, Calm, Settled
<1>25. CASE Crash
  BY <1>00, <1>25, LedgerKept DEF Crash, Stop, Calm, Settled
<1>26. CASE Start
  BY <1>00, <1>26, LedgerKept DEF Start, Calm
<1>27. CASE RunnerFails
  BY <1>00, <1>27, LedgerKept DEF RunnerFails, Calm
<1>28. CASE Preflight
  BY <1>00, <1>28, LedgerKept DEF Preflight, Calm
<1>29. CASE CancelRequest
  BY <1>00, <1>29, LedgerKept DEF CancelRequest, Calm
<1>30. CASE Resume
  BY <1>00, <1>30, LedgerKept DEF Resume, Calm
<1>31. CASE Confirm
  <2>1. op'.status = "FLATTENING"
    BY <1>31 DEF Confirm, NewOperation
  <2>2. \A w \in Workers : Calm(w)
    BY <1>0, <1>31 DEF Confirm, Calm, Settled
  <2> QED
    BY <1>00, <1>31, <2>1, <2>2, LedgerKept DEF Confirm
<1>32. CASE ConfirmFails
  <2>1. op'.status = "FLATTENING" \/ op' = op
    BY <1>32 DEF ConfirmFails, NewOperation
  <2> QED
    BY <1>00, <1>32, <2>1, LedgerKept DEF ConfirmFails, Calm
<1>33. ASSUME NEW scope, NEW broad, NEW switch, Request(scope, broad, switch)
      PROVE  Ledger'
  BY <1>00, <1>33, LedgerKept DEF Request, Calm
<1>34. ASSUME NEW i \in Orders, VenueTakes(i)
      PROVE  Ledger'
  <2>1. /\ \A j \in Orders \ {i} : order'[j] = order[j]
        /\ UNCHANGED <<op, attempt, staged, pc>> /\ order[i] = "sent" /\ Incomplete' = Incomplete
    BY <1>0, <1>34 DEF VenueTakes, Set, Incomplete
  <2> QED
    BY <1>0, <1>00, <2>1 DEF Ledger, OneAtATime, Verdicts, Known, Incomplete
<1>35. ASSUME NEW s \in Symbols, Trade(s)
      PROVE  Ledger'
  BY <1>00, <1>35, LedgerKept DEF Trade, Calm
<1>36. ASSUME NEW s \in Symbols, VenueCloses(s)
      PROVE  Ledger'
  BY <1>00, <1>36, LedgerKept DEF VenueCloses, Calm
<1>37. CASE UNCHANGED vars
  BY <1>00, <1>37, LedgerKept DEF vars, Calm
<1> HIDE DEF durable, venue, process
<1> QED
  BY <1>1, <1>2, <1>3, <1>4, <1>5, <1>6, <1>7, <1>8, <1>9, <1>10, <1>11, <1>12, <1>13, <1>14,
     <1>15, <1>16, <1>17, <1>18, <1>19, <1>20, <1>21, <1>22, <1>23, <1>24, <1>25, <1>26, <1>27,
     <1>28, <1>29, <1>30, <1>31, <1>32, <1>33, <1>34, <1>35, <1>36, <1>37 DEF Next, WorkerStep,
     WorkerFault, RunnerStep, Operator, Venue


-----------------------------------------------------------------------------
(* An attempt belongs to the operation that is open: the worker that       *)
(* reserved it worked for it, and no other begins before the attempt is    *)
(* concluded.                                                              *)
Commissioned == Incomplete # {} => Open /\ \A i \in Incomplete : attempt[i].symbol \in op.scope

Commission   == mishaps = {} => Commissioned

LEMMA CommissionedInit == Init => Commission
BY DEF Init, Commission, Commissioned, Incomplete

LEMMA CommissionedStep ==
    ASSUME TypeInv, Ownership, Ledger, Commissioned, [Next]_vars, mishaps' = {}
    PROVE  Commissioned'
<1>0. op \in Operations /\ attempt \in [Orders -> Attempts]
  BY DEF TypeInv, OperationOK, BooksOK
<1>00. \A w \in Workers : pc[w] \in Settled => Incomplete = {}
  BY DEF Ledger, OneAtATime
<1> USE DEF durable, venue, process
<1>1. ASSUME UNCHANGED <<op, attempt>> PROVE Commissioned'
  BY <1>1 DEF Commissioned, Incomplete, Open
<1>2. ASSUME UNCHANGED attempt, Incomplete = {} PROVE Commissioned'
  BY <1>2 DEF Commissioned, Incomplete
<1>3. ASSUME NEW w \in Workers, Acquire(w) \/ Mark(w) PROVE Commissioned'
  <2>1. /\ attempt' = attempt /\ op'.scope = op.scope
        /\ op'.status = op.status \/ op'.status = "FLATTENING"
    BY <1>0, <1>3 DEF Acquire, Mark, Operations
  <2> QED
    BY <2>1 DEF Commissioned, Incomplete, Open
<1>4. ASSUME NEW w \in Workers, Complete(w) \/ Switched(w) PROVE Commissioned'
  BY <1>00, <1>2, <1>4 DEF Complete, Switched, Settled
<1>5. ASSUME NEW w \in Workers, Reject(w) PROVE Commissioned'
  BY <1>2, <1>5 DEF Reject, MayReconcile
<1>6. CASE Confirm \/ ConfirmFails
  <2>1. Incomplete = {} /\ UNCHANGED attempt
    BY <1>6 DEF Confirm, ConfirmFails, Commissioned, durable
  <2> QED
    BY <1>2, <2>1
<1>7. ASSUME NEW w \in Workers, NEW i \in Orders, NEW s \in Symbols, ReserveAttempt(w, i, s)
      PROVE  Commissioned'
  <2>1. Open
    BY <1>7, Owner DEF ReserveAttempt, AtWork, AtRest
  <2>2. Incomplete' = {i} /\ attempt'[i].symbol = s
    BY <1>0, <1>7 DEF ReserveAttempt, MayReconcile, Incomplete, Fresh, Unused
  <2> QED
    BY <1>7, <2>1, <2>2 DEF ReserveAttempt, Commissioned, Targets, Open
<1>8. ASSUME NEW w \in Workers, NEW i \in Orders, LearnsRejected(w, i) \/ RecordExit(w, i)
      PROVE  Commissioned'
  <2>1. /\ op' = op /\ Incomplete' \subseteq Incomplete
        /\ \A j \in Incomplete' : attempt'[j].symbol = attempt[j].symbol
    BY <1>0, <1>8 DEF LearnsRejected, RecordExit, Conclude, Incomplete, Attempts
  <2> QED
    BY <2>1 DEF Commissioned, Open
<1>9. ASSUME NEW w \in Workers,
             \/ Read(w) \/ CheckAttempts(w) \/ NothingLeft(w) \/ HandOver(w) \/ WorkerFault(w)
             \/ Reconcile(w, "reconcile", "positions") \/ Reconcile(w, "settle", "complete")
             \/ \E i \in Orders : \/ Post(w, i) \/ LearnsAccepted(w, i) \/ LearnsPending(w, i)
                                 \/ LearnsFilled(w, i) \/ StageExit(w, i)
      PROVE  Commissioned'
  <2>1. UNCHANGED <<op, attempt>>
    BY <1>9 DEF Read, CheckAttempts, NothingLeft, HandOver, WorkerFault, StepRaises, RejectFails,
       MarkFails, ReadFails, Reconcile, Post, LearnsAccepted, LearnsPending, LearnsFilled, StageExit
  <2> QED
    BY <1>1, <2>1
<1>10. CASE RunnerStep \/ RunnerFails \/ Crash
  BY <1>1, <1>10 DEF RunnerStep, RecoverExit, RecoverPortfolio, SoftRestart, Start, RunnerFails,
     Crash
<1>11. CASE Operator /\ ~(Confirm \/ ConfirmFails)
  BY <1>1, <1>11 DEF Operator, Request, Preflight, CancelRequest, Resume
<1>12. CASE \/ \E i \in Orders : VenueTakes(i)
            \/ \E s \in Symbols : Trade(s) \/ VenueCloses(s)
  BY <1>1, <1>12 DEF VenueTakes, Trade, VenueCloses
<1>13. CASE UNCHANGED vars
  BY <1>1, <1>13 DEF vars
<1> HIDE DEF durable, venue, process
<1> QED
  BY <1>3, <1>4, <1>5, <1>6, <1>7, <1>8, <1>9, <1>10, <1>11, <1>12, <1>13 DEF Next, WorkerStep,
     Venue

-----------------------------------------------------------------------------
(* Which positions a close order has closed, and which rows are staged: an *)
(* order given up as missing is nobody's to stage.                         *)
Attribution ==
    /\ byExit \cap exposure = {}
    /\ staged \subseteq byExit
    /\ \A i \in Incomplete : order[i] = "filled" => attempt[i].symbol \in byExit
    /\ \A s \in byExit \ staged :
          ClosedLate(s) \/ \E i \in Incomplete : order[i] = "filled" /\ attempt[i].symbol = s

(* The rows that leave the books.                                          *)
Attributed == \A s \in row \ row' :
    /\ s \in staged => s \in byExit
    /\ s \in byExit => s \in staged \/ ClosedLate(s)

LEMMA AttributionInit == Init => Attribution
BY DEF Init, Attribution, Incomplete

(* Nothing that Attribution speaks of changes, except for positions that   *)
(* come (of symbols that are not stored) or go.                            *)
LEMMA AttributionKept ==
    ASSUME Attribution, UNCHANGED <<attempt, order, staged, byExit>>, exposure' \cap byExit = {}
    PROVE  Attribution'
BY DEF Attribution, Incomplete, ClosedLate, GivenUp

(* Reconciled, with no attempt under way: staged and closed by an exit is  *)
(* then the same, but for what an order given up as missing has closed.    *)
LEMMA AttributionReconciled ==
    ASSUME Attribution, MayReconcile, Reconciled, UNCHANGED <<attempt, order, exposure>>
    PROVE  Attribution' /\ Attributed
BY DEF Attribution, Attributed, MayReconcile, Reconciled, Incomplete, ClosedLate, GivenUp

(* Every step keeps it, and rows leave the books by it.                    *)
LEMMA AttributionStep ==
    ASSUME TypeInv, Ledger, Attribution, [Next]_vars
    PROVE  Attribution' /\ Attributed
<1>0. /\ attempt \in [Orders -> Attempts] /\ row \subseteq Symbols
      /\ byExit \subseteq row /\ exposure \subseteq row
      /\ order \in [Orders -> {"none", "sent", "filled", "dead", "partial"}]
  BY DEF TypeInv, BooksOK
<1>00. exposure \cap byExit = {}
  BY DEF Attribution
<1> USE DEF durable, venue, process
<1>1. ASSUME NEW w \in Workers,
             \/ Read(w) \/ Acquire(w) \/ CheckAttempts(w) \/ NothingLeft(w) \/ Complete(w)
             \/ HandOver(w) \/ Switched(w) \/ Mark(w) \/ WorkerFault(w)
             \/ \E i \in Orders : LearnsAccepted(w, i) \/ LearnsPending(w, i) \/ LearnsFilled(w, i)
      PROVE  Attribution' /\ Attributed
  <2>1. UNCHANGED <<attempt, order, staged, byExit, exposure, row>>
    BY <1>1 DEF Read, Acquire, CheckAttempts, NothingLeft, Complete, HandOver, Switched, Mark,
       WorkerFault, StepRaises, RejectFails, MarkFails, ReadFails, LearnsAccepted,
       LearnsPending, LearnsFilled
  <2> QED
    BY <1>00, <2>1, AttributionKept DEF Attributed
<1>2. ASSUME NEW w \in Workers,
             Reject(w) \/ Reconcile(w, "reconcile", "positions") \/ Reconcile(w, "settle", "complete")
      PROVE  Attribution' /\ Attributed
  BY <1>2, AttributionReconciled DEF Reject, Reconcile
<1>3. CASE RecoverPortfolio
  BY <1>3, AttributionReconciled DEF RecoverPortfolio
<1>4. ASSUME NEW w \in Workers, NEW i \in Orders, Post(w, i)
      PROVE  Attribution' /\ Attributed
  <2>1. pc[w] \in Locked /\ order[i] = "none" /\ i \in Incomplete
    BY <1>4 DEF Post, Locked, Ledger, Known
  <2>2. Incomplete = {i} /\ Incomplete' = {i} /\ order'[i] = "sent"
    BY <1>0, <1>4, <2>1, TheAttempt DEF Post, Set, Incomplete
  <2> QED
    BY <1>4, <1>0, <2>1, <2>2 DEF Post, Set, Attribution, Attributed, ClosedLate, GivenUp, Incomplete
<1>5. ASSUME NEW w \in Workers, NEW i \in Orders, LearnsRejected(w, i)
      PROVE  Attribution' /\ Attributed
  <2>1. pc[w] \in Locked /\ i \in Incomplete /\ order[i] \in {"dead", "none", "sent"}
    BY <1>5 DEF LearnsRejected, Locked
  <2>2. PICK status \in {"REJECTED", "NOT_FOUND"} :
           Conclude(i, status) /\ (status = "REJECTED" => order[i] = "dead")
    BY <1>5 DEF LearnsRejected
  <2>3. Incomplete = {i} /\ Incomplete' = {}
    BY <1>5, <2>1, <2>2, TheAttempt, LedgerConcludes, ClosingStep DEF LearnsRejected, Ledger
  <2>4. \A s \in Symbols : ClosedLate(s) => ClosedLate(s)'
    BY <1>0, <1>5, <2>2 DEF LearnsRejected, Conclude, Attempts, ClosedLate, GivenUp
  <2>5. \A s \in byExit \ staged : ClosedLate(s)
    BY <1>0, <1>5, <2>1, <2>3, <2>4 DEF Attribution
  <2> QED
    BY <1>0, <1>5, <2>3, <2>4, <2>5 DEF LearnsRejected, Attribution, Attributed
<1>6. ASSUME NEW w \in Workers, NEW i \in Orders, RecordExit(w, i)
      PROVE  Attribution' /\ Attributed
  <2>1. pc[w] \in Locked /\ i \in Incomplete /\ order[i] = "filled" /\ attempt[i].symbol \in staged
    BY <1>6 DEF RecordExit, Locked, Ledger, Known
  <2>2. Incomplete = {i} /\ Incomplete' = {}
    BY <1>6, <2>1, TheAttempt, LedgerConcludes, ClosingStep DEF RecordExit, Ledger
  <2>3. \A s \in Symbols : ClosedLate(s) => ClosedLate(s)'
    BY <1>0, <1>6, <2>1 DEF RecordExit, Conclude, Attempts, ClosedLate, GivenUp, Incomplete
  <2>5. \A s \in byExit \ staged : ClosedLate(s)
    BY <1>0, <1>6, <2>1, <2>2, <2>3 DEF Attribution
  <2> QED
    BY <1>0, <1>6, <2>2, <2>3, <2>5 DEF RecordExit, Attribution, Attributed
<1>7. ASSUME NEW w \in Workers, NEW i \in Orders, StageExit(w, i)
      PROVE  Attribution' /\ Attributed
  <2>1. i \in Incomplete /\ order[i] = "filled"
    BY <1>7 DEF StageExit, Ledger, Known
  <2> QED
    BY <1>7, <2>1 DEF StageExit, Attribution, Attributed, Incomplete, ClosedLate, GivenUp
<1>8. ASSUME NEW w \in Workers, NEW i \in Orders, NEW s \in Symbols, ReserveAttempt(w, i, s)
      PROVE  Attribution' /\ Attributed
  <2>1. order[i] = "none" /\ Incomplete = {} /\ Incomplete' = {i}
    BY <1>0, <1>8 DEF ReserveAttempt, MayReconcile, Fresh, Unused, Incomplete, Ledger, Verdicts
  <2>2. \A r \in Symbols : ClosedLate(r) => ClosedLate(r)'
    BY <1>0, <1>8 DEF ReserveAttempt, Fresh, Unused, ClosedLate, GivenUp
  <2>3. \A r \in byExit \ staged : ClosedLate(r)
    BY <2>1 DEF Attribution
  <2> QED
    BY <1>0, <1>8, <2>1, <2>2, <2>3 DEF ReserveAttempt, Attribution, Attributed
<1>9. CASE RecoverExit \/ SoftRestart \/ Start \/ RunnerFails \/ Crash
  BY <1>00, <1>9, AttributionKept DEF Attributed, RecoverExit, SoftRestart, Start, RunnerFails, Crash
<1>10. CASE Operator
  BY <1>00, <1>10, AttributionKept DEF Attributed, Operator, Request, Preflight, CancelRequest, Resume,
     Confirm, ConfirmFails
<1>11. ASSUME NEW i \in Orders, VenueTakes(i) PROVE Attribution' /\ Attributed
  <2>1. /\ order[i] = "sent" /\ UNCHANGED <<attempt, staged, row>> /\ Incomplete' = Incomplete
        /\ i \in Incomplete \/ GivenUp(i)
    BY <1>0, <1>11 DEF VenueTakes, Ledger, Verdicts, Incomplete, Attempts, GivenUp
  <2>2. PICK o \in {"filled", "dead", "partial"} : order' = [order EXCEPT ![i] = o]
    BY <1>11 DEF VenueTakes, Set
  <2>3. /\ \A j \in Orders : j # i => order'[j] = order[j]
        /\ order'[i] = o
    BY <1>0, <2>2
  <2>4. \A s \in Symbols : ClosedLate(s) => ClosedLate(s)'
    BY <2>1, <2>3 DEF ClosedLate, GivenUp
  <2>5. CASE /\ attempt[i].symbol \in exposure /\ exposure' = exposure \ {attempt[i].symbol}
             /\ byExit' = byExit \cup {attempt[i].symbol} /\ o = "filled"
    <3>1. ClosedLate(attempt[i].symbol)' \/ i \in Incomplete
      BY <2>1, <2>3, <2>5 DEF ClosedLate, GivenUp
    <3>2. \A j \in Incomplete' : order'[j] = "filled" => attempt'[j].symbol \in byExit'
      <4> SUFFICES ASSUME NEW j \in Incomplete, order'[j] = "filled"
                   PROVE  attempt[j].symbol \in byExit'
        BY <2>1
      <4>1. CASE j = i
        BY <2>5, <4>1
      <4>2. CASE j # i
        BY <2>3, <2>5, <4>2 DEF Attribution, Incomplete
      <4> QED
        BY <4>1, <4>2
    <3>3. \A s \in byExit' \ staged' : ClosedLate(s)'
             \/ \E j \in Incomplete' : order'[j] = "filled" /\ attempt'[j].symbol = s
      <4> SUFFICES ASSUME NEW s \in byExit', s \notin staged
                   PROVE  ClosedLate(s)' \/ \E j \in Incomplete : order'[j] = "filled" /\ attempt[j].symbol = s
        BY <2>1
      <4>1. CASE s = attempt[i].symbol
        <5>1. order'[i] = "filled"
          BY <2>3, <2>5
        <5> QED
          BY <2>1, <3>1, <4>1, <5>1 DEF ClosedLate, GivenUp
      <4>2. CASE s \in byExit
        <5>1. ClosedLate(s) \/ \E j \in Incomplete : order[j] = "filled" /\ attempt[j].symbol = s
          BY <4>2 DEF Attribution
        <5>2. CASE ClosedLate(s)
          BY <1>0, <2>4, <4>2, <5>2 DEF TypeInv, BooksOK
        <5>3. CASE \E j \in Incomplete : order[j] = "filled" /\ attempt[j].symbol = s
          BY <2>1, <2>3, <5>3 DEF Incomplete
        <5> QED
          BY <5>1, <5>2, <5>3
      <4> QED
        BY <2>5, <4>1, <4>2
    <3> QED
      BY <2>1, <2>5, <3>2, <3>3 DEF Attribution, Attributed
  <2>6. CASE UNCHANGED <<exposure, byExit>> /\ o # "filled"
    <3>1. \A j \in Incomplete : order'[j] = "filled" <=> order[j] = "filled"
      BY <2>1, <2>3, <2>6 DEF Incomplete
    <3> QED
      BY <1>0, <2>1, <2>4, <2>6, <3>1 DEF Attribution, Attributed, TypeInv, BooksOK
  <2> QED
    <3>1. CASE o = "filled"
      BY <1>0, <1>11, <2>2, <2>5, <3>1 DEF VenueTakes, Set
    <3>2. CASE o # "filled"
      BY <1>0, <1>11, <2>2, <2>6, <3>2 DEF VenueTakes, Set
    <3> QED
      BY <3>1, <3>2
<1>12. ASSUME NEW s \in Symbols, Trade(s) \/ VenueCloses(s) PROVE Attribution' /\ Attributed
  BY <1>0, <1>00, <1>12, AttributionKept DEF Attributed, Trade, VenueCloses
<1>13. CASE UNCHANGED vars
  BY <1>00, <1>13, AttributionKept DEF Attributed, vars
<1> HIDE DEF durable, venue, process
<1> QED
  BY <1>1, <1>2, <1>3, <1>4, <1>5, <1>6, <1>7, <1>8, <1>9, <1>10, <1>11, <1>12, <1>13 DEF Next,
     WorkerStep, RunnerStep, Venue

-----------------------------------------------------------------------------
(* A close order is sent by Post only.                                     *)
LEMMA SendsConfirmed ==
    ASSUME TypeInv, Ownership, Ledger, Commissioned, [Next]_vars,
           NEW i \in Orders, order[i] = "none", order'[i] # "none"
    PROVE  /\ Open /\ attempt[i].symbol \in op.scope
           /\ control.reserved /\ control.paused
           /\ \A j \in Orders : order[j] = "sent" => GivenUp(j)
<1>0. order \in [Orders -> {"none", "sent", "filled", "dead", "partial"}] /\ attempt \in [Orders -> Attempts]
  BY DEF TypeInv, BooksOK
<1> USE DEF durable, venue, process
<1>1. ASSUME NEW w \in Workers, NEW j \in Orders, Post(w, j)
      PROVE  i = j /\ pc[w] \in Locked /\ i \in Incomplete
  <2>1. \A k \in Orders \ {j} : order'[k] = order[k]
    BY <1>0, <1>1 DEF Post, Set
  <2> QED
    BY <1>1, <2>1 DEF Post, Locked
<1>2. ASSUME NEW w \in Workers, ~\E j \in Orders : Post(w, j)
      PROVE  ~(WorkerStep(w) \/ WorkerFault(w))
  <2>1. ASSUME WorkerStep(w) PROVE UNCHANGED order
    BY <1>2, <2>1 DEF WorkerStep, Read, Acquire, CheckAttempts, NothingLeft, Complete, HandOver,
       Switched, Reject, Mark, Reconcile, Reconciled, LearnsRejected, LearnsAccepted,
       LearnsPending, LearnsFilled, StageExit, RecordExit, ReserveAttempt
  <2>2. ASSUME WorkerFault(w) PROVE UNCHANGED order
    BY <2>2 DEF WorkerFault, StepRaises, RejectFails, MarkFails, ReadFails
  <2> QED
    BY <2>1, <2>2
<1>3. ~RunnerStep /\ ~RunnerFails /\ ~Crash /\ ~Operator /\ ~UNCHANGED vars
  BY DEF RunnerStep, RunnerFails, Crash, Operator, RecoverExit, RecoverPortfolio, SoftRestart,
     Start, Request, Preflight, CancelRequest, Resume, Confirm, ConfirmFails, vars
<1>4. ASSUME NEW j \in Orders, VenueTakes(j) PROVE FALSE
  BY <1>0, <1>4 DEF VenueTakes, Set
<1>5. ASSUME NEW s \in Symbols, Trade(s) \/ VenueCloses(s) PROVE FALSE
  BY <1>5 DEF Trade, VenueCloses
<1> HIDE DEF durable, venue, process
<1>6. PICK w \in Workers : pc[w] \in Locked /\ i \in Incomplete
  BY <1>1, <1>2, <1>3, <1>4, <1>5 DEF Next, Venue
<1>7. Incomplete = {i}
  BY <1>6, TheAttempt
<1>8. \A j \in Orders : order[j] = "sent" => GivenUp(j)
  <2> SUFFICES ASSUME NEW j \in Orders, order[j] = "sent" PROVE GivenUp(j)
    OBVIOUS
  <2>1. order[i] # "sent"
    OBVIOUS
  <2>2. j \notin Incomplete
    BY <1>7, <2>1
  <2> QED
    BY <1>0, <2>2 DEF Ledger, Verdicts, Incomplete, Attempts, GivenUp
<1> QED
  BY <1>6, <1>7, <1>8, Owner DEF Commissioned, AtWork, AtRest, Locked

-----------------------------------------------------------------------------
(* The refinement. A step leaves the ledger of attempts alone, or is the   *)
(* ledger's own step for one close attempt.                                *)
AttemptStep == Attempted!LedgerNext \/ UNCHANGED Attempted!ledger

LEMMA NothingAttempted == ASSUME UNCHANGED <<attempt, order>> PROVE AttemptStep
BY DEF AttemptStep, Attempted!ledger, Incomplete, VerdictOf, GivenUp

LEMMA AttemptReserved ==
    ASSUME TypeInv, Ledger, NEW w \in Workers, NEW i \in Orders, NEW s \in Symbols,
           ReserveAttempt(w, i, s)
    PROVE  AttemptStep
<1>0. attempt \in [Orders -> Attempts]
  BY DEF TypeInv, BooksOK
<1>1. /\ i \in Unused /\ Incomplete = {} /\ order' = order
      /\ attempt' = [attempt EXCEPT ![i] = [status |-> "INCOMPLETE", symbol |-> s]]
  BY DEF ReserveAttempt, MayReconcile, Fresh, venue
<1>2. Incomplete' = {i}
  BY <1>0, <1>1 DEF Incomplete
<1>3. VerdictOf(i) = "pending" /\ \A j \in Orders : VerdictOf(j)' = VerdictOf(j)
  BY <1>0, <1>1 DEF VerdictOf, GivenUp, Unused
<1>4. Attempted!Own(i)
  BY <1>1, <1>2, <1>3 DEF Attempted!Own
<1> QED
  BY <1>4 DEF AttemptStep, Attempted!LedgerNext

LEMMA AttemptSent ==
    ASSUME TypeInv, Ledger, NEW w \in Workers, NEW i \in Orders, Post(w, i)
    PROVE  AttemptStep
<1>0. order \in [Orders -> {"none", "sent", "filled", "dead", "partial"}]
  BY DEF TypeInv, BooksOK
<1>1. /\ i \in Incomplete /\ order[i] = "none" /\ attempt' = attempt
      /\ order' = [order EXCEPT ![i] = "sent"]
  BY DEF Post, Set, Ledger, Known, durable
<1>2. Incomplete' = Incomplete /\ \A j \in Orders : VerdictOf(j)' = VerdictOf(j)
  BY <1>0, <1>1 DEF VerdictOf, GivenUp, Incomplete
<1>3. /\ {j \in Orders : order'[j] # "none"} = {j \in Orders : order[j] # "none"} \cup {i}
      /\ {j \in Orders : order'[j] = "filled"} = {j \in Orders : order[j] = "filled"}
  BY <1>0, <1>1
<1>4. Attempted!Send(i)
  BY <1>1, <1>2, <1>3 DEF Attempted!Send
<1> QED
  BY <1>4 DEF AttemptStep, Attempted!LedgerNext

(* An order that the venue still takes is that of the open attempt, or of  *)
(* one given up as missing.                                                *)
LEMMA AttemptTaken ==
    ASSUME TypeInv, Ledger, NEW i \in Orders, VenueTakes(i)
    PROVE  AttemptStep
<1>0. /\ attempt \in [Orders -> Attempts]
      /\ order \in [Orders -> {"none", "sent", "filled", "dead", "partial"}]
  BY DEF TypeInv, BooksOK
<1>1. PICK o \in {"filled", "dead", "partial"} : order' = [order EXCEPT ![i] = o]
  BY DEF VenueTakes, Set
<1>2. order[i] = "sent" /\ attempt' = attempt
  BY DEF VenueTakes, durable
<1>3. i \in Incomplete \/ VerdictOf(i) = "missing"
  BY <1>0, <1>2 DEF Ledger, Verdicts, Attempts, Incomplete, VerdictOf, GivenUp
<1>4. Incomplete' = Incomplete /\ \A j \in Orders : VerdictOf(j)' = VerdictOf(j)
  BY <1>2 DEF VerdictOf, GivenUp, Incomplete
<1>5. {j \in Orders : order'[j] # "none"} = {j \in Orders : order[j] # "none"}
  BY <1>0, <1>1, <1>2
<1>6. CASE o = "filled"
  <2>1. {j \in Orders : order'[j] = "filled"} = {j \in Orders : order[j] = "filled"} \cup {i}
    BY <1>0, <1>1, <1>6
  <2>2. Attempted!Execute(i)
    BY <1>2, <1>3, <1>4, <1>5, <2>1 DEF Attempted!Execute
  <2> QED
    BY <2>2 DEF AttemptStep, Attempted!LedgerNext
<1>7. CASE o # "filled"
  <2>1. {j \in Orders : order'[j] = "filled"} = {j \in Orders : order[j] = "filled"}
    BY <1>0, <1>1, <1>2, <1>7
  <2> QED
    BY <1>4, <1>5, <2>1 DEF AttemptStep, Attempted!ledger
<1> QED
  BY <1>6, <1>7

LEMMA AttemptConcluded ==
    ASSUME TypeInv, NEW i \in Incomplete, NEW st \in {"REJECTED", "NOT_FOUND", "COMPLETED"},
           Conclude(i, st), order' = order,
           st = "COMPLETED" => order[i] = "filled", st = "REJECTED" => order[i] = "dead",
           st = "NOT_FOUND" => order[i] \in {"none", "sent"}
    PROVE  AttemptStep
<1> DEFINE v == VerdictOf(i)'
<1>0. attempt \in [Orders -> Attempts] /\ i \in Orders
  BY DEF TypeInv, BooksOK, Incomplete
<1>1. /\ \A j \in Orders \ {i} : attempt'[j] = attempt[j]
      /\ attempt'[i].status = st
  BY <1>0 DEF Conclude, Attempts
<1>2. Incomplete' = Incomplete \ {i}
  BY <1>0, <1>1 DEF Incomplete
<1>3. /\ v = IF st = "COMPLETED" THEN "executed" ELSE IF st = "REJECTED" THEN "refused" ELSE "missing"
      /\ \A j \in Orders \ {i} : VerdictOf(j)' = VerdictOf(j)
  BY <1>0, <1>1 DEF VerdictOf, GivenUp
<1>4. [j \in Orders |-> VerdictOf(j)]' = [[j \in Orders |-> VerdictOf(j)] EXCEPT ![i] = v]
  BY <1>0, <1>3
<1> HIDE DEF v
<1>5. PICK verdict \in Attempted!Verdicts : verdict = v
  BY <1>3 DEF Attempted!Verdicts
<1>6. Attempted!GiveUp(i, verdict)
  BY <1>0, <1>2, <1>3, <1>4, <1>5 DEF Attempted!GiveUp, Attempted!Proven
<1> QED
  BY <1>0, <1>6 DEF AttemptStep, Attempted!LedgerNext

LEMMA StepAttempts ==
    ASSUME TypeInv, Ledger, [Next]_vars
    PROVE  AttemptStep
<1> USE DEF durable, venue, process
<1>1. ASSUME NEW w \in Workers, WorkerStep(w) PROVE AttemptStep
  <2>1. ASSUME NEW i \in Orders, LearnsRejected(w, i) PROVE AttemptStep
    BY <2>1, AttemptConcluded DEF LearnsRejected
  <2>2. ASSUME NEW i \in Orders, RecordExit(w, i) PROVE AttemptStep
    <3>1. order[i] = "filled"
      BY <2>2 DEF RecordExit, Ledger, Known
    <3> QED
      BY <2>2, <3>1, AttemptConcluded DEF RecordExit
  <2>3. ASSUME NEW i \in Orders, LearnsAccepted(w, i) \/ LearnsPending(w, i) \/ LearnsFilled(w, i)
                                 \/ StageExit(w, i)
        PROVE  AttemptStep
    BY <2>3, NothingAttempted DEF LearnsAccepted, LearnsPending, LearnsFilled, StageExit
  <2>4. ASSUME \/ Read(w) \/ Acquire(w) \/ CheckAttempts(w) \/ NothingLeft(w) \/ Complete(w)
               \/ HandOver(w) \/ Switched(w) \/ Reject(w) \/ Mark(w)
               \/ Reconcile(w, "reconcile", "positions") \/ Reconcile(w, "settle", "complete")
        PROVE  AttemptStep
    BY <2>4, NothingAttempted DEF Read, Acquire, CheckAttempts, NothingLeft, Complete, HandOver,
       Switched, Reject, Mark, Reconcile, Reconciled
  <2> QED
    BY <1>1, <2>1, <2>2, <2>3, <2>4, AttemptReserved, AttemptSent DEF WorkerStep
<1>2. ASSUME NEW w \in Workers, WorkerFault(w) PROVE AttemptStep
  BY <1>2, NothingAttempted DEF WorkerFault, StepRaises, RejectFails, MarkFails, ReadFails
<1>3. ASSUME RunnerStep \/ RunnerFails \/ Crash \/ Operator \/ UNCHANGED vars PROVE AttemptStep
  BY <1>3, NothingAttempted DEF RunnerStep, RunnerFails, Crash, Operator, RecoverExit,
     RecoverPortfolio, SoftRestart, Start, Request, Preflight, CancelRequest, Resume, Confirm,
     ConfirmFails, vars
<1>4. ASSUME NEW s \in Symbols, Trade(s) \/ VenueCloses(s) PROVE AttemptStep
  BY <1>4, NothingAttempted DEF Trade, VenueCloses
<1> HIDE DEF durable, venue, process
<1> QED
  BY <1>1, <1>2, <1>3, <1>4, AttemptTaken DEF Next, Venue

LEMMA InitAttempts == Init => Attempted!LedgerInit
BY DEF Init, Attempted!LedgerInit, Incomplete, VerdictOf, GivenUp

-----------------------------------------------------------------------------
LEMMA TypeInvariant == Spec => [](TypeInv /\ MishapsOK)
<1>1. Init => MishapsOK
  BY DEF Init, MishapsOK
<1> QED
  BY <1>1, TypeInit, TypeStep, MishapsStay, PTL DEF Spec

(* Every variable stays in its type, and _operation_lock is held exactly   *)
(* by the worker that is inside _run_operation().                          *)
THEOREM TypeCorrect == Spec => []TypeOK
BY TypeInvariant, TypeParts, PTL

LEMMA OwnershipInvariant == Spec => []Owned
<1>1. TypeInv /\ MishapsOK /\ Owned /\ [Next]_vars => Owned'
  <2> SUFFICES ASSUME TypeInv, Owned, [Next]_vars, mishaps' = {} PROVE Ownership'
    BY DEF Owned
  <2>1. mishaps = {}
    BY MishapsStay
  <2> QED
    BY <2>1, OwnershipStep DEF Owned
<1> QED
  BY <1>1, OwnershipInit, TypeInvariant, PTL DEF Spec

(* The handler of the confirmation, the background worker it leaves behind *)
(* and the runner's recovery never work on an operation together, and      *)
(* whoever does holds the paused runtime, unless reserve_operation() has   *)
(* raised with its row stored, or the last read of a worker whose          *)
(* operation was over has raised or was overtaken by the next request.     *)
THEOREM OneWorker == Spec => []OneWorkerUnderReservation
<1>1. Owned => OneWorkerUnderReservation
  BY Owner DEF Owned, OneWorkerUnderReservation, AtWork
<1> QED
  BY <1>1, OwnershipInvariant, PTL

LEMMA LedgerInvariant == Spec => []Ledger
BY LedgerInit, LedgerStep, TypeInvariant, PTL DEF Spec

LEMMA CommissionedInvariant == Spec => []Commission
<1>1. TypeInv /\ MishapsOK /\ Owned /\ Ledger /\ Commission /\ [Next]_vars => Commission'
  <2> SUFFICES ASSUME TypeInv, Owned, Ledger, Commission, [Next]_vars, mishaps' = {}
               PROVE  Commissioned'
    BY DEF Commission
  <2>1. mishaps = {}
    BY MishapsStay
  <2> QED
    BY <2>1, CommissionedStep DEF Owned, Commission
<1> QED
  BY <1>1, CommissionedInit, TypeInvariant, OwnershipInvariant, LedgerInvariant, PTL DEF Spec

(* Once the runtime is given back no close order is left that may still    *)
(* execute, but for those that one look-up did not find.                   *)
THEOREM ReleasedSettled == Spec => []ReleasedIsSettled
<1>1. TypeInv /\ Owned /\ Ledger /\ Commission => ReleasedIsSettled
  BY DEF TypeInv, BooksOK, Attempts, Owned, Ownership, OpenIsReserved, Commission, Commissioned,
     Ledger, Verdicts, Incomplete, GivenUp, ReleasedIsSettled
<1> QED
  BY <1>1, TypeInvariant, OwnershipInvariant, LedgerInvariant, CommissionedInvariant, PTL

(* The close attempts implement the ledger that the entries implement too: *)
(* one is owned at a time, its order is sent once, and the verdict on it   *)
(* is final and true, whichever of the three workers wrote it, through     *)
(* crashes and failing calls; only one given up as missing executes later. *)
THEOREM ExitsLedger == Spec => ExitsImplementLedger
<1>1. TypeInv /\ Ledger /\ [Next]_vars => [Attempted!LedgerNext]_(Attempted!ledger)
  BY StepAttempts DEF AttemptStep
<1> QED
  BY <1>1, InitAttempts, TypeInvariant, LedgerInvariant, PTL
     DEF Spec, ExitsImplementLedger, Attempted!LedgerSpec

(* A completed attempt has executed, and at most one is not concluded.     *)
CompletedHasExecuted ==
    /\ \A i \in Orders : attempt[i].status = "COMPLETED" => order[i] = "filled"
    /\ \A i, j \in Incomplete : i = j

(* What a look-up misses, and whatever else goes wrong, cannot make an     *)
(* exit that did not happen.                                               *)
THEOREM CompletedExecuted == Spec => []CompletedHasExecuted
<1>1. Ledger => CompletedHasExecuted
  BY DEF Ledger, OneAtATime, Verdicts, CompletedHasExecuted
<1> QED
  BY <1>1, LedgerInvariant, PTL

(* Until a mishap, close orders are sent for confirmed symbols only, one   *)
(* at a time but for those given up as missing, and while nothing else can *)
(* trade.                                                                  *)
THEOREM SentConfirmed == Spec => ExitsOnlyConfirmed
<1> DEFINE Confirmed == \A i \in Orders :
              mishaps = {} /\ order[i] = "none" /\ order'[i] # "none" =>
                /\ Open /\ attempt[i].symbol \in op.scope
                /\ control.reserved /\ control.paused
                /\ \A j \in Orders : order[j] = "sent" => GivenUp(j)
<1>1. TypeInv /\ Owned /\ Ledger /\ Commission /\ [Next]_vars => [Confirmed]_vars
  BY SendsConfirmed DEF Owned, Commission
<1> QED
  BY <1>1, TypeInvariant, OwnershipInvariant, LedgerInvariant, CommissionedInvariant, PTL
     DEF Spec, ExitsOnlyConfirmed

(* A closed position leaves the books as an operator exit exactly when a   *)
(* close order closed it, also when a stop or a target fired meanwhile,    *)
(* unless an order given up as missing did.                                *)
THEOREM AttributedExits == Spec => ExitIsAttributed
<1> DEFINE Rows == \A s \in row \ row' :
              /\ s \in staged => s \in byExit
              /\ s \in byExit => s \in staged \/ ClosedLate(s)
<1>1. TypeInv /\ Ledger /\ Attribution /\ [Next]_vars => Attribution' /\ [Rows]_vars
  BY AttributionStep DEF Attributed
<1> QED
  BY <1>1, AttributionInit, TypeInvariant, LedgerInvariant, PTL DEF Spec, ExitIsAttributed
=============================================================================
