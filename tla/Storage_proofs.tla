--------------------------- MODULE Storage_proofs ---------------------------
(* Proofs about the bot's file: of SharedConnection, for any calls of any  *)
(* length, and of SchemaMigration, for any number of processes, migrations *)
(* and statements, wherever processes stop.                                *)
EXTENDS SharedConnection, SchemaMigration, TLAPS

(* A call that has a statement to run has one left.                        *)
Progress == \A c \in Calls :
    /\ pc[c] \in {"ready", "begin"} => ran[c] = 0
    /\ pc[c] = "statement" => ran[c] < Length[c]
    /\ pc[c] = "commit" => ran[c] = Length[c]

ConnectionTypeInv == ConnectionTypeOK /\ Progress

(* An open transaction has a call that will end it; without one the        *)
(* connection shows what is on disk.                                       *)
OpenIsAttended ==
    /\ ~open => view = disk
    /\ open => \E c \in Calls : pc[c] \in {"statement", "commit", "rollback"}

LEMMA LengthType ==
    ASSUME NEW c \in Calls PROVE Length[c] \in Nat /\ Length[c] >= 1
BY LengthAssumption

LEMMA WriteOf ==
    ASSUME NEW c \in Calls, NEW n \in 1 .. Length[c]
    PROVE  <<c, n>> \in Writes(c) /\ <<c, n>> \in AllWrites
BY DEF Writes, AllWrites

-----------------------------------------------------------------------------
LEMMA ConnectionTypeInit == ConnectionInit => ConnectionTypeInv
<1> SUFFICES ASSUME ConnectionInit PROVE ConnectionTypeInv
  OBVIOUS
<1>1. ASSUME NEW c \in Calls PROVE pc[c] = "ready" /\ ran[c] = 0 /\ ran[c] <= Length[c]
  <2>1. Length[c] \in Nat
    BY LengthType
  <2>2. pc[c] = "ready" /\ ran[c] = 0
    BY DEF ConnectionInit
  <2> QED
    BY <2>1, <2>2
<1>2. pc \in [Calls -> Places] /\ ran \in [Calls -> Nat]
  BY DEF ConnectionInit, Places
<1>3. disk \subseteq AllWrites /\ view \subseteq AllWrites /\ open \in BOOLEAN
      /\ overlapped \in BOOLEAN
  BY DEF ConnectionInit
<1> QED
  BY <1>1, <1>2, <1>3 DEF ConnectionTypeInv, ConnectionTypeOK, Progress

LEMMA ConnectionTypeStep == ConnectionTypeInv /\ [ConnectionNext]_connectionVars => ConnectionTypeInv'
<1> SUFFICES ASSUME ConnectionTypeInv, [ConnectionNext]_connectionVars PROVE ConnectionTypeInv'
  OBVIOUS
<1> USE DEF ConnectionTypeInv, ConnectionTypeOK, Progress, Places
<1>1. CASE Crash
  BY <1>1 DEF Crash, Busy
<1>2. ASSUME NEW c \in Calls, CallStep(c) PROVE ConnectionTypeInv'
  <2>0. Length[c] \in Nat /\ Length[c] >= 1 /\ ran[c] \in Nat
    BY LengthType
  <2>1. CASE Enter(c)
    BY <2>0, <2>1 DEF Enter, At
  <2>2. CASE Begin(c)
    BY <2>0, <2>2 DEF Begin, At
  <2>3. CASE Statement(c)
    <3>1. <<c, ran[c] + 1>> \in AllWrites
      BY <2>0, <2>3, WriteOf DEF Statement
    <3>2. ran' = [ran EXCEPT ![c] = ran[c] + 1] /\ ran[c] < Length[c]
      BY <2>3 DEF Statement
    <3>3. pc' \in [Calls -> Places] /\ ran' \in [Calls -> Nat]
      BY <2>0, <2>3, <3>2 DEF Statement, At
    <3>4. \A d \in Calls : ran'[d] <= Length[d]
      BY <2>0, <3>2
    <3>5. view' \subseteq AllWrites /\ disk' \subseteq AllWrites /\ open' \in BOOLEAN
      BY <2>3, <3>1 DEF Statement
    <3>6. Progress'
      BY <2>0, <2>3, <3>2 DEF Statement, At
    <3>7. overlapped' \in BOOLEAN
      BY <2>3 DEF Statement
    <3> QED
      BY <3>3, <3>4, <3>5, <3>6, <3>7
  <2>4. CASE StatementFails(c) \/ Commit(c) \/ CommitFails(c) \/ Rollback(c)
    BY <2>4 DEF StatementFails, Commit, CommitFails, Rollback, At
  <2> QED
    BY <1>2, <2>1, <2>2, <2>3, <2>4 DEF CallStep
<1>3. CASE UNCHANGED connectionVars
  BY <1>3 DEF connectionVars
<1> QED
  BY <1>1, <1>2, <1>3 DEF ConnectionNext

(* Every variable stays in its type and no call of execute, execute_many   *)
(* or transaction runs a statement too many.                               *)
THEOREM ConnectionTypeCorrect == ConnectionSpec => []ConnectionTypeOK
<1>1. ConnectionTypeInv => ConnectionTypeOK
  BY DEF ConnectionTypeInv
<1> QED
  BY <1>1, ConnectionTypeInit, ConnectionTypeStep, PTL DEF ConnectionSpec

-----------------------------------------------------------------------------
LEMMA AttendedStep == ConnectionTypeInv /\ OpenIsAttended /\ [ConnectionNext]_connectionVars => OpenIsAttended'
<1> SUFFICES ASSUME ConnectionTypeInv, OpenIsAttended, [ConnectionNext]_connectionVars PROVE OpenIsAttended'
  OBVIOUS
<1> USE DEF ConnectionTypeInv, ConnectionTypeOK, OpenIsAttended, Places
<1>1. CASE Crash
  BY <1>1 DEF Crash
<1>2. ASSUME NEW c \in Calls, CallStep(c) PROVE OpenIsAttended'
  <2>1. CASE Enter(c)
    BY <2>1 DEF Enter, At
  <2>2. CASE Begin(c)
    BY <2>2 DEF Begin, At
  <2>3. CASE Statement(c) \/ StatementFails(c)
    BY <2>3 DEF Statement, StatementFails, At
  <2>4. CASE Commit(c) \/ CommitFails(c) \/ Rollback(c)
    BY <2>4 DEF Commit, CommitFails, Rollback, At
  <2> QED
    BY <1>2, <2>1, <2>2, <2>3, <2>4 DEF CallStep
<1>3. CASE UNCHANGED connectionVars
  BY <1>3 DEF connectionVars
<1> QED
  BY <1>1, <1>2, <1>3 DEF ConnectionNext

(* However the calls of SQLiteDatabase interleave and fail, the connection *)
(* is never left inside a transaction that no call will end.               *)
THEOREM NothingLeftOpen == ConnectionSpec => []QuietMeansCommitted
<1>1. ConnectionInit => OpenIsAttended
  BY DEF ConnectionInit, OpenIsAttended
<1>2. OpenIsAttended => QuietMeansCommitted
  BY DEF OpenIsAttended, QuietMeansCommitted, Busy
<1> QED
  BY <1>1, <1>2, ConnectionTypeInit, ConnectionTypeStep, AttendedStep, PTL DEF ConnectionSpec

-----------------------------------------------------------------------------
(* What holds as long as no call began while another was under way: the    *)
(* one call under way is alone, and the connection shows the disk with     *)
(* what that call has written.                                             *)
Written(c, k) == {<<c, n>> : n \in 1 .. k}

Alone == \A c, d \in Calls : Busy(c) /\ Busy(d) => c = d

OwnView == \A c \in Calls :
    /\ pc[c] = "begin" => ~open
    /\ pc[c] = "statement" => view = disk \cup Written(c, ran[c])
    /\ pc[c] = "commit" => view = disk \cup Writes(c)

Serial == ConnectionTypeInv /\ OpenIsAttended /\ Alone /\ OwnView

SerialInv == ConnectionTypeInv /\ OpenIsAttended /\ (~overlapped => Alone /\ OwnView)

LEMMA WrittenAll == ASSUME NEW c \in Calls PROVE Written(c, Length[c]) = Writes(c)
BY DEF Written, Writes

LEMMA WrittenNext ==
    ASSUME NEW c \in Calls, NEW k \in Nat
    PROVE  Written(c, k + 1) = Written(c, k) \cup {<<c, k + 1>>} /\ Written(c, 0) = {}
<1>1. 1 .. (k + 1) = (1 .. k) \cup {k + 1} /\ 1 .. 0 = {}
  OBVIOUS
<1> QED
  BY <1>1 DEF Written

LEMMA SerialInit == ConnectionInit => SerialInv
BY ConnectionTypeInit DEF ConnectionInit, SerialInv, OpenIsAttended, Alone, OwnView, Busy

(* A step of one call leaves every other call where it is.                 *)
LEMMA AloneStep ==
    ASSUME Serial, ~overlapped', NEW c \in Calls, CallStep(c)
    PROVE  /\ Alone'
           /\ \A d \in Calls \ {c} : pc'[d] = pc[d] /\ ~Busy(d)
<1> USE DEF Serial, ConnectionTypeInv, ConnectionTypeOK, Alone, Busy
<1>1. \A d \in Calls \ {c} : pc'[d] = pc[d]
  BY DEF CallStep, Enter, Begin, Statement, StatementFails, Commit, CommitFails, Rollback, At
<1>2. CASE Enter(c)
  BY <1>1, <1>2 DEF Enter
<1>3. CASE ~Enter(c)
  <2>1. Busy(c)
    BY <1>3 DEF CallStep, Begin, Statement, StatementFails, Commit, CommitFails, Rollback
  <2> QED
    BY <1>1, <2>1
<1> QED
  BY <1>2, <1>3

LEMMA OwnViewStep ==
    ASSUME Serial, ~overlapped', NEW c \in Calls, CallStep(c)
    PROVE  OwnView'
<1>0. /\ Alone'
      /\ \A d \in Calls \ {c} : pc'[d] = pc[d] /\ ~Busy(d)
  BY AloneStep
<1>1. \A d \in Calls \ {c} : pc'[d] \notin {"begin", "statement", "commit"}
  BY <1>0 DEF Busy
<1>2. /\ pc'[c] = "begin" => ~open'
      /\ pc'[c] = "statement" => view' = disk' \cup Written(c, ran'[c])
      /\ pc'[c] = "commit" => view' = disk' \cup Writes(c)
  <2> USE DEF Serial, ConnectionTypeInv, ConnectionTypeOK, At
  <2>1. CASE Enter(c)
    <3>1. ~open /\ view = disk
      BY <2>1, <1>0 DEF Enter, OpenIsAttended, Busy
    <3>2. ran'[c] = 0 /\ Written(c, 0) = {}
      BY <2>1, WrittenNext DEF Enter, Progress
    <3> QED
      BY <2>1, <3>1, <3>2 DEF Enter
  <2>2. CASE Begin(c)
    <3>1. ~open /\ view = disk
      BY <2>2 DEF Begin, OwnView, OpenIsAttended
    <3>2. ran'[c] = 0 /\ Written(c, 0) = {}
      BY <2>2, WrittenNext DEF Begin, Progress
    <3> QED
      BY <2>2, <3>1, <3>2 DEF Begin
  <2>3. CASE Statement(c)
    <3>1. ran[c] \in Nat /\ ran'[c] = ran[c] + 1
      BY <2>3 DEF Statement
    <3>2. view = disk \cup Written(c, ran[c])
      BY <2>3 DEF Statement, OwnView
    <3>3. view' = disk' \cup Written(c, ran'[c])
      BY <2>3, <3>1, <3>2, WrittenNext DEF Statement
    <3>4. pc'[c] = "commit" => ran'[c] = Length[c]
      BY <2>3, <3>1 DEF Statement
    <3>5. pc'[c] # "begin"
      BY <2>3 DEF Statement
    <3> QED
      BY <3>3, <3>4, <3>5, WrittenAll
  <2>4. CASE StatementFails(c) \/ Commit(c) \/ CommitFails(c) \/ Rollback(c)
    BY <2>4 DEF StatementFails, Commit, CommitFails, Rollback
  <2> QED
    BY <2>1, <2>2, <2>3, <2>4 DEF CallStep
<1> QED
  BY <1>1, <1>2 DEF OwnView

(* Once calls have overlapped, they have.                                  *)
LEMMA OverlappedStays ==
    ASSUME ConnectionTypeInv, [ConnectionNext]_connectionVars, ~overlapped'
    PROVE  ~overlapped
<1> USE DEF ConnectionTypeInv, ConnectionTypeOK
<1>1. CASE Crash \/ UNCHANGED connectionVars
  BY <1>1 DEF Crash, connectionVars
<1>2. ASSUME NEW c \in Calls, CallStep(c) PROVE ~overlapped
  BY <1>2 DEF CallStep, Enter, Begin, Statement, StatementFails, Commit, CommitFails, Rollback
<1> QED
  BY <1>1, <1>2 DEF ConnectionNext

LEMMA SerialStep ==
    ASSUME SerialInv, [ConnectionNext]_connectionVars
    PROVE  SerialInv'
<1>1. ConnectionTypeInv' /\ OpenIsAttended'
  BY ConnectionTypeStep, AttendedStep DEF SerialInv
<1>2. ASSUME ~overlapped' PROVE Alone' /\ OwnView'
  <2>1. Serial
    BY <1>2, OverlappedStays DEF SerialInv, Serial
  <2>2. CASE Crash
    BY <2>1, <2>2 DEF Crash, Serial, ConnectionTypeInv, ConnectionTypeOK, Alone, OwnView, Busy
  <2>3. ASSUME NEW c \in Calls, CallStep(c) PROVE Alone' /\ OwnView'
    BY <1>2, <2>1, <2>3, AloneStep, OwnViewStep
  <2>4. CASE UNCHANGED connectionVars
    BY <2>1, <2>4 DEF connectionVars, Serial, ConnectionTypeInv, ConnectionTypeOK, Alone, OwnView, Busy
  <2> QED
    BY <2>2, <2>3, <2>4 DEF ConnectionNext
<1> QED
  BY <1>1, <1>2 DEF SerialInv

(* Every step of a call alone is a step of the store, or none.             *)
LEMMA RefinesCall ==
    ASSUME Serial, ~overlapped', NEW c \in Calls, CallStep(c)
    PROVE  [Store!StoreNext]_(Store!told)
<1> USE DEF Serial, ConnectionTypeInv, ConnectionTypeOK, At
<1> DEFINE Out == [d \in Calls |->
                     IF pc[d] = "returned" THEN "returned"
                     ELSE IF pc[d] \in {"raised", "lost"} THEN "failed" ELSE "pending"]
<1>1. CASE Enter(c) \/ Begin(c) \/ Statement(c) \/ StatementFails(c)
  <2>1. disk' = disk
    BY <1>1 DEF Enter, Begin, Statement, StatementFails
  <2>2. \A d \in Calls : Out'[d] = Out[d]
    BY <1>1 DEF Enter, Begin, Statement, StatementFails
  <2>3. Out' = Out
    BY <2>2
  <2> QED
    BY <2>1, <2>3 DEF Store!told
<1>2. CASE Commit(c)
  <2>1. disk' = disk \cup Writes(c) /\ Out[c] = "pending"
    BY <1>2 DEF Commit, OwnView
  <2>2. Out' = [Out EXCEPT ![c] = "returned"]
    BY <1>2 DEF Commit
  <2> QED
    BY <2>1, <2>2 DEF Store!StoreNext, Store!Succeed
<1>3. CASE CommitFails(c)
  <2>1. Out[c] = "pending" /\ Out' = Out
    BY <1>3 DEF CommitFails
  <2>2. disk' = disk \cup Writes(c) \/ disk' = disk
    BY <1>3 DEF CommitFails, OwnView
  <2> QED
    BY <2>1, <2>2 DEF Store!StoreNext, Store!Apply, Store!told
<1>4. CASE Rollback(c)
  <2>1. disk' = disk /\ Out[c] = "pending"
    BY <1>4 DEF Rollback
  <2>2. Out' = [Out EXCEPT ![c] = "failed"]
    BY <1>4 DEF Rollback
  <2> QED
    BY <2>1, <2>2 DEF Store!StoreNext, Store!Fail
<1> QED
  BY <1>1, <1>2, <1>3, <1>4 DEF CallStep

(* A crash fails the one call that was under way.                          *)
LEMMA RefinesCrash ==
    ASSUME Serial, Crash
    PROVE  Store!StoreNext
<1> USE DEF Serial, ConnectionTypeInv, ConnectionTypeOK
<1> DEFINE Out == [d \in Calls |->
                     IF pc[d] = "returned" THEN "returned"
                     ELSE IF pc[d] \in {"raised", "lost"} THEN "failed" ELSE "pending"]
<1>1. PICK c \in Calls : Busy(c)
  BY DEF Crash
<1>2. \A d \in Calls \ {c} : pc'[d] = pc[d]
  BY <1>1 DEF Crash, Alone
<1>3. pc'[c] = "lost" /\ Out[c] = "pending" /\ disk' = disk
  BY <1>1 DEF Crash, Busy
<1>4. Out' = [Out EXCEPT ![c] = "failed"]
  BY <1>2, <1>3
<1> QED
  BY <1>3, <1>4 DEF Store!StoreNext, Store!Fail

(* As long as no call of SQLiteDatabase begins while another is under way, *)
(* calls take effect as a store with atomic and durable calls would have   *)
(* them, whatever fails and wherever the process stops.                    *)
THEOREM SerialCallsAreAtomic == ConnectionSpec => ImplementsStore
<1>1. ConnectionInit => Store!StoreInit
  BY DEF ConnectionInit, Store!StoreInit
<1>2. SerialInv /\ [ConnectionNext]_connectionVars => [overlapped' \/ Store!StoreNext]_(Store!told)
  <2> SUFFICES ASSUME SerialInv, [ConnectionNext]_connectionVars, ~overlapped'
               PROVE  [Store!StoreNext]_(Store!told)
    OBVIOUS
  <2>1. Serial
    BY OverlappedStays DEF SerialInv, Serial
  <2>2. CASE UNCHANGED connectionVars
    BY <2>2 DEF connectionVars, Store!told
  <2> QED
    BY <2>1, <2>2, RefinesCall, RefinesCrash DEF ConnectionNext
<1>3. SerialInv /\ [ConnectionNext]_connectionVars => SerialInv'
  BY SerialStep
<1> QED
  BY <1>1, <1>2, <1>3, SerialInit, PTL DEF ConnectionSpec, ImplementsStore

-----------------------------------------------------------------------------
(* The migrations of the schema.                                           *)
(* Of the recorded versions one is the latest: Max is defined by choice.   *)
HasLatest == recorded = {} \/ \E v \in recorded : \A u \in recorded : v >= u

(* A process that applies a migration has everything before the statement  *)
(* it is about to run in effect, whoever ran it; one that records it, all  *)
(* of it. What it read of the file may be out of date, but not undone.     *)
ProcessIsOnTop == \A p \in Processes :
    /\ stage[p] = "applying" => /\ Complete(line[p][1] - 1)
                                /\ \A n \in 1 .. line[p][2] - 1 : <<line[p][1], n>> \in applied
    /\ stage[p] = "recording" => Complete(line[p][1])

SchemaInv == SchemaTypeOK /\ HasLatest /\ VersionTellsSchema /\ ProcessIsOnTop

-----------------------------------------------------------------------------
LEMMA KnownVersions ==
    ASSUME NEW p \in Processes
    PROVE  /\ Knows[p] \in Nat /\ Knows[p] >= 1
           /\ \A v \in 1 .. Knows[p] : v \in Versions
BY KnowsAssumption, VersionsAssumption DEF Versions

LEMMA LinesOf ==
    ASSUME NEW v \in Versions PROVE Lines[v] \in Nat /\ Lines[v] >= 1
BY LinesAssumption

LEMMA ScriptOf ==
    ASSUME NEW v \in Versions, NEW n \in 1 .. Lines[v]
    PROVE  <<v, n>> \in Script(v) /\ <<v, n>> \in AllStatements
BY DEF Script, AllStatements

(* The version of the file is the latest one recorded.                     *)
LEMMA LatestIsRecorded ==
    ASSUME recorded \subseteq Versions, HasLatest
    PROVE  /\ SchemaVersion \in Nat
           /\ recorded = {} => SchemaVersion = 0
           /\ recorded # {} => SchemaVersion \in recorded
<1>1. CASE recorded = {}
  BY <1>1 DEF SchemaVersion
<1>2. CASE recorded # {}
  <2>1. PICK v \in recorded : \A u \in recorded : v >= u
    BY <1>2 DEF HasLatest
  <2>2. Max(recorded) \in recorded
    BY <2>1 DEF Max
  <2>3. SchemaVersion \in recorded
    BY <1>2, <2>2 DEF SchemaVersion
  <2> QED
    BY <1>2, <2>3, VersionsAssumption DEF Versions
<1> QED
  BY <1>1, <1>2

(* What is in effect stays in effect.                                      *)
LEMMA CompleteStays ==
    ASSUME NEW v, Complete(v), applied \subseteq applied' PROVE Complete(v)'
BY DEF Complete

LEMMA NothingIsComplete == Complete(0)
BY DEF Complete

-----------------------------------------------------------------------------
LEMMA SchemaInvInit == SchemaInit => SchemaInv
<1> SUFFICES ASSUME SchemaInit PROVE SchemaInv
  OBVIOUS
<1>1. SchemaTypeOK
  <2>1. ASSUME NEW p \in Processes PROVE line[p][1] \in 1 .. Knows[p] /\ stage[p] = "down"
    BY KnownVersions DEF SchemaInit
  <2>2. line \in [Processes -> Nat \X Nat] /\ stage \in [Processes -> Stages]
    BY DEF SchemaInit, Stages
  <2>3. halts \in 0 .. MaxHalts
    BY HaltsAssumption DEF SchemaInit
  <2> QED
    BY <2>1, <2>2, <2>3 DEF SchemaInit, SchemaTypeOK
<1> QED
  BY <1>1 DEF SchemaInit, SchemaInv, HasLatest, VersionTellsSchema, ProcessIsOnTop

(* A step in which nothing is run or recorded, and no process moves to     *)
(* another statement.                                                      *)
LEMMA OnlyStage ==
    ASSUME SchemaInv, NEW p \in Processes, NEW to \in {"down", "reading", "refused"},
           stage' = [stage EXCEPT ![p] = to], halts' \in 0 .. MaxHalts,
           UNCHANGED <<applied, recorded, line>>
    PROVE  SchemaInv'
<1>1. SchemaTypeOK'
  BY DEF SchemaInv, SchemaTypeOK, Stages
<1>2. HasLatest'
  BY DEF SchemaInv, HasLatest
<1>3. VersionTellsSchema'
  BY DEF SchemaInv, SchemaTypeOK, VersionTellsSchema, Complete
<1>4. ProcessIsOnTop'
  BY DEF SchemaInv, SchemaTypeOK, ProcessIsOnTop, Complete
<1> QED
  BY <1>1, <1>2, <1>3, <1>4 DEF SchemaInv

LEMMA ReadVersionKeeps ==
    ASSUME SchemaInv, NEW p \in Processes, ReadVersion(p) PROVE SchemaInv'
<1> DEFINE v == SchemaVersion
<1>0. /\ v \in Nat /\ (recorded = {} => v = 0) /\ (recorded # {} => v \in recorded)
      /\ Knows[p] \in Nat /\ Knows[p] >= 1
  BY LatestIsRecorded, KnownVersions DEF SchemaInv, SchemaTypeOK
<1>1. Complete(v)
  BY <1>0, NothingIsComplete DEF SchemaInv, VersionTellsSchema
<1> HIDE DEF v
<1>2. /\ stage' = [stage EXCEPT ![p] = IF v > Knows[p] THEN "refused"
                               ELSE IF v = Knows[p] THEN "ready" ELSE "applying"]
      /\ line' = [line EXCEPT ![p] = IF v < Knows[p] THEN <<v + 1, 1>> ELSE @]
      /\ UNCHANGED <<applied, recorded, halts>>
  BY DEF ReadVersion, v
<1>3. ASSUME v < Knows[p]
      PROVE  v + 1 \in 1 .. Knows[p] /\ <<v + 1, 1>> \in Script(v + 1)
  <2>1. v + 1 \in 1 .. Knows[p]
    BY <1>0, <1>3
  <2>2. v + 1 \in Versions
    BY <2>1, KnownVersions
  <2>3. 1 \in 1 .. Lines[v + 1]
    BY <2>2, LinesOf
  <2> QED
    BY <2>1, <2>2, <2>3, ScriptOf
<1>4. SchemaTypeOK'
  <2>1. stage' \in [Processes -> Stages] /\ line' \in [Processes -> Nat \X Nat]
    BY <1>0, <1>2 DEF SchemaInv, SchemaTypeOK, Stages
  <2>2. ASSUME NEW q \in Processes
        PROVE  /\ line'[q][1] \in 1 .. Knows[q]
               /\ stage'[q] = "applying" => line'[q] \in Script(line'[q][1])
    <3>1. CASE q # p
      BY <1>2, <3>1 DEF SchemaInv, SchemaTypeOK
    <3>2. CASE q = p /\ v < Knows[p]
      <4>1. line'[q] = <<v + 1, 1>>
        BY <1>2, <3>2 DEF SchemaInv, SchemaTypeOK
      <4>2. line'[q][1] = v + 1
        BY <4>1
      <4> QED
        BY <1>3, <3>2, <4>1, <4>2
    <3>3. CASE q = p /\ ~(v < Knows[p])
      <4>1. line'[q] = line[q] /\ stage'[q] \in {"ready", "refused"}
        BY <1>0, <1>2, <3>3 DEF SchemaInv, SchemaTypeOK
      <4> QED
        BY <4>1 DEF SchemaInv, SchemaTypeOK
    <3> QED
      BY <3>1, <3>2, <3>3
  <2> QED
    BY <1>2, <2>1, <2>2 DEF SchemaInv, SchemaTypeOK
<1>5. HasLatest'
  BY <1>2 DEF SchemaInv, HasLatest
<1>6. VersionTellsSchema'
  BY <1>1, <1>2 DEF SchemaInv, SchemaTypeOK, VersionTellsSchema, Complete
<1>7. ASSUME NEW q \in Processes
      PROVE  /\ stage'[q] = "applying" =>
                    /\ Complete(line'[q][1] - 1)
                    /\ \A n \in 1 .. line'[q][2] - 1 : <<line'[q][1], n>> \in applied
             /\ stage'[q] = "recording" => Complete(line'[q][1])
  <2>1. CASE q # p
    BY <1>2, <2>1 DEF SchemaInv, SchemaTypeOK, ProcessIsOnTop
  <2>2. CASE q = p /\ v < Knows[p]
    <3>1. line'[q] = <<v + 1, 1>> /\ stage'[q] = "applying"
      BY <1>0, <1>2, <2>2 DEF SchemaInv, SchemaTypeOK
    <3>2. line'[q][1] - 1 = v /\ 1 .. line'[q][2] - 1 = {}
      BY <1>0, <3>1
    <3> QED
      BY <1>1, <3>1, <3>2
  <2>3. CASE q = p /\ ~(v < Knows[p])
    <3>1. stage'[q] \in {"ready", "refused"}
      BY <1>0, <1>2, <2>3 DEF SchemaInv, SchemaTypeOK
    <3> QED
      BY <3>1
  <2> QED
    BY <2>1, <2>2, <2>3
<1>8. ProcessIsOnTop'
  BY <1>2, <1>7 DEF ProcessIsOnTop, Complete
<1> QED
  BY <1>4, <1>5, <1>6, <1>8 DEF SchemaInv

(* The case in which the statement takes effect.                           *)
LEMMA RunLineRuns ==
    ASSUME SchemaInv, NEW p \in Processes, RunLine(p), line[p] \notin applied \cap Once,
           NEW v \in Nat, NEW n \in Nat, line[p] = <<v, n>>
    PROVE  SchemaInv'
<1> DEFINE last == Lines[v]
<1>0. v \in 1 .. Knows[p] /\ <<v, n>> \in Script(v)
  <2>1. line[p][1] = v
    OBVIOUS
  <2>2. line[p][1] \in 1 .. Knows[p] /\ line[p] \in Script(line[p][1])
    BY DEF SchemaInv, SchemaTypeOK, RunLine
  <2> QED
    BY <2>1, <2>2
<1>1. v \in Versions /\ v \in Nat \ {0}
  BY <1>0, KnownVersions
<1>2. last \in Nat /\ n \in 1 .. last
  BY <1>0, <1>1, LinesOf DEF Script
<1>3. /\ Complete(v - 1)
      /\ \A m \in 1 .. n - 1 : <<v, m>> \in applied
      /\ stage[p] = "applying"
  BY DEF SchemaInv, ProcessIsOnTop, RunLine
<1>4. /\ applied' = applied \cup {<<v, n>>}
      /\ line' = [line EXCEPT ![p] = <<v, n + 1>>]
      /\ stage' = [stage EXCEPT ![p] = IF n = last THEN "recording" ELSE @]
      /\ UNCHANGED <<recorded, halts>>
  BY DEF RunLine
<1>5. <<v, n>> \in AllStatements /\ \A m \in 1 .. last : <<v, m>> \in Script(v)
  BY <1>1, <1>2, ScriptOf
<1>6. \A m \in 1 .. n : <<v, m>> \in applied'
  <2>1. ASSUME NEW m \in 1 .. n PROVE <<v, m>> \in applied'
    <3>1. m = n \/ m \in 1 .. n - 1
      BY <1>2
    <3> QED
      BY <1>3, <1>4, <3>1
  <2> QED
    BY <2>1
<1>7. \A u \in Nat : Complete(u) => Complete(u)'
  BY <1>4, CompleteStays
<1>8. n = last => Complete(v)'
  <2>1. ASSUME n = last PROVE Script(v) \subseteq applied'
    BY <1>6, <2>1 DEF Script
  <2>2. Complete(v - 1)'
    BY <1>1, <1>3, <1>7
  <2>3. ASSUME n = last, NEW u \in 1 .. v PROVE Script(u) \subseteq applied'
    <3>1. u = v \/ u \in 1 .. v - 1
      BY <1>1
    <3> QED
      BY <2>1, <2>2, <2>3, <3>1 DEF Complete
  <2> QED
    BY <2>3 DEF Complete
<1> HIDE DEF last
<1>9. SchemaTypeOK'
  <2>1. stage' \in [Processes -> Stages] /\ line' \in [Processes -> Nat \X Nat]
    BY <1>1, <1>2, <1>4 DEF SchemaInv, SchemaTypeOK, Stages
  <2>2. ASSUME NEW q \in Processes
        PROVE  /\ line'[q][1] \in 1 .. Knows[q]
               /\ stage'[q] = "applying" => line'[q] \in Script(line'[q][1])
    <3>1. CASE q # p
      BY <1>4, <3>1 DEF SchemaInv, SchemaTypeOK
    <3>2. CASE q = p
      <4>1. line'[q] = <<v, n + 1>> /\ (stage'[q] = "applying" => n # last)
        BY <1>4, <3>2 DEF SchemaInv, SchemaTypeOK
      <4>2. n # last => n + 1 \in 1 .. last
        BY <1>2
      <4> QED
        BY <1>0, <1>5, <3>2, <4>1, <4>2
    <3> QED
      BY <3>1, <3>2
  <2> QED
    BY <1>4, <1>5, <2>1, <2>2 DEF SchemaInv, SchemaTypeOK
<1>10. HasLatest'
  BY <1>4 DEF SchemaInv, HasLatest
<1>11. VersionTellsSchema'
  <2>1. ASSUME NEW u \in recorded' PROVE Complete(u)'
    <3>1. u \in recorded /\ u \in Nat
      BY <1>4, <2>1, VersionsAssumption DEF SchemaInv, SchemaTypeOK, Versions
    <3> QED
      BY <1>7, <3>1 DEF SchemaInv, VersionTellsSchema
  <2>2. ASSUME NEW q \in Processes, stage'[q] = "ready" PROVE Complete(Knows[q])'
    <3>1. stage[q] = "ready"
      BY <1>3, <1>4, <2>2 DEF SchemaInv, SchemaTypeOK
    <3> QED
      BY <1>7, <3>1, KnownVersions DEF SchemaInv, VersionTellsSchema
  <2> QED
    BY <2>1, <2>2 DEF VersionTellsSchema, Complete
<1>12. ASSUME NEW q \in Processes
       PROVE  /\ stage'[q] = "applying" =>
                     /\ Complete(line[q][1] - 1)'
                     /\ \A m \in 1 .. line'[q][2] - 1 : <<line'[q][1], m>> \in applied'
              /\ stage'[q] = "recording" => Complete(line[q][1])'
  <2>1. CASE q # p
    <3>1. /\ line'[q] = line[q] /\ stage'[q] = stage[q]
          /\ line[q][1] \in Nat /\ line[q][1] - 1 \in Nat
      BY <1>4, <2>1, KnownVersions DEF SchemaInv, SchemaTypeOK
    <3>2. PICK a \in Nat : a = line[q][1] /\ a - 1 \in Nat
      BY <3>1
    <3>3. /\ stage[q] = "applying" =>
                  /\ Complete(a - 1) /\ \A m \in 1 .. line[q][2] - 1 : <<a, m>> \in applied
          /\ stage[q] = "recording" => Complete(a)
      BY <3>2 DEF SchemaInv, ProcessIsOnTop
    <3>4. line'[q][1] = a
      BY <3>1, <3>2
    <3>5. /\ stage'[q] = "applying" =>
                  /\ Complete(a - 1)' /\ \A m \in 1 .. line'[q][2] - 1 : <<a, m>> \in applied'
          /\ stage'[q] = "recording" => Complete(a)'
      BY <1>4, <1>7, <3>1, <3>2, <3>3
    <3> QED
      BY <3>4, <3>5 DEF Complete
  <2>2. CASE q = p
    <3>1. line'[q] = <<v, n + 1>> /\ stage'[q] \in {"applying", "recording"}
          /\ (stage'[q] = "recording" => n = last)
      BY <1>3, <1>4, <2>2 DEF SchemaInv, SchemaTypeOK
    <3>2. Complete(v - 1)' /\ (n + 1) - 1 = n
      BY <1>1, <1>2, <1>3, <1>7
    <3> QED
      BY <1>6, <1>8, <3>1, <3>2 DEF Complete
  <2> QED
    BY <2>1, <2>2
<1>13. ProcessIsOnTop'
  BY <1>12 DEF ProcessIsOnTop, Complete
<1> QED
  BY <1>9, <1>10, <1>11, <1>13 DEF SchemaInv

LEMMA RunLineKeeps ==
    ASSUME SchemaInv, NEW p \in Processes, RunLine(p) PROVE SchemaInv'
<1>1. CASE line[p] \in applied \cap Once
  <2>1. stage' = [stage EXCEPT ![p] = "refused"] /\ UNCHANGED <<applied, recorded, line, halts>>
    BY <1>1 DEF RunLine
  <2> QED
    BY <2>1, OnlyStage DEF SchemaInv, SchemaTypeOK
<1>2. CASE line[p] \notin applied \cap Once
  <2>1. PICK v \in Nat, n \in Nat : line[p] = <<v, n>>
    BY DEF SchemaInv, SchemaTypeOK
  <2> QED
    BY <1>2, <2>1, RunLineRuns
<1> QED
  BY <1>1, <1>2

LEMMA RecordKeeps ==
    ASSUME SchemaInv, NEW p \in Processes, Record(p) PROVE SchemaInv'
<1>1. PICK v \in Nat : v = line[p][1]
  BY DEF SchemaInv, SchemaTypeOK
<1>2. v \in 1 .. Knows[p] /\ v \in Versions /\ Knows[p] \in Nat
  BY <1>1, KnownVersions DEF SchemaInv, SchemaTypeOK
<1>3. Complete(v)
  BY <1>1 DEF SchemaInv, ProcessIsOnTop, Record
<1>4. /\ recorded' = recorded \cup {v}
      /\ stage' = [stage EXCEPT ![p] = IF v = Knows[p] THEN "ready" ELSE "applying"]
      /\ line' = [line EXCEPT ![p] = IF v = Knows[p] THEN @ ELSE <<v + 1, 1>>]
      /\ UNCHANGED <<applied, halts>>
  BY <1>1 DEF Record
<1>5. \A u : Complete(u)' <=> Complete(u)
  BY <1>4 DEF Complete
<1>6. ASSUME v # Knows[p]
      PROVE  v + 1 \in 1 .. Knows[p] /\ <<v + 1, 1>> \in Script(v + 1)
  <2>1. v + 1 \in 1 .. Knows[p]
    BY <1>2, <1>6
  <2>2. v + 1 \in Versions
    BY <2>1, KnownVersions
  <2>3. 1 \in 1 .. Lines[v + 1]
    BY <2>2, LinesOf
  <2> QED
    BY <2>1, <2>2, <2>3, ScriptOf
<1>7. SchemaTypeOK'
  <2>1. stage' \in [Processes -> Stages] /\ line' \in [Processes -> Nat \X Nat]
    BY <1>4 DEF SchemaInv, SchemaTypeOK, Stages
  <2>2. ASSUME NEW q \in Processes
        PROVE  /\ line'[q][1] \in 1 .. Knows[q]
               /\ stage'[q] = "applying" => line'[q] \in Script(line'[q][1])
    <3>1. CASE q # p
      BY <1>4, <3>1 DEF SchemaInv, SchemaTypeOK
    <3>2. CASE q = p /\ v # Knows[p]
      <4>1. line'[q] = <<v + 1, 1>>
        BY <1>4, <3>2 DEF SchemaInv, SchemaTypeOK
      <4>2. line'[q][1] = v + 1
        BY <4>1
      <4> QED
        BY <1>6, <3>2, <4>1, <4>2
    <3>3. CASE q = p /\ v = Knows[p]
      <4>1. line'[q] = line[q] /\ stage'[q] = "ready"
        BY <1>4, <3>3 DEF SchemaInv, SchemaTypeOK
      <4> QED
        BY <4>1 DEF SchemaInv, SchemaTypeOK
    <3> QED
      BY <3>1, <3>2, <3>3
  <2> QED
    BY <1>2, <1>4, <2>1, <2>2 DEF SchemaInv, SchemaTypeOK
<1>8. HasLatest'
  <2>1. recorded \subseteq Nat
    BY VersionsAssumption DEF SchemaInv, SchemaTypeOK, Versions
  <2>2. CASE recorded = {}
    BY <1>4, <2>2 DEF HasLatest
  <2>3. CASE recorded # {}
    <3>1. PICK w \in recorded : \A u \in recorded : w >= u
      BY <2>3 DEF SchemaInv, HasLatest
    <3>2. CASE w >= v
      BY <1>4, <3>1, <3>2 DEF HasLatest
    <3>3. CASE v >= w
      <4>1. \A u \in recorded' : v >= u
        BY <1>4, <2>1, <3>1, <3>3
      <4> QED
        BY <1>4, <4>1 DEF HasLatest
    <3> QED
      BY <2>1, <3>1, <3>2, <3>3
  <2> QED
    BY <2>2, <2>3
<1>9. VersionTellsSchema'
  <2>1. \A u \in recorded' : Complete(u)'
    BY <1>3, <1>4, <1>5 DEF SchemaInv, VersionTellsSchema
  <2>2. ASSUME NEW q \in Processes, stage'[q] = "ready" PROVE Complete(Knows[q])
    <3>1. CASE q # p
      BY <1>4, <2>2, <3>1 DEF SchemaInv, SchemaTypeOK, VersionTellsSchema
    <3>2. CASE q = p
      BY <1>3, <1>4, <2>2, <3>2 DEF SchemaInv, SchemaTypeOK
    <3> QED
      BY <3>1, <3>2
  <2> QED
    BY <1>5, <2>1, <2>2 DEF VersionTellsSchema
<1>10. ASSUME NEW q \in Processes
       PROVE  /\ stage'[q] = "applying" =>
                     /\ Complete(line[q][1] - 1)'
                     /\ \A m \in 1 .. line'[q][2] - 1 : <<line'[q][1], m>> \in applied'
              /\ stage'[q] = "recording" => Complete(line[q][1])'
  <2>1. CASE q # p
    <3>1. line'[q] = line[q] /\ stage'[q] = stage[q] /\ applied' = applied
      BY <1>4, <2>1 DEF SchemaInv, SchemaTypeOK
    <3> QED
      BY <3>1 DEF SchemaInv, ProcessIsOnTop, Complete
  <2>2. CASE q = p /\ v # Knows[p]
    <3>1. line'[q] = <<v + 1, 1>> /\ stage'[q] = "applying" /\ applied' = applied
      BY <1>4, <2>2 DEF SchemaInv, SchemaTypeOK
    <3>2. line'[q][1] - 1 = v /\ 1 .. line'[q][2] - 1 = {}
      BY <3>1
    <3> QED
      BY <1>3, <3>1, <3>2 DEF Complete
  <2>3. CASE q = p /\ v = Knows[p]
    BY <1>4, <2>3 DEF SchemaInv, SchemaTypeOK
  <2> QED
    BY <2>1, <2>2, <2>3
<1>11. ProcessIsOnTop'
  BY <1>10 DEF ProcessIsOnTop, Complete
<1> QED
  BY <1>7, <1>8, <1>9, <1>11 DEF SchemaInv

LEMMA SchemaInvStep == SchemaInv /\ [SchemaNext]_schemaVars => SchemaInv'
<1> SUFFICES ASSUME SchemaInv, [SchemaNext]_schemaVars PROVE SchemaInv'
  OBVIOUS
<1>1. ASSUME NEW p \in Processes, SchemaStep(p) \/ GiveUp(p) PROVE SchemaInv'
  <2>1. CASE OpenFile(p)
    BY <2>1, OnlyStage DEF OpenFile, SchemaInv, SchemaTypeOK
  <2>2. CASE ReadVersion(p)
    BY <2>2, ReadVersionKeeps
  <2>3. CASE RunLine(p)
    BY <2>3, RunLineKeeps
  <2>4. CASE Record(p)
    BY <2>4, RecordKeeps
  <2>5. CASE ExitRefused(p)
    BY <2>5, OnlyStage DEF ExitRefused, SchemaInv, SchemaTypeOK
  <2>6. CASE GiveUp(p)
    <3>1. halts' \in 0 .. MaxHalts
      BY <2>6, HaltsAssumption DEF GiveUp, SchemaInv, SchemaTypeOK
    <3> QED
      BY <2>6, <3>1, OnlyStage DEF GiveUp
  <2> QED
    BY <1>1, <2>1, <2>2, <2>3, <2>4, <2>5, <2>6 DEF SchemaStep
<1>2. CASE UNCHANGED schemaVars
  BY <1>2 DEF schemaVars, SchemaInv, SchemaTypeOK, HasLatest, VersionTellsSchema,
              ProcessIsOnTop, Complete
<1> QED
  BY <1>1, <1>2 DEF SchemaNext

(* The invariant holds of every behaviour of the migration: what a process *)
(* has behind it is in effect, and so is what is recorded.                 *)
THEOREM SchemaInvariance == SchemaSpec => []SchemaInv
BY SchemaInvInit, SchemaInvStep, PTL DEF SchemaSpec

-----------------------------------------------------------------------------
(* Every variable stays in its type, and no process runs past the script   *)
(* of a migration or past the version it knows.                            *)
THEOREM SchemaTypeCorrect == SchemaSpec => []SchemaTypeOK
BY SchemaInvariance, PTL DEF SchemaInv

(* Wherever processes stop and however many migrate the file at a time, a  *)
(* recorded version has its statements in effect, and so has the version   *)
(* of a process that came up.                                              *)
THEOREM VersionsAreTrue == SchemaSpec => []VersionTellsSchema
BY SchemaInvariance, PTL DEF SchemaInv
=============================================================================
