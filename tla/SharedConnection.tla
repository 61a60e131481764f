-------------------------- MODULE SharedConnection --------------------------
(***************************************************************************)
(* SQLiteDatabase: one aiosqlite connection that every task of the process *)
(* shares. A call is several requests to the connection - open, statements,*)
(* commit or roll back - with an await after each, and nothing keeps the   *)
(* requests of two calls apart. SQLite itself knows one transaction per    *)
(* connection, so all calls write into the same one.                       *)
(***************************************************************************)
EXTENDS Naturals

CONSTANTS
    Calls,      \* calls of execute, execute_many and transaction
    Explicit,   \* the calls of transaction(), which open with BEGIN
    Length      \* how many statements a call runs

ASSUME ExplicitAssumption == Explicit \subseteq Calls
ASSUME LengthAssumption ==
    /\ Length \in [Calls -> Nat \ {0}]
    /\ \A c \in Calls \ Explicit : Length[c] = 1

(* Every statement of every call writes a row of its own.                  *)
Writes(c) == {<<c, n>> : n \in 1 .. Length[c]}
AllWrites == UNION {Writes(c) : c \in Calls}

VARIABLES
    disk,     \* writes that are committed
    view,     \* writes the connection sees
    open,     \* the connection is inside a transaction
    pc,       \* the next request of each call
    ran,      \* statements each call has run
    overlapped \* a call began while another was under way

connectionVars == <<disk, view, open, pc, ran, overlapped>>

Places == {"ready", "begin", "statement", "commit", "rollback", "returned", "raised", "lost"}
Busy(c) == pc[c] \in {"begin", "statement", "commit", "rollback"}
At(c, place) == pc' = [pc EXCEPT ![c] = place]

ConnectionInit ==
    /\ disk = {} /\ view = {} /\ open = FALSE
    /\ pc = [c \in Calls |-> "ready"] /\ ran = [c \in Calls |-> 0]
    /\ overlapped = FALSE

(* Nothing makes a call wait for the ones under way.                       *)
Enter(c) ==
    /\ pc[c] = "ready"
    /\ overlapped' = (overlapped \/ \E d \in Calls : Busy(d))
    /\ At(c, IF c \in Explicit THEN "begin" ELSE "statement")
    /\ UNCHANGED <<disk, view, open, ran>>

(* BEGIN is refused inside a transaction, whoever opened it.               *)
Begin(c) ==
    /\ pc[c] = "begin"
    /\ IF open THEN At(c, "rollback") ELSE At(c, "statement")
    /\ open' = TRUE /\ UNCHANGED <<disk, view, ran, overlapped>>

(* Mutant of Statement: a statement commits what it wrote.                 *)
StatementCommits(c) ==
    /\ pc[c] = "statement"
    /\ view' = view \cup {<<c, ran[c] + 1>>} /\ disk' = view' /\ open' = FALSE
    /\ ran' = [ran EXCEPT ![c] = @ + 1]
    /\ At(c, IF ran[c] + 1 = Length[c] THEN "commit" ELSE "statement")
    /\ UNCHANGED overlapped

(* A statement joins the open transaction, or opens one.                   *)
Statement(c) ==
    /\ pc[c] = "statement"
    /\ view' = view \cup {<<c, ran[c] + 1>>} /\ open' = TRUE
    /\ ran' = [ran EXCEPT ![c] = @ + 1]
    /\ At(c, IF ran[c] + 1 = Length[c] THEN "commit" ELSE "statement")
    /\ UNCHANGED <<disk, overlapped>>

(* A constraint, a lock or a cancellation: the call rolls back.            *)
StatementFails(c) ==
    /\ pc[c] = "statement" /\ open' = TRUE /\ At(c, "rollback")
    /\ UNCHANGED <<disk, view, ran, overlapped>>

(* Commit ends the transaction the connection is in, if it is in one.      *)
Commit(c) ==
    /\ pc[c] = "commit"
    /\ disk' = view /\ open' = FALSE /\ At(c, "returned")
    /\ UNCHANGED <<view, ran, overlapped>>

(* It raises; a commit that was cancelled may have happened.               *)
CommitFails(c) ==
    /\ pc[c] = "commit" /\ At(c, "rollback")
    /\ \/ disk' = view /\ open' = FALSE
       \/ UNCHANGED <<disk, open>>
    /\ UNCHANGED <<view, ran, overlapped>>

(* Everything not committed is dropped, whoever wrote it.                  *)
Rollback(c) ==
    /\ pc[c] = "rollback"
    /\ view' = disk /\ open' = FALSE /\ At(c, "raised")
    /\ UNCHANGED <<disk, ran, overlapped>>

(* The process stops; what was not committed is gone.                      *)
Crash ==
    /\ \E c \in Calls : Busy(c)
    /\ view' = disk /\ open' = FALSE
    /\ pc' = [c \in Calls |-> IF Busy(c) THEN "lost" ELSE pc[c]]
    /\ UNCHANGED <<disk, ran, overlapped>>

CallStep(c) ==
    \/ Enter(c) \/ Begin(c) \/ Statement(c) \/ StatementFails(c)
    \/ Commit(c) \/ CommitFails(c) \/ Rollback(c)

ConnectionNext == Crash \/ \E c \in Calls : CallStep(c)

ConnectionSpec == ConnectionInit /\ [][ConnectionNext]_connectionVars

-----------------------------------------------------------------------------
(* Properties.                                                             *)

(* Every variable stays in its type; no call runs more statements than it  *)
(* has.                                                                    *)
ConnectionTypeOK ==
    /\ disk \subseteq AllWrites /\ view \subseteq AllWrites /\ open \in BOOLEAN
    /\ pc \in [Calls -> Places] /\ ran \in [Calls -> Nat]
    /\ overlapped \in BOOLEAN
    /\ \A c \in Calls : ran[c] <= Length[c]

(* However calls interleave and fail, the connection is not left inside a  *)
(* transaction: when no call is under way, what it shows is on disk.       *)
QuietMeansCommitted ==
    (\A c \in Calls : ~Busy(c)) => ~open /\ view = disk

(* A call that returned is on disk ("Execute one write statement and       *)
(* commit it").                                                            *)
ReturnedIsDurable == \A c \in Calls : pc[c] = "returned" => Writes(c) \subseteq disk

(* As long as no call began while another was under way, calls take effect *)
(* as a store with atomic, durable calls would have them.                  *)
Store == INSTANCE AtomicStore WITH
    store   <- disk,
    outcome <- [c \in Calls |->
                  IF pc[c] = "returned" THEN "returned"
                  ELSE IF pc[c] \in {"raised", "lost"} THEN "failed" ELSE "pending"]

ImplementsStore ==
    Store!StoreInit /\ [][overlapped' \/ Store!StoreNext]_(Store!told)
=============================================================================
