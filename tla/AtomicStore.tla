---------------------------- MODULE AtomicStore ----------------------------
(* What callers expect of SQLiteDatabase: a call that returns is on disk,  *)
(* whole; a call that fails is on disk whole or not at all; and no call    *)
(* undoes what another has committed.                                      *)
CONSTANTS Calls, Writes(_)

VARIABLES store,     \* what is on disk
          outcome    \* what each caller has been told

told == <<store, outcome>>

StoreInit == store = {} /\ outcome = [c \in Calls |-> "pending"]

(* The call is committed and its caller is told.                           *)
Succeed(c) ==
    /\ outcome[c] = "pending" /\ store' = store \cup Writes(c)
    /\ outcome' = [outcome EXCEPT ![c] = "returned"]

(* The call is committed, but its caller is not told yet.                  *)
Apply(c) ==
    /\ outcome[c] = "pending" /\ store' = store \cup Writes(c)
    /\ UNCHANGED outcome

Fail(c) ==
    /\ outcome[c] = "pending" /\ outcome' = [outcome EXCEPT ![c] = "failed"]
    /\ UNCHANGED store

StoreNext == \E c \in Calls : Succeed(c) \/ Apply(c) \/ Fail(c)

StoreSpec == StoreInit /\ [][StoreNext]_told
=============================================================================
