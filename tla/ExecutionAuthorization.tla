----------------------- MODULE ExecutionAuthorization -----------------------
(***************************************************************************)
(* ExecutionAuthorizationService and its repository, in PAPER with human   *)
(* confirmation: the cycle asks for approvals, the operator decides, time  *)
(* expires what nobody decided, and the memory of the process keeps a      *)
(* bounded number of them. An authorization is approved before it is       *)
(* executed, in another step, when the execution lock is free.             *)
(***************************************************************************)
EXTENDS Naturals, Sequences, FiniteSets, FiniteSetsExt, SequencesExt

CONSTANTS
    Candidates,   \* symbol, direction and strategy: what makes two equivalent
    Lifetime,     \* authorization_ttl
    MaxKept,      \* _maximum_authorizations
    MaxPrepared,  \* bound: authorizations ever prepared
    LastTick      \* bound: how far the clock runs

ASSUME KeptAssumption == MaxKept \in Nat \ {0} /\ Lifetime \in Nat /\ MaxPrepared \in Nat /\ LastTick \in Nat

Authorizations == 1 .. MaxPrepared

VARIABLES
    tick,
    prepared,   \* how many were prepared
    kept,       \* those kept, oldest first
    due,        \* approved ones whose execution has not begun
    executed    \* how often each was executed

authorizationVars == <<tick, prepared, kept, due, executed>>

AuthorizationInit ==
    /\ tick = 0 /\ prepared = 0 /\ kept = <<>> /\ due = {}
    /\ executed = [a \in Authorizations |-> 0]

Expire(as) == [i \in DOMAIN as |->
    IF as[i].status = "pending" /\ tick >= as[i].until
    THEN [as[i] EXCEPT !.status = "expired"] ELSE as[i]]

(* Mutant of Prune: the oldest goes, whatever its status.                  *)
PruneOldest(as) == IF Len(as) < MaxKept THEN as ELSE Tail(as)

(* At capacity the oldest one that is not pending goes.                    *)
Prune(as) ==
    LET decided == {i \in DOMAIN as : as[i].status # "pending"}
    IN  IF Len(as) < MaxKept \/ decided = {} THEN as ELSE RemoveAt(as, Min(decided))

Equivalent(a, c) == a.candidate = c

Full(as) == Len(as) >= MaxKept

(* prepare_if_no_equivalent_pending; with the capacity taken by pending    *)
(* ones it raises.                                                         *)
Prepare(c) ==
    LET as == Prune(Expire(kept))
    IN  /\ prepared < MaxPrepared
        /\ IF Full(as)
              \/ \E i \in DOMAIN as : as[i].status = "pending" /\ Equivalent(as[i], c)
           THEN kept' = as /\ UNCHANGED prepared
           ELSE /\ prepared' = prepared + 1
                /\ kept' = Append(as, [id |-> prepared + 1, candidate |-> c,
                                       status |-> "pending", until |-> tick + Lifetime])
        /\ UNCHANGED <<tick, due, executed>>

(* get and count, behind the operator's messages                           *)
Look == kept' = Prune(Expire(kept)) /\ UNCHANGED <<tick, prepared, due, executed>>

(* Mutant of Consumed: approval leaves the status to the execution.        *)
ConsumedLater(a, verdict) ==
    IF tick >= a.until THEN "expired" ELSE IF verdict = "approved" THEN a.status ELSE verdict

(* consume_pending                                                         *)
Consumed(a, verdict) == IF tick >= a.until THEN "expired" ELSE verdict

(* approve and reject: only who finds it pending goes on.                  *)
Decide(a, verdict) ==
    /\ a.status = "pending"
    /\ kept' = ReplaceAll(kept, a, [a EXCEPT !.status = Consumed(a, verdict)])
    /\ due' = IF verdict = "approved" /\ tick < a.until THEN due \cup {a.id} ELSE due
    /\ UNCHANGED <<tick, prepared, executed>>

(* PaperTradingService.execute takes the signal, whatever becomes of it.   *)
ExecuteApproved(a) ==
    /\ executed[a] < 2 /\ due' = due \ {a}
    /\ executed' = [executed EXCEPT ![a] = @ + 1]
    /\ UNCHANGED <<tick, prepared, kept>>

(* The process ends, and with it every authorization.                      *)
Forget ==
    /\ kept # <<>> /\ kept' = <<>> /\ due' = {}
    /\ UNCHANGED <<tick, prepared, executed>>

Tick == tick < LastTick /\ tick' = tick + 1 /\ UNCHANGED <<prepared, kept, due, executed>>

AuthorizationNext ==
    \/ \E c \in Candidates : Prepare(c)
    \/ \E i \in DOMAIN kept, v \in {"approved", "rejected"} : Decide(kept[i], v)
    \/ \E a \in due : ExecuteApproved(a)
    \/ Look \/ Forget \/ Tick

AuthorizationSpec == AuthorizationInit /\ [][AuthorizationNext]_authorizationVars

-----------------------------------------------------------------------------
(* Properties.                                                             *)

AuthorizationTypeOK ==
    /\ tick \in 0 .. LastTick /\ prepared \in 0 .. MaxPrepared
    /\ due \subseteq 1 .. prepared /\ Len(kept) <= MaxKept
    /\ \A i \in DOMAIN kept : kept[i].id \in 1 .. prepared

(* "Atomically marked approved before execution": an authorization is      *)
(* executed once at most, whoever decides how often.                       *)
ExecutedOnce == \A a \in Authorizations : executed[a] <= 1

(* Whatever goes for capacity, what can still be approved stays until the  *)
(* process ends.                                                           *)
Approvable(a) == a.status = "pending" /\ tick < a.until
PendingSurvives ==
    [][kept' # <<>> => \A i \in DOMAIN kept : Approvable(kept[i])
          => \E j \in DOMAIN kept' : kept'[j].id = kept[i].id]_authorizationVars

=============================================================================
