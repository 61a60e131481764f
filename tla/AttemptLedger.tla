--------------------------- MODULE AttemptLedger ---------------------------
(* What a ledger of attempts promises of the orders that open positions    *)
(* and of those that close them, whatever fails underneath: one attempt at *)
(* a time is owned; its order is sent at most once and executes at most    *)
(* once, only while it is owned; and it is given up once, with a verdict   *)
(* the venue cannot contradict afterwards. A ledger that may give up an    *)
(* attempt as missing promises nothing of what the order does afterwards.  *)
CONSTANTS Ids, MayMiss

VARIABLES owned,     \* attempts whose outcome is still to be proved
          sent,      \* attempts whose order was sent
          executed,  \* attempts that executed at the venue
          verdict    \* how each attempt was given up

ledger == <<owned, sent, executed, verdict>>

Verdicts == {"pending", "unsent", "refused", "missing", "executed"}

LedgerInit ==
    /\ owned = {} /\ sent = {} /\ executed = {}
    /\ verdict = [i \in Ids |-> "pending"]

Own(i) ==
    /\ owned = {} /\ verdict[i] = "pending"
    /\ owned' = {i} /\ UNCHANGED <<sent, executed, verdict>>

Send(i) ==
    /\ i \in owned /\ i \notin sent
    /\ sent' = sent \cup {i} /\ UNCHANGED <<owned, executed, verdict>>

Execute(i) ==
    /\ i \in owned \/ verdict[i] = "missing"
    /\ i \in sent /\ i \notin executed
    /\ executed' = executed \cup {i} /\ UNCHANGED <<owned, sent, verdict>>

(* An attempt is given up as executed exactly when it executed, as unsent  *)
(* only when nothing was sent.                                             *)
Proven(i) == IF i \in executed THEN "executed" ELSE IF i \in sent THEN "refused" ELSE "unsent"

GiveUp(i, v) ==
    /\ i \in owned
    /\ v = Proven(i) \/ (MayMiss /\ i \notin executed /\ v = "missing")
    /\ owned' = owned \ {i} /\ verdict' = [verdict EXCEPT ![i] = v]
    /\ UNCHANGED <<sent, executed>>

LedgerNext == \E i \in Ids :
    Own(i) \/ Send(i) \/ Execute(i) \/ \E v \in Verdicts : GiveUp(i, v)

LedgerSpec == LedgerInit /\ [][LedgerNext]_ledger
=============================================================================
