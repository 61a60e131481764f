------------------------------ MODULE UserData ------------------------------
(***************************************************************************)
(* LiveFuturesUserDataService and its cache: the private stream is opened  *)
(* first, then the account and the position are read, and only then the    *)
(* events that were buffered meanwhile are applied to what was read. Every *)
(* observed equity goes to the high-water mark of LiveAccountDrawdown-     *)
(* Service, which is stored. One symbol; an event carries the balance, and *)
(* the position if a trade changed it, in one piece as Binance sends it    *)
(* (Bybit's stream tells a wallet and a position by events of their own).  *)
(***************************************************************************)
EXTENDS Integers, Sequences, FiniteSetsExt

CONSTANTS
    StartBalance,
    MaxChanges,    \* bound: changes of the account
    MaxOutages     \* bound: times a session or a read is lost

ASSUME AccountAssumption == StartBalance \in Nat /\ MaxChanges \in Nat

VARIABLES
    account,    \* the venue: balance, position (0 or 1), its profit, changes so far
    peak,       \* the highest equity the account ever had
    buffer,     \* events of the session that were not applied yet
    session,    \* where the service is, and what it has read
    cached,     \* balance, position, its profit, and whether REST seeded it
    status,     \* READY, RESYNCING or STARTING; "retrying" is RESYNCING
                \* before the first snapshot
    mark,       \* stored: the high-water mark
    mixed,      \* has the cache held parts of the account of different times?
    outages

userVars == <<account, peak, buffer, session, cached, status, mark, mixed, outages>>

Equity(a) == a.balance + a.position * a.profit
Down == [at |-> "down"]

UserInit ==
    /\ account = [balance |-> StartBalance, position |-> 0, profit |-> 0, version |-> 0]
    /\ peak = StartBalance /\ buffer = <<>> /\ session = Down
    /\ cached = [balance |-> 0, position |-> 0, profit |-> 0, seeded |-> 0]
    /\ status = "starting" /\ mark = 0 /\ mixed = FALSE /\ outages = 0

-----------------------------------------------------------------------------
(* The account.                                                            *)

Changed(a, traded) ==
    /\ account.version < MaxChanges /\ account' = [a EXCEPT !.version = @ + 1]
    /\ peak' = Max({peak, Equity(a)})
    /\ buffer' = IF session = Down THEN buffer
                 ELSE Append(buffer, [balance |-> a.balance, position |-> a.position,
                                      profit |-> a.profit, version |-> account.version + 1,
                                      traded |-> traded])
    /\ UNCHANGED <<session, cached, status, mark, mixed, outages>>

(* Funds come or go, or a fee is paid: only the balance is announced.      *)
Transfer(d) ==
    account.balance + d > 0 /\ Changed([account EXCEPT !.balance = @ + d], FALSE)

(* A position is opened, or closed with its profit.                        *)
Trade ==
    LET a == IF account.position = 0 THEN [account EXCEPT !.position = 1, !.profit = 0]
             ELSE [account EXCEPT !.balance = @ + account.profit, !.position = 0, !.profit = 0]
    IN  a.balance > 0 /\ Changed(a, TRUE)

(* The price moves; nothing is announced.                                  *)
PriceMoves(d) ==
    /\ account.position = 1 /\ account.profit + d \in -1 .. 1
    /\ account' = [account EXCEPT !.profit = @ + d]
    /\ peak' = Max({peak, Equity(account')})
    /\ UNCHANGED <<buffer, session, cached, status, mark, mixed, outages>>

-----------------------------------------------------------------------------
(* The service.                                                            *)

(* observe, behind get_equity: only a READY cache tells its equity, and    *)
(* the service logs what it could not store.                               *)
Observe(c, st) ==
    mark' = IF st = "ready" /\ Equity(c) > mark THEN Equity(c) ELSE mark

Connect ==
    /\ session = Down /\ buffer' = <<>>
    /\ session' = [at |-> "account", why |-> "connect"]
    /\ UNCHANGED <<account, peak, cached, status, mark, mixed, outages>>

(* _refresh_snapshot, its two reads.                                       *)
ReadAccount ==
    /\ session.at = "account"
    /\ session' = [at |-> "positions", why |-> session.why,
                   balance |-> account.balance, version |-> account.version]
    /\ UNCHANGED <<account, peak, buffer, cached, status, mark, mixed, outages>>

Snapshot == [balance |-> session.balance, position |-> account.position,
             profit |-> account.profit, seeded |-> account.position]
Consuming == [at |-> "consuming", version |-> account.version]

(* A streamed position that the read does not know.                        *)
Unconfirmed == session.why = "reseed" /\ account.position = 0

(* The cache is seeded. After a connection its equity is observed; a       *)
(* reseed that does not confirm the position raises, and reconnects.       *)
ReadPositions ==
    /\ session.at = "positions" /\ cached' = Snapshot
    /\ IF Unconfirmed
       THEN session' = Down /\ status' = "resyncing" /\ UNCHANGED mark
       ELSE session' = Consuming /\ status' = "ready" /\ Observe(Snapshot, "ready")
    /\ mixed' = (mixed \/ session.version # account.version)
    /\ UNCHANGED <<account, peak, buffer, outages>>

(* Mutant of Applied: a closed position keeps its last update.             *)
AppliedKeeping(e) ==
    [cached EXCEPT !.balance  = e.balance,
                   !.position = IF e.traded THEN Max({@, e.position}) ELSE @,
                   !.seeded   = IF e.traded /\ e.position = 0 THEN 0 ELSE @]

(* apply: what the event carries replaces what was cached.                 *)
Applied(e) ==
    [cached EXCEPT !.balance  = e.balance,
                   !.position = IF e.traded THEN e.position ELSE @,
                   !.profit   = IF e.traded THEN e.profit ELSE @,
                   !.seeded   = IF e.traded /\ e.position = 0 THEN 0 ELSE @]

(* The price moved before an event that tells nothing of the position.     *)
PriceMissed(e) == cached.position = 1 /\ cached.profit # e.profit

(* A position that was not seeded is read anew before anything else.       *)
ApplyEvent ==
    /\ session.at = "consuming" /\ buffer # <<>> /\ buffer' = Tail(buffer)
    /\ LET e == Head(buffer)
           unseeded == e.traded /\ e.position = 1 /\ cached.seeded = 0
       IN  /\ cached' = Applied(e)
           /\ IF unseeded
              THEN session' = [at |-> "account", why |-> "reseed"] /\ status' = "resyncing"
                   /\ UNCHANGED mark
              ELSE session' = session /\ status' = "ready" /\ Observe(Applied(e), "ready")
           /\ mixed' = (mixed \/ e.version < session.version \/ (~e.traded /\ PriceMissed(e)))
    /\ UNCHANGED <<account, peak, outages>>

(* Mutant of Ended: whenever it ends, the service stays down.              *)
EndedForGood == [at |-> "failed"]

Unseen == status \in {"starting", "retrying"}

(* Before the first snapshot a failed read ends start(); later the session *)
(* is opened anew.                                                         *)
Ended == IF Unseen THEN [at |-> "failed"] ELSE Down

(* Mutant of Interrupted: what was cached keeps its status.                *)
InterruptedReady == status

(* mark_resyncing *)
Interrupted == IF Unseen THEN status ELSE "resyncing"

(* A session that cannot be opened is tried again, the first one too.      *)
ConnectFails ==
    /\ session = Down /\ outages < MaxOutages /\ outages' = outages + 1
    /\ status' = IF Unseen THEN "retrying" ELSE "resyncing"
    /\ UNCHANGED <<account, peak, buffer, session, cached, mark, mixed>>

SessionLost ==
    /\ session.at \in {"account", "positions", "consuming"} /\ outages < MaxOutages
    /\ outages' = outages + 1 /\ status' = Interrupted
    /\ session' = Ended
    /\ UNCHANGED <<account, peak, buffer, cached, mark, mixed>>

Service == Connect \/ ReadAccount \/ ReadPositions \/ ApplyEvent

UserNext ==
    \/ Service \/ ConnectFails \/ SessionLost \/ Trade
    \/ \E d \in {-1, 1} : Transfer(d) \/ PriceMoves(d)

UserSpec == UserInit /\ [][UserNext]_userVars

(* The task of the service runs on, and its requests are answered.         *)
UserFairSpec == UserSpec /\ WF_userVars(Service)

-----------------------------------------------------------------------------
(* Properties.                                                             *)

UserTypeOK ==
    /\ status \in {"starting", "retrying", "ready", "resyncing"}
    /\ session.at \in {"down", "account", "positions", "consuming", "failed"}
    /\ session.at = "failed" => Unseen
    /\ account.version \in 0 .. MaxChanges /\ mark \in 0 .. StartBalance + 2 * MaxChanges

(* A cache that calls itself READY belongs to a session that is connected  *)
(* and seeded; with no event left to apply it is the account of the venue, *)
(* but for the price: no change is lost between the socket, the read and   *)
(* the events, however they interleave and however often it reconnects.    *)
ReadyIsCurrent ==
    /\ status = "ready" => session.at = "consuming"
    /\ session.at = "consuming" /\ buffer = <<>>
          => /\ cached.balance = account.balance /\ cached.position = account.position
             /\ cached.seeded = account.position

(* The stored mark is an equity the account has had - unless the cache     *)
(* mixed two times of it: a change between the two reads of a snapshot, a  *)
(* buffered event older than the snapshot it is applied to, or a balance   *)
(* announced after the price had moved.                                    *)
MarkWasReached == ~mixed => mark <= peak

(* When the account and the network are at rest the cache becomes READY,   *)
(* whatever it saw before - unless start() itself has failed.              *)
ReadyInTheEnd == <>[](status = "ready" \/ (Unseen /\ session.at = "failed"))
=============================================================================
