---------------------------- MODULE PaperTrading ----------------------------
(***************************************************************************)
(* PaperTradingService: simulated fills, each persisted as an order, a     *)
(* trade and a position row, one save after another under one lock. The    *)
(* balance is never stored: it is what the trades and rows add up to. A    *)
(* fill's identity is its symbol and the time of its signal or tick, so a  *)
(* lot, the position an entry opened, is named by the fill that opened it. *)
(* One unit per lot, long, unleveraged; one strategy.                      *)
(***************************************************************************)
EXTENDS Integers, FiniteSets, FiniteSetsExt

CONSTANTS
    PaperSymbols,
    LastTime,     \* bound: how far the clock runs
    Prices,       \* what a unit may cost
    Fee,          \* what one fill costs
    Capital,      \* the initial balance
    MaxCuts       \* bound: fills cut short

ASSUME ClockAssumption == LastTime \in Nat \ {0}

(* Prices, fees and the balance are multiples of the smallest amount.      *)
ASSUME MoneyAssumption ==
    IsFiniteSet(PaperSymbols) /\ Prices \subseteq Int /\ Fee \in Int /\ Capital \in Int

Times == 1 .. LastTime
Fills == PaperSymbols \X Times
NoLot == <<>>

VARIABLES
    now,
    quote,                  \* the price at each time
    orders, trades, held,   \* stored: orders, trades, the lot held of each symbol
    hand,                   \* the fill the holder of the lock is saving
    cut                     \* fills whose saves were cut short

stored == <<orders, trades, held>>
paperVars == <<now, quote, stored, hand, cut>>

Idle == [step |-> "idle"]
Pnl(lot, f) == quote[f[2]] - quote[lot[2]] - 2 * Fee
Reserved(lot) == IF lot = NoLot THEN 0 ELSE quote[lot[2]] + Fee
Closings == {t \in trades : t.lot # t.fill}

(* get_portfolio_snapshot *)
Available ==
    Capital + MapThenSumSet(LAMBDA t : Pnl(t.lot, t.fill), Closings)
            - MapThenSumSet(LAMBDA s : Reserved(held[s]), PaperSymbols)

PaperInit ==
    /\ now = 1 /\ quote \in [Times -> Prices]
    /\ orders = {} /\ trades = {} /\ held = [s \in PaperSymbols |-> NoLot]
    /\ hand = Idle /\ cut = {}

Affordable(f) == Available > 0 /\ Available >= quote[f[2]] + Fee

(* Mutant of Unfilled: an identity may be filled again.                    *)
UnfilledAlways(f) == TRUE

(* The duplicate check of both kinds of fill.                              *)
Unfilled(f) == f \notin orders

(* _close_reason: stop and target are next to the entry price.             *)
Triggered(f) == quote[f[2]] # quote[held[f[1]][2]]

(* _open_position and _close_position, up to their first save: a signal    *)
(* that cannot be executed, or already was, leaves the lock to others.     *)
Begun(f, leave) ==
    LET fills == IF held[f[1]] = NoLot THEN ~leave /\ Affordable(f)
                 ELSE leave \/ Triggered(f)
    IN  IF fills /\ Unfilled(f)
        THEN [step |-> "order", fill |-> f,
              lot  |-> IF held[f[1]] = NoLot THEN f ELSE held[f[1]]]
        ELSE Idle

(* execute, for the candidate of a cycle, a signal to leave, or one that   *)
(* waited for a human's approval.                                          *)
PaperExecute(f, leave) ==
    /\ hand = Idle /\ f[2] <= now /\ hand' = Begun(f, leave)
    /\ UNCHANGED <<now, quote, stored, cut>>

(* on_market_tick *)
MarketTick(s) ==
    /\ hand = Idle /\ held[s] # NoLot /\ hand' = Begun(<<s, now>>, FALSE)
    /\ UNCHANGED <<now, quote, stored, cut>>

(* close_position_for_operator *)
OperatorCloses(s) ==
    /\ hand = Idle /\ held[s] # NoLot /\ hand' = Begun(<<s, now>>, TRUE)
    /\ UNCHANGED <<now, quote, stored, cut>>

SaveOrder(h) == orders' = orders \cup {h.fill} /\ UNCHANGED <<trades, held>>
SaveTrade(h) == trades' = trades \cup {[fill |-> h.fill, lot |-> h.lot]} /\ UNCHANGED <<orders, held>>

SavePaperRow(h) == /\ held' = [held EXCEPT ![h.fill[1]] = IF h.lot = h.fill THEN h.lot ELSE NoLot]
              /\ UNCHANGED <<orders, trades>>

(* Mutant of SaveNext: the row is saved before the trade.                  *)
SaveNextRowFirst(h) ==
    \/ h.step = "order" /\ SaveOrder(h)
    \/ h.step = "trade" /\ SavePaperRow(h)
    \/ h.step = "row"   /\ SaveTrade(h)

(* The saves of a fill: its order, its trade, and the row.                 *)
SaveNext(h) ==
    \/ h.step = "order" /\ SaveOrder(h)
    \/ h.step = "trade" /\ SaveTrade(h)
    \/ h.step = "row"   /\ SavePaperRow(h)

Following == [order |-> "trade", trade |-> "row", row |-> "idle"]

SaveFill ==
    /\ hand # Idle /\ SaveNext(hand)
    /\ hand' = IF hand.step = "row" THEN Idle ELSE [hand EXCEPT !.step = Following[@]]
    /\ UNCHANGED <<now, quote, cut>>

(* A save raises, on disk or not, the task is cancelled or the process     *)
(* ends: what is left of the fill is not saved, and the lock is free.      *)
CutShort ==
    /\ hand # Idle /\ Cardinality(cut) < MaxCuts
    /\ SaveNext(hand) \/ UNCHANGED stored
    /\ cut' = cut \cup {hand.fill} /\ hand' = Idle
    /\ UNCHANGED <<now, quote>>

TimePasses ==
    /\ now < LastTime /\ now' = now + 1 /\ UNCHANGED <<quote, stored, hand, cut>>

PaperNext ==
    \/ \E f \in Fills, leave \in BOOLEAN : PaperExecute(f, leave)
    \/ \E s \in PaperSymbols : MarketTick(s) \/ OperatorCloses(s)
    \/ SaveFill \/ CutShort \/ TimePasses

PaperSpec == PaperInit /\ [][PaperNext]_paperVars

-----------------------------------------------------------------------------
(* Properties.                                                             *)

PaperTypeOK ==
    /\ orders \subseteq Fills /\ cut \subseteq Fills
    /\ trades \subseteq [fill : Fills, lot : Fills]
    /\ \A s \in PaperSymbols : held[s] \in {NoLot} \cup ({s} \X Times)
    /\ hand = Idle \/ hand.fill[1] = hand.lot[1]

(* What a lot cost or earned is in the balance once: a lot entered whole   *)
(* is held or was closed, never both, and closed once - but for a close    *)
(* that was cut short between its trade and the deletion of the row.       *)
LotsAccounted == hand = Idle =>
    \A f \in Fills : LET closings == {t \in Closings : t.lot = f}
                         whole    == {t \in closings : t.fill \notin cut}
        IN /\ [fill |-> f, lot |-> f] \in trades /\ f \notin cut
                 => held[f[1]] = f \/ closings # {}
           /\ whole # {} => held[f[1]] # f /\ Cardinality(whole) = 1

(* No entry takes the balance below nothing, whatever else is open; and a  *)
(* signal that was executed and closed again is not executed once more, by *)
(* a later cycle on the same candle, a late approval or after a restart.   *)
EntriesAreNew ==
    [][\A s \in PaperSymbols : held[s] = NoLot /\ held'[s] # NoLot
          => Available' >= 0 /\ \A t \in Closings : t.lot # held'[s]]_paperVars
=============================================================================
