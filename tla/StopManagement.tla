--------------------------- MODULE StopManagement ---------------------------
(***************************************************************************)
(* The life of a LIVE position's stop: market ticks tighten it (a new stop *)
(* is written down as pending, placed, its predecessor retired, the new    *)
(* one promoted), a partial take-profit shrinks the position, recovery     *)
(* picks up what was interrupted and natural-exit reconciliation clears    *)
(* what a closed position leaves. Tick, recovery and natural exit hold the *)
(* lifecycle lock; a portfolio sync of another task may not.               *)
(* One symbol; a stop's level grows with the profit it locks in.           *)
(***************************************************************************)
EXTENDS Naturals, FiniteSets

CONSTANTS
    MaxId,          \* bound on stop ids
    Top,            \* highest level of a stop
    Whole, Slice,    \* quantity of an entry, and of a partial take-profit
    MaxTrouble      \* bound on failing or doubtful calls, crashes and cancelled
                    \* ticks, and syncs that do not hold the lock, together

ASSUME StopAssumption ==
    /\ {MaxId, Top, Whole, Slice} \subseteq Nat \ {0} /\ Slice < Whole
    /\ MaxTrouble \in Nat

VARIABLES
    row,        \* durable: the stored position
    stop,       \* venue: the stop orders
    slice,      \* venue: the partial take-profit orders
    exposure,   \* venue: what is open
    copy,       \* the position the lock's holder works on, then the manager's copy
    monitor,    \* the manager: at work, quarantined, or none
    place, who,    \* where the holder of the lifecycle lock is, and who it is
    sync,       \* what a portfolio sync without the lock is about to save
    raced,      \* has a sync overwritten what it did not know of?
    trouble     \* failing calls, crashes and unlocked syncs so far

venue   == <<stop, slice, exposure>>
manager == <<copy, monitor, place, who>>
stopVars    == <<row, venue, manager, sync, raced, trouble>>

Ids    == 1..MaxId
Slices == {1, 2}
NoId   == 0

NoRow == [qty |-> 0, level |-> 0, id |-> NoId, pend |-> NoId, target |-> 0,
          slice |-> NoId, sliced |-> FALSE]
NoStop   == [status |-> "unused", level |-> 0, qty |-> 0]
NoSlice  == [status |-> "unused", done |-> 0]
Live     == {i \in Ids : stop[i].status = "live"}
Tightest == {stop[i].level : i \in Live}
Lesser(a, b) == IF a < b THEN a ELSE b

(* An id is new if it is neither at the venue nor in anybody's memory.     *)
Copies      == {row, copy, sync}
FreshIds    == {i \in Ids : stop[i].status = "unused" /\ \A r \in Copies : i \notin {r.id, r.pend}}
FreshSlices == {i \in Slices : slice[i].status = "unused" /\ \A r \in Copies : i # r.slice}
First(S)    == {i \in S : \A j \in S : i <= j}

StopInit ==
    /\ row = NoRow /\ exposure = 0
    /\ stop = [i \in Ids |-> NoStop]
    /\ slice = [i \in Slices |-> NoSlice]
    /\ copy = NoRow /\ monitor = "off" /\ place = "idle" /\ who = "nobody"
    /\ sync = NoRow /\ raced = FALSE
    /\ trouble = 0

Trouble == ~raced /\ trouble < MaxTrouble /\ trouble' = trouble + 1

-----------------------------------------------------------------------------
(* The venue.                                                              *)

(* An order that reduces the position dies with it.                        *)
Reduce(by, orders) ==
    /\ exposure' = exposure - by
    /\ slice' = [i \in Slices |->
           IF exposure = by /\ orders[i].status \in {"new", "partial"}
           THEN [orders[i] EXCEPT !.status = "canceled"] ELSE orders[i]]

VenueFires(i) ==
    /\ i \in Live /\ exposure > 0
    /\ \A j \in Live : stop[j].level <= stop[i].level
    /\ stop' = [stop EXCEPT ![i].status = "filled"]
    /\ Reduce(Lesser(stop[i].qty, exposure), slice)
    /\ UNCHANGED <<row, manager, sync, raced, trouble>>

(* The target is hit, or the position is closed by hand.                   *)
VenueCloses ==
    /\ exposure > 0 /\ Reduce(exposure, slice)
    /\ UNCHANGED <<row, stop, manager, sync, raced, trouble>>

VenueFills(i) ==
    /\ slice[i].status \in {"new", "partial"}
    /\ LET done == slice[i].done + 1 IN
       Reduce(1, [slice EXCEPT ![i].done = done,
                               ![i].status = IF done = Slice THEN "filled" ELSE "partial"])
    /\ UNCHANGED <<row, stop, manager, sync, raced, trouble>>

VenueExpires(i) ==
    /\ slice[i].status \in {"new", "partial"} /\ Trouble
    /\ slice' = [slice EXCEPT ![i].status = "canceled"]
    /\ UNCHANGED <<row, stop, exposure, manager, sync, raced>>

Place(i, level, qty) ==
    stop' = [stop EXCEPT ![i] = [status |-> "live", level |-> level, qty |-> qty]]

(* A protected entry: its row names the initial stop.                      *)
EnterProtected ==
    /\ row = NoRow /\ exposure = 0 /\ place = "idle"
    /\ \E i \in First(FreshIds) :
       /\ row' = [NoRow EXCEPT !.qty = Whole, !.id = i]
       /\ Place(i, 0, Whole)
    /\ exposure' = Whole
    /\ monitor' = "on"
    /\ UNCHANGED <<slice, place, who, copy, sync, raced, trouble>>

-----------------------------------------------------------------------------
(* Ends of a piece of work under the lock.                                 *)

Finish == place' = "idle" /\ who' = "nobody"

(* An exception: quarantined by the monitoring service, swallowed after a  *)
(* partial take-profit, unsafe in recovery. A manager that is not used any *)
(* more has no copy.                                                       *)
Raise ==
    /\ Finish
    /\ monitor' = IF who \in {"partial", "recovery"} THEN monitor ELSE "failed"
    /\ copy' = IF who = "partial" THEN copy ELSE NoRow

(* A save that raises may be on disk. update() needs the row to exist.     *)
MayStore(r) == row' \in (IF row = NoRow THEN {row} ELSE {row, r})
StoredRow(r)   == row # NoRow /\ row' = r /\ copy' = r

Save(r, next, as) ==
    \/ StoredRow(r) /\ place' = next /\ who' = as /\ UNCHANGED <<monitor, trouble>>
    \/ MayStore(r) /\ Raise /\ Trouble

SaveAndFinish(r) == Save(r, "idle", "nobody")

-----------------------------------------------------------------------------
(* A market tick. The manager's copy is used until it is old, or until a   *)
(* position of the symbol has been deleted.                                *)

Known == {row} \cup ({copy} \ {NoRow})

TickOn(p) == place = "idle" /\ monitor = "on" /\ p \in Known /\ p.id # NoId

TickResumes ==
    \E p \in Known :
       /\ TickOn(p) /\ (p.slice # NoId \/ p.pend # NoId)
       /\ place' = (IF p.slice # NoId THEN "ask" ELSE "find")
       /\ who' = "tick" /\ copy' = p
       /\ UNCHANGED <<row, venue, monitor, sync, raced, trouble>>

(* The partial take-profit is written down before it is ordered.           *)
TickSlices ==
    \E p \in Known : \E i \in First(FreshSlices) :
       /\ TickOn(p) /\ p.slice = NoId /\ p.pend = NoId /\ ~p.sliced
       /\ Save([p EXCEPT !.slice = i], "order", "tick")
       /\ UNCHANGED <<venue, sync, raced>>

(* A step is crossed: only a tighter stop replaces the present one.        *)
Different(p)     == {k \in 0..Top : k # p.level}         \* mutant
Tighter(p) == {k \in 1..Top : k > p.level}
\* mutant: the predecessor goes first
RetireFirst ==
    \E p \in Known : \E k \in Tighter(p), i \in First(FreshIds) :
       /\ TickOn(p) /\ p.slice = NoId /\ p.pend = NoId
       /\ Save([p EXCEPT !.pend = i, !.target = k], "retire", "tick")
       /\ UNCHANGED <<venue, sync, raced>>
TickSteps ==
    \E p \in Known : \E k \in Tighter(p), i \in First(FreshIds) :
       /\ TickOn(p) /\ p.slice = NoId /\ p.pend = NoId
       /\ Save([p EXCEPT !.pend = i, !.target = k], "stop", "tick")
       /\ UNCHANGED <<venue, sync, raced>>

-----------------------------------------------------------------------------
(* The partial take-profit.                                                *)

(* Whatever the POST comes to, the intent stays.                           *)
OrderSlice ==
    /\ place = "order"
    /\ \/ /\ exposure > 0
          /\ slice' = [slice EXCEPT ![copy.slice].status = "new"]
          /\ place' \in {"ask", "idle"} /\ who' = (IF place' = "ask" THEN who ELSE "nobody")
          /\ UNCHANGED trouble
       \/ Finish /\ Trouble /\ UNCHANGED slice
       \/ exposure = 0 /\ Finish /\ UNCHANGED <<slice, trouble>>
    /\ UNCHANGED <<row, stop, exposure, copy, monitor, sync, raced>>

(* Not found, unknown or not executed yet: the intent stays.               *)
AskLater ==
    /\ place = "ask" /\ slice[copy.slice].status \in {"unused", "new", "partial"}
    /\ Finish
    /\ UNCHANGED <<row, venue, copy, monitor, sync, raced, trouble>>

CancelRemainder ==
    /\ place = "ask" /\ slice[copy.slice].status = "partial"
    /\ slice' = [slice EXCEPT ![copy.slice].status = "canceled"]
    /\ UNCHANGED <<row, stop, exposure, manager, sync, raced, trouble>>

NothingDone ==
    /\ place = "ask" /\ slice[copy.slice].status = "canceled" /\ slice[copy.slice].done = 0
    /\ SaveAndFinish([copy EXCEPT !.slice = NoId])
    /\ UNCHANGED <<venue, sync, raced>>

(* The executed quantity is deducted; a stop below break-even is replaced  *)
(* by one at break-even, level 1.                                          *)
OnlyIfFilled == slice[copy.slice].status = "filled"       \* mutant
Executed == slice[copy.slice].status \in {"filled", "canceled"} /\ slice[copy.slice].done > 0
\* mutant: what was asked is deducted
DeductAsked == [copy EXCEPT !.qty = @ - Slice, !.slice = NoId, !.sliced = TRUE]
Deducted == [copy EXCEPT !.qty = @ - slice[copy.slice].done,
                         !.slice = NoId, !.sliced = TRUE]

Deduct ==
    /\ place = "ask" /\ Executed /\ slice[copy.slice].done <= copy.qty
    /\ IF copy.level >= 1
       THEN SaveAndFinish([Deducted EXCEPT !.pend = NoId, !.target = 0])
       ELSE \E i \in First(FreshIds) :
               Save([Deducted EXCEPT !.pend = i, !.target = 1], "stop", "partial")
    /\ UNCHANGED <<venue, sync, raced>>

(* More was executed than the row has: fail closed.                        *)
RefuseToDeduct ==
    /\ place = "ask" /\ Executed /\ slice[copy.slice].done > copy.qty
    /\ Finish
    /\ UNCHANGED <<row, venue, copy, monitor, sync, raced, trouble>>

-----------------------------------------------------------------------------
(* The replacement of a stop.                                              *)

Matches(i, level) == stop[i].qty = copy.qty /\ stop[i].level = level
Proven(i, level)  == stop[i].status = "live" /\ Matches(i, level)
Cleared           == [copy EXCEPT !.pend = NoId, !.target = 0]

(* A later tick looks the pending stop up; one that was never placed and   *)
(* that the venue would no longer take is dropped.                         *)
Find ==
    /\ place = "find"
    /\ LET s == stop[copy.pend] IN
       IF s.status = "unused"
       THEN \/ place' = "stop" /\ UNCHANGED <<row, monitor, who, copy, trouble>>
            \/ SaveAndFinish(Cleared)
       ELSE IF Proven(copy.pend, copy.target)
       THEN place' = "stop" /\ UNCHANGED <<row, monitor, who, copy, trouble>>
       ELSE Raise /\ UNCHANGED <<row, trouble>>
    /\ UNCHANGED <<venue, sync, raced>>

(* ensure_stop_loss_order(): the exact stop exists, or is placed.          *)
PlaceStop ==
    /\ place = "stop"
    /\ IF stop[copy.pend].status # "unused"
       THEN /\ IF Proven(copy.pend, copy.target)
               THEN place' = "retire" /\ UNCHANGED <<who, copy, monitor>>
               ELSE Raise
            /\ UNCHANGED <<row, stop, trouble>>
       ELSE \/ /\ copy.qty > 0
               /\ Place(copy.pend, copy.target, copy.qty)
               /\ \/ place' = "retire" /\ UNCHANGED <<who, copy, monitor, trouble>>
                  \/ Raise /\ Trouble
               /\ UNCHANGED row
            \/ copy.qty = 0 /\ Raise /\ UNCHANGED <<row, stop, trouble>>
            \/ Raise /\ Trouble /\ UNCHANGED <<row, stop>>
    /\ UNCHANGED <<slice, exposure, sync, raced>>

(* The venue would trigger the stop at once. The present one must be live. *)
StopRefused ==
    /\ place = "stop" /\ stop[copy.pend].status = "unused" /\ copy.qty > 0
    /\ IF Proven(copy.id, copy.level)
       THEN SaveAndFinish(Cleared)
       ELSE Raise /\ UNCHANGED <<row, trouble>>
    /\ UNCHANGED <<venue, sync, raced>>

(* The predecessor must have the quantity of the position, and goes.       *)
Retire ==
    /\ place = "retire"
    /\ LET s == stop[copy.id] IN
       \/ /\ s.status = "live" /\ s.qty = copy.qty
          /\ \/ /\ stop' = [stop EXCEPT ![copy.id].status = "canceled"]
                /\ place' = "prove" /\ UNCHANGED <<who, copy, monitor, trouble>>
             \/ Raise /\ Trouble
                /\ stop' \in {stop, [stop EXCEPT ![copy.id].status = "canceled"]}
       \/ s.status \in {"canceled", "filled"} /\ s.qty = copy.qty
          /\ place' = "prove" /\ UNCHANGED <<stop, who, copy, monitor, trouble>>
       \/ s.qty # copy.qty /\ Raise /\ UNCHANGED <<stop, trouble>>
    /\ UNCHANGED <<row, slice, exposure, sync, raced>>

(* The new stop is looked at once more and promoted.                       *)
StillPending == [copy EXCEPT !.level = copy.target, !.id = copy.pend]  \* mutant
Promoted == [copy EXCEPT !.level = copy.target, !.id = copy.pend, !.pend = NoId, !.target = 0]
Promote ==
    /\ place = "prove"
    /\ IF ~Proven(copy.pend, copy.target) THEN Raise /\ UNCHANGED <<row, trouble>>
       ELSE IF who = "recovery" THEN Save(Promoted, "legs", who)
       ELSE SaveAndFinish(Promoted)
    /\ UNCHANGED <<venue, sync, raced>>

-----------------------------------------------------------------------------
(* Recovery: the runtime is closed, the portfolio synchronised and each    *)
(* position's protection ensured under one hold of the lock.               *)

(* A tick is cancelled or the process dies; with the process goes a sync.  *)
Stop ==
    /\ monitor # "off" \/ place # "idle"
    /\ Trouble
    /\ monitor' = "off" /\ copy' = NoRow /\ Finish
    /\ sync' \in {sync, NoRow}
    /\ UNCHANGED <<row, venue, raced>>

(* The quantity becomes the venue's, the rest of the row stays.            *)
Recover ==
    /\ place = "idle" /\ monitor # "on" /\ row.id # NoId /\ exposure > 0
    /\ LET r == [row EXCEPT !.qty = exposure] IN
       /\ row' = r /\ copy' = r
       /\ place' = IF r.pend = NoId \/ stop[r.pend].status = "unused" THEN "legs" ELSE "pending"
    /\ raced' = (raced \/ row.slice # NoId)
    /\ monitor' = "off" /\ who' = "recovery"
    /\ UNCHANGED <<venue, sync, trouble>>

RecoverPending ==
    /\ place = "pending"
    /\ IF Proven(copy.pend, copy.target)
       THEN place' = "stop" /\ UNCHANGED <<who, copy, monitor>>
       ELSE Raise
    /\ UNCHANGED <<row, venue, sync, raced, trouble>>

(* A cancelled stop hands over to the one tighter stop of the right size,  *)
(* or a fresh one is placed at the initial level.                          *)
Successors == {i \in Live : stop[i].qty = copy.qty /\ stop[i].level > copy.level}

Resumed    == monitor' = "on" /\ copy' = NoRow /\ Finish

RecoverLegs ==
    /\ place = "legs"
    /\ LET s == stop[copy.id] IN
       CASE s.status = "live" /\ s.qty >= copy.qty /\ s.level = copy.level ->
                /\ row' = copy /\ Resumed /\ UNCHANGED <<stop, trouble>>
         [] s.status = "canceled" /\ s.level = copy.level /\ Cardinality(Successors) = 1 ->
                /\ LET i == CHOOSE i \in Successors : TRUE IN
                   row' = [copy EXCEPT !.id = i, !.level = stop[i].level]
                /\ Resumed /\ UNCHANGED <<stop, trouble>>
         [] s.status = "canceled" /\ s.level = copy.level /\ Successors = {} /\ FreshIds # {} ->
                /\ \E i \in First(FreshIds) :
                      /\ row' = [copy EXCEPT !.id = i, !.level = 0, !.pend = NoId, !.target = 0]
                      /\ Place(i, 0, copy.qty)
                /\ Resumed /\ UNCHANGED trouble
         [] OTHER -> Raise /\ UNCHANGED <<row, stop, trouble>>
    /\ UNCHANGED <<slice, exposure, sync, raced>>

(* Natural-exit reconciliation: no stop survives the position it was for,  *)
(* and no copy of the row is used again. Ids of dead orders are used anew. *)
Orphans == Live
\* mutant: the deletion does not reach the manager's copy
KeepCopy ==
    /\ place = "idle" /\ row # NoRow /\ exposure = 0
    /\ stop' = [i \in Ids |-> IF i \in Live \ Orphans THEN stop[i] ELSE NoStop]
    /\ slice' = [i \in Slices |-> NoSlice]
    /\ row' = NoRow
    /\ UNCHANGED <<copy, exposure, monitor, place, who, sync, raced, trouble>>
NaturalExit ==
    /\ place = "idle" /\ row # NoRow /\ exposure = 0
    /\ stop' = [i \in Ids |-> IF i \in Live \ Orphans THEN stop[i] ELSE NoStop]
    /\ slice' = [i \in Slices |-> NoSlice]
    /\ row' = NoRow /\ copy' = NoRow
    /\ UNCHANGED <<exposure, monitor, place, who, sync, raced, trouble>>

-----------------------------------------------------------------------------
(* PositionService.sync() without the lock: the risk evaluation of the next*)
(* entry, the operator's list of positions. It saves what it read with the *)
(* venue's quantity; a row whose position is gone is kept.                 *)

SyncReads ==
    /\ sync = NoRow /\ exposure > 0 /\ Trouble
    /\ sync' = [row EXCEPT !.qty = exposure]
    /\ UNCHANGED <<row, venue, manager, raced>>

SyncSaves ==
    /\ sync # NoRow
    /\ row' = sync /\ sync' = NoRow
    /\ raced' = (raced \/ row.slice # NoId \/ row # sync)
    /\ UNCHANGED <<venue, manager, trouble>>

-----------------------------------------------------------------------------
Work ==
    \/ OrderSlice \/ AskLater \/ CancelRemainder \/ NothingDone \/ Deduct \/ RefuseToDeduct
    \/ Find \/ PlaceStop \/ StopRefused \/ Retire \/ Promote
    \/ RecoverPending \/ RecoverLegs

VenueSteps == \/ \E i \in Ids : VenueFires(i)
              \/ VenueCloses
              \/ \E i \in Slices : VenueFills(i) \/ VenueExpires(i)

StopNext ==
    \/ VenueSteps \/ EnterProtected
    \/ TickResumes \/ TickSlices \/ TickSteps
    \/ Work \/ Stop \/ Recover \/ NaturalExit
    \/ SyncReads \/ SyncSaves

(* Ticks keep coming, a holder of the lock keeps going, a quarantined or   *)
(* stopped runtime is recovered, market orders are executed.               *)
StopFairness ==
    /\ WF_stopVars(TickResumes) /\ WF_stopVars(Work) /\ WF_stopVars(Recover)
    /\ WF_stopVars(\E i \in Slices : VenueFills(i))

StopSpec == StopInit /\ [][StopNext]_stopVars /\ StopFairness
-----------------------------------------------------------------------------
(* Properties.                                                             *)

Rows == [qty : 0..Whole, level : 0..Top, id : {NoId} \cup Ids, pend : {NoId} \cup Ids,
         target : 0..Top, slice : {NoId} \cup Slices, sliced : BOOLEAN]

(* Types, and what the phase of the lock's holder says of its hand.        *)
StopTypeOK ==
    /\ {row, copy, sync} \subseteq Rows
    /\ stop \in [Ids -> [status : {"unused", "live", "canceled", "filled"}, level : 0..Top,
                         qty : 0..Whole]]
    /\ slice \in [Slices -> [status : {"unused", "new", "partial", "filled", "canceled"},
                             done : 0..Slice]]
    /\ exposure \in 0..Whole /\ monitor \in {"on", "failed", "off"} /\ raced \in BOOLEAN
    /\ who \in {"nobody", "tick", "partial", "recovery"}
    /\ place \in {"idle", "order", "ask", "find", "stop", "retire", "prove", "pending", "legs"}
    /\ place \in {"order", "ask"} => copy.slice # NoId
    /\ place \in {"find", "stop", "retire", "prove", "pending"} => copy.pend # NoId

Managed == row.id # NoId /\ exposure > 0

(* The venue always holds a stop for the whole open position, through      *)
(* every replacement, crash and partial exit.                              *)
AlwaysProtected == Managed => \E i \in Live : stop[i].qty >= exposure

(* Unless a sync overwrote it, the row names every live stop; no stop is   *)
(* left to close the symbol's next position.                               *)
LiveStopsAreNamed == ~raced => Live \subseteq {row.id, row.pend}

(* Unless a sync overwrote the row, its quantity is the venue's whenever   *)
(* no partial exit is unresolved, and one partial exit at most is executed *)
(* for a position, however often a tick is cut short or repeated.          *)
PartialExitAccounted == ~raced =>
    /\ Managed /\ row.slice = NoId => row.qty = exposure
    /\ \A i, j \in Slices : slice[i].done > 0 /\ slice[j].done > 0 => i = j

(* Unless a sync overwrote the row, the best stop at the venue never moves *)
(* back while the position is open.                                        *)
NeverLoosens ==
    [][exposure > 0 /\ exposure' > 0 /\ ~raced' =>
       \A l \in Tightest : \E k \in Tightest' : k >= l]_stopVars

(* A replacement whose predecessor has the quantity of the position comes  *)
(* to an end.                                                              *)
Settled == exposure = 0 \/ raced
ReplacementEnds ==
    (row.pend # NoId /\ stop[row.id].qty = row.qty) ~> (row.pend = NoId \/ Settled)

(* A partial take-profit the venue has is accounted for.                   *)
PartialExitEnds ==
    \A i \in Slices : (row.slice = i /\ slice[i].status # "unused") ~> (row.slice # i \/ Settled)

(* Claimed, and violated: a verified partial fill lets the stop advance.   *)
EveryReplacementEnds == (row.pend # NoId) ~> (row.pend = NoId \/ Settled)

(* Claimed, and violated: what was executed is deducted exactly once.      *)
DeductedOnce == Managed /\ row.slice = NoId => row.qty >= exposure
=============================================================================
