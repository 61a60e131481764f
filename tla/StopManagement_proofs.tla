------------------------ MODULE StopManagement_proofs -----------------------
(***************************************************************************)
(* What is open at the venue is covered by a stop, for any ids, levels and *)
(* quantities and any number of troubles. AlwaysProtected is not inductive:*)
(* it must be known what stands in for a predecessor when it is cancelled. *)
(***************************************************************************)
EXTENDS StopManagement, FiniteSetTheorems, TLAPS

(* A live stop for all that is open.                                       *)
Covers(i) == stop[i].status = "live" /\ stop[i].qty >= exposure
Covered   == exposure > 0 => \E i \in Ids : Covers(i)

(* When the predecessor is about to go, its successor is live and as large;*)
(* if that fired already, another stop is larger, or nothing is open.      *)
Succeeded ==
    place = "retire" =>
        \/ stop[copy.pend].status = "live" /\ stop[copy.pend].qty = copy.qty
        \/ exposure > 0 => \E i \in Ids : Covers(i) /\ stop[i].qty > copy.qty

(* No stop is its own successor, in the row or in a copy of it; recovery   *)
(* looks at the legs with no successor placed.                             *)
Another(r) == r.pend # NoId => r.pend # r.id
Distinct ==
    /\ Another(row) /\ Another(copy) /\ Another(sync)
    /\ place = "legs" => copy.pend = NoId \/ stop[copy.pend].status = "unused"

(* Partial take-profits reduce what is open, and no further than asked.    *)
Working(i) == slice[i].status \in {"new", "partial"}
OrdersFit ==
    /\ \A i \in Slices : Working(i) => exposure > 0 /\ slice[i].done < Slice
    /\ \A i \in Slices : slice[i].status = "unused" => slice[i].done = 0
SlicesFit == OrdersFit /\ (place = "order" => slice[copy.slice].status = "unused")

(* TypeOK, of the venue and of the tasks.                                  *)
StopOrders  == [status : {"unused", "live", "canceled", "filled"}, level : 0..Top, qty : 0..Whole]
SliceOrders == [status : {"unused", "new", "partial", "filled", "canceled"}, done : 0..Slice]
VenueOK ==
    /\ stop \in [Ids -> StopOrders] /\ slice \in [Slices -> SliceOrders]
    /\ exposure \in 0..Whole
TaskOK ==
    /\ row \in Rows /\ copy \in Rows /\ sync \in Rows
    /\ monitor \in {"on", "failed", "off"} /\ raced \in BOOLEAN
    /\ who \in {"nobody", "tick", "partial", "recovery"}
    /\ place \in {"idle", "order", "ask", "find", "stop", "retire", "prove", "pending", "legs"}
    /\ place \in {"order", "ask"} => copy.slice # NoId
    /\ place \in {"find", "stop", "retire", "prove", "pending"} => copy.pend # NoId

IInv == VenueOK /\ TaskOK /\ SlicesFit /\ Distinct /\ Succeeded /\ Covered

-----------------------------------------------------------------------------
(* The operators the actions are built from.                               *)

LEMMA TypeParts == StopTypeOK <=> VenueOK /\ TaskOK
BY DEF StopTypeOK, VenueOK, TaskOK, StopOrders, SliceOrders

LEMMA Quantities ==
    /\ MaxId \in Nat /\ Top \in Nat /\ Whole \in Nat /\ Slice \in Nat
    /\ Top > 0 /\ Whole > 0 /\ Slice > 0 /\ Slice < Whole
BY StopAssumption

LEMMA NoRowTyped == NoRow \in Rows /\ Another(NoRow)
BY Quantities DEF NoRow, Rows, NoId, Another

(* A row whose replacement is struck out.                                  *)
LEMMA Struck ==
    ASSUME NEW r \in Rows, NEW s, s = [r EXCEPT !.pend = NoId, !.target = 0]
    PROVE  s \in Rows /\ s.pend = NoId /\ Another(s)
<1>1. 0 \in 0..Top
  BY Quantities
<1>2. s \in Rows
  BY <1>1 DEF Rows
<1>3. s.pend = NoId
  BY DEF Rows
<1> QED
  BY <1>2, <1>3 DEF Another

(* An exception frees the lock, and a copy is kept or dropped.             *)
LEMMA RaiseEnds ==
    ASSUME Raise
    PROVE  /\ place' = "idle" /\ who' = "nobody" /\ copy' \in {copy, NoRow}
           /\ monitor' \in {monitor, "failed"}
BY DEF Raise, Finish

(* A save succeeds and the work goes on, or raises with or without effect. *)
LEMMA SaveEnds ==
    ASSUME NEW r, NEW next, NEW as, Save(r, next, as)
    PROVE  \/ /\ row' = r /\ copy' = r /\ place' = next /\ who' = as
              /\ monitor' = monitor
           \/ /\ row' \in {row, r} /\ copy' \in {copy, NoRow}
              /\ place' = "idle" /\ who' = "nobody" /\ monitor' \in {monitor, "failed"}
<1>1. CASE StoredRow(r) /\ place' = next /\ who' = as /\ UNCHANGED <<monitor, trouble>>
  BY <1>1 DEF StoredRow
<1>2. CASE MayStore(r) /\ Raise /\ Trouble
  BY <1>2, RaiseEnds DEF MayStore
<1> QED
  BY <1>1, <1>2 DEF Save

(* What either leaves is typed if what was saved is.                       *)
LEMMA SavedTyped ==
    ASSUME TaskOK, NEW r \in Rows, NEW next, NEW as, Save(r, next, as),
           UNCHANGED <<sync, raced>>,
           next \in {"idle", "order", "stop", "legs"}, as \in {"nobody", "tick", "partial", "recovery"},
           next = "order" => r.slice # NoId,
           next = "stop" => r.pend # NoId
    PROVE  TaskOK'
BY SaveEnds, NoRowTyped DEF TaskOK

LEMMA RaiseTyped ==
    ASSUME TaskOK, Raise, row' \in Rows, UNCHANGED <<sync, raced>>
    PROVE  TaskOK'
BY RaiseEnds, NoRowTyped DEF TaskOK

(* The work goes on without touching the rows.                             *)
LEMMA MovesTyped ==
    ASSUME TaskOK, UNCHANGED <<row, copy, sync, monitor, raced, who>>,
           place' \in {"stop", "retire", "prove", "idle"},
           place' # "idle" => copy.pend # NoId
    PROVE  TaskOK'
BY DEF TaskOK

LEMMA FreshTyped ==
    ASSUME NEW i \in First(FreshIds)
    PROVE  /\ i \in Ids /\ i # NoId /\ stop[i].status = "unused"
           /\ i # row.id /\ i # copy.id /\ i # sync.id
<1>1. i \in FreshIds
  BY DEF First
<1>2. i \in Ids /\ stop[i].status = "unused" /\ \A r \in {row, copy, sync} : i \notin {r.id, r.pend}
  BY <1>1 DEF FreshIds, Copies
<1> QED
  BY <1>2, Quantities DEF Ids, NoId

LEMMA FreshSliceTyped ==
    ASSUME NEW i \in First(FreshSlices)
    PROVE  i \in Slices /\ i # NoId /\ slice[i].status = "unused"
BY DEF First, FreshSlices, Slices, NoId

LEMMA KnownTyped ==
    ASSUME TaskOK, Distinct, NEW p \in Known
    PROVE  p \in Rows /\ p \in {row, copy} /\ Another(p)
BY DEF Known, TaskOK, Distinct

-----------------------------------------------------------------------------
(* The venue: types, and what works there reduces an open position.        *)

LEMMA Reduced ==
    ASSUME exposure \in 0..Whole, NEW by \in 0..exposure,
           NEW orders \in [Slices -> SliceOrders], Reduce(by, orders),
           \A i \in Slices : orders[i].status \in {"new", "partial"} =>
                                  exposure > 0 /\ orders[i].done < Slice,
           \A i \in Slices : orders[i].status = "unused" => orders[i].done = 0
    PROVE  /\ exposure' \in 0..exposure /\ slice' \in [Slices -> SliceOrders] /\ OrdersFit'
           /\ \A i \in Slices : slice'[i].status = "unused" <=> orders[i].status = "unused"
<1>1. exposure' = exposure - by /\ exposure' \in 0..exposure
  BY DEF Reduce
<1>2. ASSUME NEW i \in Slices
      PROVE  \/ slice'[i] = orders[i] /\ ~(exposure = by /\ orders[i].status \in {"new", "partial"})
             \/ slice'[i] = [orders[i] EXCEPT !.status = "canceled"]
                /\ orders[i].status \in {"new", "partial"}
  BY DEF Reduce
<1>3. ASSUME NEW i \in Slices
      PROVE  /\ slice'[i] \in SliceOrders
             /\ slice'[i].status \in {"new", "partial"} => exposure' > 0 /\ slice'[i].done < Slice
             /\ slice'[i].status = "unused" => slice'[i].done = 0
             /\ slice'[i].status = "unused" <=> orders[i].status = "unused"
  <2>1. orders[i] \in SliceOrders
    OBVIOUS
  <2>2. CASE slice'[i] = orders[i] /\ ~(exposure = by /\ orders[i].status \in {"new", "partial"})
    BY <1>1, <2>1, <2>2
  <2>3. CASE /\ slice'[i] = [orders[i] EXCEPT !.status = "canceled"]
             /\ orders[i].status \in {"new", "partial"}
    BY <2>1, <2>3 DEF SliceOrders
  <2> QED
    BY <1>2, <2>2, <2>3
<1>4. slice' \in [Slices -> SliceOrders]
  BY <1>3 DEF Reduce
<1> QED
  BY <1>1, <1>3, <1>4 DEF OrdersFit, Working

LEMMA VenueReduces ==
    ASSUME VenueOK, OrdersFit, VenueSteps
    PROVE  /\ VenueOK' /\ OrdersFit' /\ exposure' \in 0..exposure
           /\ \A i \in Slices : slice[i].status = "unused" => slice'[i].status = "unused"
<1> USE DEF VenueOK
<1>1. ASSUME NEW i \in Ids, VenueFires(i)
      PROVE  VenueOK' /\ OrdersFit' /\ exposure' \in 0..exposure
             /\ \A j \in Slices : slice[j].status = "unused" => slice'[j].status = "unused"
  <2>1. Lesser(stop[i].qty, exposure) \in 0..exposure
    BY Quantities DEF Lesser, StopOrders
  <2>2. Reduce(Lesser(stop[i].qty, exposure), slice)
    BY <1>1 DEF VenueFires
  <2>3. stop' \in [Ids -> StopOrders]
    BY <1>1 DEF VenueFires, StopOrders
  <2> QED
    BY <2>1, <2>2, <2>3, Reduced, Quantities DEF OrdersFit, Working
<1>2. ASSUME VenueCloses
      PROVE  VenueOK' /\ OrdersFit' /\ exposure' \in 0..exposure
             /\ \A j \in Slices : slice[j].status = "unused" => slice'[j].status = "unused"
  <2>1. Reduce(exposure, slice) /\ exposure \in 0..exposure /\ UNCHANGED stop
    BY <1>2, Quantities DEF VenueCloses
  <2> QED
    BY <2>1, Reduced, Quantities DEF OrdersFit, Working
<1>3. ASSUME NEW i \in Slices, VenueFills(i)
      PROVE  VenueOK' /\ OrdersFit' /\ exposure' \in 0..exposure
             /\ \A j \in Slices : slice[j].status = "unused" => slice'[j].status = "unused"
  <2> DEFINE done   == slice[i].done + 1
             orders == [slice EXCEPT ![i].done = done,
                                     ![i].status = IF done = Slice THEN "filled" ELSE "partial"]
  <2>1. Reduce(1, orders) /\ UNCHANGED stop /\ Working(i)
    BY <1>3 DEF VenueFills, Working
  <2>2. exposure > 0 /\ 1 \in 0..exposure /\ slice[i].done < Slice /\ slice[i] \in SliceOrders
    BY <2>1, Quantities DEF OrdersFit
  <2>3. orders[i] = [status |-> IF done = Slice THEN "filled" ELSE "partial", done |-> done]
    BY <2>2 DEF SliceOrders
  <2>4. orders[i] \in SliceOrders /\ (orders[i].status = "partial" => orders[i].done < Slice)
        /\ orders[i].status # "unused"
    BY <2>2, <2>3, Quantities DEF SliceOrders
  <2>5. orders \in [Slices -> SliceOrders] /\ \A j \in Slices : j # i => orders[j] = slice[j]
    BY <2>4
  <2> HIDE DEF orders, done
  <2>6. \A j \in Slices : orders[j].status \in {"new", "partial"} =>
                              exposure > 0 /\ orders[j].done < Slice
    BY <2>2, <2>3, <2>4, <2>5 DEF OrdersFit, Working
  <2>7. \A j \in Slices : orders[j].status = "unused" => orders[j].done = 0
    BY <2>4, <2>5 DEF OrdersFit
  <2>8. \A j \in Slices : slice[j].status = "unused" => orders[j].status = "unused"
    BY <2>1, <2>5 DEF Working
  <2> QED
    BY <2>1, <2>2, <2>5, <2>6, <2>7, <2>8, Reduced, Quantities
<1>4. ASSUME NEW i \in Slices, VenueExpires(i)
      PROVE  VenueOK' /\ OrdersFit' /\ exposure' \in 0..exposure
             /\ \A j \in Slices : slice[j].status = "unused" => slice'[j].status = "unused"
  <2>1. /\ slice' = [slice EXCEPT ![i].status = "canceled"] /\ UNCHANGED <<stop, exposure>>
        /\ slice[i] \in SliceOrders /\ Working(i) /\ exposure \in 0..exposure
    BY <1>4, Quantities DEF VenueExpires, Working
  <2> QED
    BY <2>1 DEF OrdersFit, Working, SliceOrders
<1> QED
  BY <1>1, <1>2, <1>3, <1>4 DEF VenueSteps

-----------------------------------------------------------------------------
(* Cover: what stays of it when orders fire, are placed, or go.            *)

LEMMA StopsKept ==
    ASSUME VenueOK, Covered, UNCHANGED stop, exposure' \in 0..exposure
    PROVE  Covered' /\ (Succeeded /\ UNCHANGED <<place, copy>> => Succeeded')
<1>1. \A i \in Ids : Covers(i) => Covers(i)'
  BY Quantities DEF Covers, VenueOK, StopOrders
<1>2. exposure' > 0 => exposure > 0
  BY Quantities DEF VenueOK
<1> QED
  BY <1>1, <1>2 DEF Covered, Succeeded

LEMMA FiringCovers ==
    ASSUME VenueOK, Covered, Succeeded, NEW i \in Ids, VenueFires(i)
    PROVE  Covered' /\ Succeeded'
<1> USE DEF VenueOK
<1>1. /\ exposure > 0 /\ exposure' = exposure - Lesser(stop[i].qty, exposure)
      /\ stop' = [stop EXCEPT ![i].status = "filled"] /\ UNCHANGED <<place, copy>>
  BY DEF VenueFires, Reduce, manager
<1>2. stop[i].qty \in Nat /\ exposure \in Nat
  BY Quantities DEF StopOrders
<1>3. exposure' <= exposure /\ exposure' \in Nat
      /\ (exposure' > 0 => stop[i].qty < exposure)
  BY <1>1, <1>2 DEF Lesser
<1>4. \A j \in Ids : stop[j].qty \in Nat
  BY Quantities DEF StopOrders
<1>5. \A j \in Ids : j # i => stop'[j] = stop[j]
  BY <1>1
<1>6. \A j \in Ids : j # i /\ Covers(j) => Covers(j)' /\ stop'[j].qty = stop[j].qty
  BY <1>2, <1>3, <1>4, <1>5 DEF Covers
<1>7. exposure' > 0 => \A j \in Ids : Covers(j) => j # i
  BY <1>2, <1>3, <1>4 DEF Covers
<1>8. Covered'
  BY <1>1, <1>6, <1>7 DEF Covered
<1>9. Succeeded'
  <2> SUFFICES ASSUME place' = "retire", exposure' > 0,
                      ~(stop'[copy.pend].status = "live" /\ stop'[copy.pend].qty = copy.qty)
               PROVE  \E j \in Ids : Covers(j)' /\ stop'[j].qty > copy.qty
    BY <1>1 DEF Succeeded
  <2>1. CASE stop[copy.pend].status = "live" /\ stop[copy.pend].qty = copy.qty
    <3>1. copy.pend = i
      BY <1>1, <2>1
    <3>2. PICK j \in Ids : Covers(j)
      BY <1>1 DEF Covered
    <3>3. j # i /\ Covers(j)' /\ stop'[j].qty = stop[j].qty
      BY <1>6, <1>7, <3>2
    <3>4. stop[j].qty > copy.qty
      BY <1>2, <1>3, <1>4, <2>1, <3>1, <3>2 DEF Covers
    <3> QED
      BY <3>3, <3>4
  <2>2. CASE \E j \in Ids : Covers(j) /\ stop[j].qty > copy.qty
    BY <1>6, <1>7, <2>2
  <2> QED
    BY <1>1, <2>1, <2>2 DEF Succeeded
<1> QED
  BY <1>8, <1>9

(* An order is placed under an id nobody used.                             *)
LEMMA PlacingCovers ==
    ASSUME VenueOK, Covered, NEW i \in Ids, stop[i].status = "unused",
           NEW level \in 0..Top, NEW qty \in 0..Whole, Place(i, level, qty),
           UNCHANGED <<slice, exposure>>
    PROVE  VenueOK' /\ Covered'
           /\ stop'[i].status = "live" /\ stop'[i].level = level /\ stop'[i].qty = qty
<1>1. stop' = [stop EXCEPT ![i] = [status |-> "live", level |-> level, qty |-> qty]]
  BY DEF Place
<1>2. \A j \in Ids : Covers(j) => j # i /\ Covers(j)'
  BY <1>1 DEF Covers, VenueOK
<1>3. VenueOK'
  BY <1>1 DEF VenueOK, StopOrders
<1> QED
  BY <1>1, <1>2, <1>3 DEF Covered, VenueOK

(* The predecessor goes when it has a successor.                           *)
LEMMA CancelCovers ==
    ASSUME VenueOK, TaskOK, Distinct, Succeeded, Covered, place = "retire",
           stop[copy.id].qty = copy.qty,
           stop' = [stop EXCEPT ![copy.id].status = "canceled"],
           UNCHANGED <<slice, exposure>>
    PROVE  VenueOK' /\ Covered'
<1>1. VenueOK'
  BY DEF VenueOK, StopOrders
<1>2. copy.pend \in Ids /\ copy.pend # copy.id
  BY DEF TaskOK, Distinct, Another, Rows
<1>3. \A j \in Ids : j # copy.id /\ Covers(j) => Covers(j)'
  BY DEF Covers, VenueOK
<1>4. ASSUME exposure > 0
      PROVE  \E j \in Ids : j # copy.id /\ Covers(j)
  <2>1. CASE stop[copy.pend].status = "live" /\ stop[copy.pend].qty = copy.qty
    BY <1>2, <1>4, <2>1 DEF Covered, Covers
  <2>2. CASE \E j \in Ids : Covers(j) /\ stop[j].qty > copy.qty
    <3>1. copy.qty \in Nat
      BY Quantities DEF TaskOK, Rows
    <3> QED
      BY <2>2, <3>1
  <2> QED
    BY <1>4, <2>1, <2>2 DEF Succeeded
<1> QED
  BY <1>1, <1>3, <1>4 DEF Covered

-----------------------------------------------------------------------------
(* The two ends of a step under the lock, and the invariant.               *)

LEMMA RaiseKeeps ==
    ASSUME IInv, Raise, UNCHANGED <<row, sync, raced>>, VenueOK', OrdersFit', Covered'
    PROVE  IInv'
<1>1. TaskOK'
  BY RaiseTyped DEF IInv, TaskOK
<1>2. place' = "idle" /\ copy' \in {copy, NoRow}
  BY RaiseEnds
<1>3. Distinct' /\ SlicesFit' /\ Succeeded'
  BY <1>2, NoRowTyped DEF IInv, Distinct, SlicesFit, Succeeded, Another
<1> QED
  BY <1>1, <1>3 DEF IInv

LEMMA SaveKeeps ==
    ASSUME IInv, NEW r \in Rows, NEW next, NEW as, Save(r, next, as),
           UNCHANGED <<venue, sync, raced>>, Another(r),
           next \in {"idle", "order", "stop", "legs"}, as \in {"nobody", "tick", "partial", "recovery"},
           next = "order" => r.slice # NoId /\ slice[r.slice].status = "unused",
           next = "stop" => r.pend # NoId,
           next = "legs" => r.pend = NoId
    PROVE  IInv'
<1>1. UNCHANGED <<stop, slice, exposure>>
  BY DEF venue
<1>2. VenueOK' /\ OrdersFit' /\ Covered'
  BY <1>1 DEF IInv, VenueOK, SlicesFit, OrdersFit, Working, Covered, Covers
<1>3. TaskOK'
  BY SavedTyped DEF IInv
<1>4. \/ row' = r /\ copy' = r /\ place' = next
      \/ row' \in {row, r} /\ copy' \in {copy, NoRow} /\ place' = "idle"
  BY SaveEnds
<1>5. Distinct'
  BY <1>1, <1>4, NoRowTyped DEF IInv, Distinct, Another
<1>6. SlicesFit' /\ Succeeded'
  BY <1>1, <1>2, <1>4 DEF SlicesFit, Succeeded
<1> QED
  BY <1>2, <1>3, <1>5, <1>6 DEF IInv

(* The work goes on and the venue is as it was.                            *)
LEMMA MoveKeeps ==
    ASSUME IInv, UNCHANGED <<row, copy, sync, monitor, raced, who>>, UNCHANGED venue,
           place' \in {"stop", "retire", "prove", "idle"},
           place' # "idle" => copy.pend # NoId,
           place' = "retire" => stop[copy.pend].status = "live" /\ stop[copy.pend].qty = copy.qty
    PROVE  IInv'
<1>1. TaskOK'
  BY MovesTyped DEF IInv
<1> QED
  BY <1>1 DEF venue, IInv, VenueOK, SlicesFit, OrdersFit, Working, Distinct, Another,
              Succeeded, Covered, Covers

-----------------------------------------------------------------------------
(* One lemma per part of StopNext.                                         *)

LEMMA InvariantInit == StopInit => IInv
<1> SUFFICES ASSUME StopInit PROVE IInv
  OBVIOUS
<1>1. VenueOK
  BY Quantities DEF StopInit, VenueOK, StopOrders, SliceOrders, NoStop, NoSlice
<1>2. TaskOK
  BY NoRowTyped DEF StopInit, TaskOK
<1>3. SlicesFit /\ Distinct /\ Succeeded /\ Covered
  BY NoRowTyped, Quantities
     DEF StopInit, SlicesFit, OrdersFit, Working, NoSlice, Distinct, Succeeded, Covered
<1> QED
  BY <1>1, <1>2, <1>3 DEF IInv

LEMMA VenueKeeps == IInv /\ VenueSteps => IInv'
<1> SUFFICES ASSUME IInv, VenueSteps PROVE IInv'
  OBVIOUS
<1>1. UNCHANGED <<row, copy, monitor, place, who, sync, raced>>
  BY DEF VenueSteps, VenueFires, VenueCloses, VenueFills, VenueExpires, manager
<1>2. /\ VenueOK' /\ OrdersFit' /\ exposure' \in 0..exposure
      /\ \A i \in Slices : slice[i].status = "unused" => slice'[i].status = "unused"
  BY VenueReduces DEF IInv, SlicesFit
<1>3. TaskOK'
  BY <1>1 DEF IInv, TaskOK
<1>4. SlicesFit'
  BY <1>1, <1>2 DEF IInv, SlicesFit, TaskOK, Rows
<1>5. /\ Covered' /\ Succeeded'
      /\ \A j \in Ids : stop[j].status = "unused" => stop'[j].status = "unused"
  <2>1. ASSUME NEW i \in Ids, VenueFires(i)
        PROVE  /\ Covered' /\ Succeeded'
               /\ \A j \in Ids : stop[j].status = "unused" => stop'[j].status = "unused"
    BY <2>1, FiringCovers DEF IInv, VenueFires, Live, VenueOK
  <2>2. ASSUME UNCHANGED stop
        PROVE  /\ Covered' /\ Succeeded'
               /\ \A j \in Ids : stop[j].status = "unused" => stop'[j].status = "unused"
    BY <1>1, <1>2, <2>2, StopsKept DEF IInv
  <2>3. (\E i \in Ids : VenueFires(i)) \/ UNCHANGED stop
    BY DEF VenueSteps, VenueCloses, VenueFills, VenueExpires
  <2> QED
    BY <2>1, <2>2, <2>3
<1>6. Distinct'
  BY <1>1, <1>5 DEF IInv, Distinct, Another, TaskOK, Rows
<1> QED
  BY <1>2, <1>3, <1>4, <1>5, <1>6 DEF IInv

LEMMA EnterKeeps == IInv /\ EnterProtected => IInv'
<1> SUFFICES ASSUME IInv, EnterProtected PROVE IInv'
  OBVIOUS
<1>1. PICK i \in First(FreshIds) :
          row' = [NoRow EXCEPT !.qty = Whole, !.id = i] /\ Place(i, 0, Whole)
  BY DEF EnterProtected
<1>2. i \in Ids /\ i # NoId /\ stop[i].status = "unused"
  BY <1>1, FreshTyped
<1>3. /\ exposure = 0 /\ exposure' = Whole /\ monitor' = "on" /\ place = "idle"
      /\ UNCHANGED <<slice, place, who, copy, sync, raced>>
  BY DEF EnterProtected
<1>4. stop' = [stop EXCEPT ![i] = [status |-> "live", level |-> 0, qty |-> Whole]]
  BY <1>1 DEF Place
<1>5. VenueOK' /\ Covered'
  <2>1. VenueOK'
    BY <1>2, <1>3, <1>4, Quantities DEF IInv, VenueOK, StopOrders
  <2>2. Covers(i)'
    BY <1>2, <1>3, <1>4, Quantities DEF IInv, VenueOK, Covers
  <2> QED
    BY <1>2, <2>1, <2>2 DEF Covered
<1>6. row' \in Rows /\ Another(row')
  <2>1. row' = [qty |-> Whole, level |-> 0, id |-> i, pend |-> NoId, target |-> 0,
                slice |-> NoId, sliced |-> FALSE]
    BY <1>1 DEF NoRow
  <2> QED
    BY <1>2, <2>1, Quantities DEF Rows, Another
<1>7. TaskOK' /\ Distinct'
  BY <1>3, <1>6 DEF IInv, TaskOK, Distinct, Another
<1>8. SlicesFit' /\ Succeeded'
  BY <1>3, Quantities DEF IInv, SlicesFit, OrdersFit, Working, Succeeded
<1> QED
  BY <1>5, <1>7, <1>8 DEF IInv

LEMMA TickResumesKeeps == IInv /\ TickResumes => IInv'
<1> SUFFICES ASSUME IInv, TickResumes PROVE IInv'
  OBVIOUS
<1>1. PICK p \in Known :
          /\ p.slice # NoId \/ p.pend # NoId
          /\ place' = (IF p.slice # NoId THEN "ask" ELSE "find")
          /\ who' = "tick" /\ copy' = p
          /\ UNCHANGED <<row, venue, monitor, sync, raced>>
  BY DEF TickResumes
<1>2. p \in Rows /\ Another(p)
  BY KnownTyped DEF IInv
<1>3. TaskOK' /\ Distinct' /\ Succeeded'
  BY <1>1, <1>2 DEF IInv, TaskOK, Distinct, Another, Succeeded
<1>4. VenueOK' /\ SlicesFit' /\ Covered'
  BY <1>1 DEF IInv, venue, VenueOK, SlicesFit, OrdersFit, Working, Covered, Covers
<1> QED
  BY <1>3, <1>4 DEF IInv

LEMMA TickSlicesKeeps == IInv /\ TickSlices => IInv'
<1> SUFFICES ASSUME IInv, TickSlices PROVE IInv'
  OBVIOUS
<1>1. PICK p \in Known, i \in First(FreshSlices) :
          Save([p EXCEPT !.slice = i], "order", "tick")
  BY DEF TickSlices
<1>2. p \in Rows /\ Another(p)
  BY KnownTyped DEF IInv
<1>3. i \in Slices /\ i # NoId /\ slice[i].status = "unused"
  BY FreshSliceTyped
<1> DEFINE r == [p EXCEPT !.slice = i]
<1>4. r \in Rows /\ Another(r) /\ r.slice = i
  BY <1>2, <1>3 DEF Rows, Another
<1>5. UNCHANGED <<venue, sync, raced>>
  BY DEF TickSlices
<1> HIDE DEF r
<1> QED
  BY <1>1, <1>3, <1>4, <1>5, SaveKeeps DEF r

LEMMA TickStepsKeeps == IInv /\ TickSteps => IInv'
<1> SUFFICES ASSUME IInv, TickSteps PROVE IInv'
  OBVIOUS
<1>1. PICK p \in Known : \E k \in Tighter(p), i \in First(FreshIds) :
          Save([p EXCEPT !.pend = i, !.target = k], "stop", "tick")
  BY DEF TickSteps
<1>2. PICK k \in Tighter(p), i \in First(FreshIds) :
          Save([p EXCEPT !.pend = i, !.target = k], "stop", "tick")
  BY <1>1
<1>3. p \in Rows /\ p \in {row, copy} /\ Another(p)
  BY KnownTyped DEF IInv
<1>4. i \in Ids /\ i # NoId /\ i # p.id /\ k \in 0..Top
  BY <1>3, FreshTyped, Quantities DEF Tighter
<1> DEFINE r == [p EXCEPT !.pend = i, !.target = k]
<1>5. r \in Rows /\ Another(r) /\ r.pend # NoId
  BY <1>3, <1>4 DEF Rows, Another
<1>6. UNCHANGED <<venue, sync, raced>>
  BY DEF TickSteps
<1> HIDE DEF r
<1> QED
  BY <1>2, <1>5, <1>6, SaveKeeps DEF r

LEMMA OrderSliceKeeps == IInv /\ OrderSlice => IInv'
<1> SUFFICES ASSUME IInv, OrderSlice PROVE IInv'
  OBVIOUS
<1>1. /\ place = "order" /\ place' \in {"ask", "idle"} /\ who' \in {who, "nobody"}
      /\ UNCHANGED <<row, stop, exposure, copy, monitor, sync, raced>>
  BY DEF OrderSlice, Finish
<1>2. /\ slice[copy.slice].status = "unused"
      /\ copy.slice \in Slices
  BY <1>1 DEF IInv, TaskOK, SlicesFit, Rows
<1>3. \/ exposure > 0 /\ slice' = [slice EXCEPT ![copy.slice].status = "new"]
      \/ UNCHANGED slice
  BY DEF OrderSlice
<1>4. VenueOK' /\ OrdersFit'
  BY <1>1, <1>2, <1>3, Quantities
     DEF IInv, VenueOK, SliceOrders, SlicesFit, OrdersFit, Working
<1>5. TaskOK' /\ Distinct' /\ Succeeded' /\ Covered'
  BY <1>1 DEF IInv, TaskOK, Distinct, Another, Succeeded, Covered, Covers
<1> QED
  BY <1>1, <1>4, <1>5 DEF IInv, SlicesFit

LEMMA AskKeeps == IInv /\ (AskLater \/ RefuseToDeduct) => IInv'
<1> SUFFICES ASSUME IInv, AskLater \/ RefuseToDeduct PROVE IInv'
  OBVIOUS
<1>1. /\ place' = "idle" /\ who' = "nobody"
      /\ UNCHANGED <<row, stop, slice, exposure, copy, monitor, sync, raced>>
  BY DEF AskLater, RefuseToDeduct, Finish, venue
<1> QED
  BY <1>1 DEF IInv, VenueOK, TaskOK, SlicesFit, OrdersFit, Working, Distinct, Another,
              Succeeded, Covered, Covers

LEMMA CancelRemainderKeeps == IInv /\ CancelRemainder => IInv'
<1> SUFFICES ASSUME IInv, CancelRemainder PROVE IInv'
  OBVIOUS
<1>1. /\ place = "ask" /\ slice' = [slice EXCEPT ![copy.slice].status = "canceled"]
      /\ UNCHANGED <<row, stop, exposure, copy, monitor, place, who, sync, raced>>
  BY DEF CancelRemainder, manager
<1>2. copy.slice \in Slices /\ slice[copy.slice].status = "partial"
  BY <1>1 DEF IInv, TaskOK, Rows, CancelRemainder
<1>3. VenueOK' /\ OrdersFit'
  BY <1>1, <1>2 DEF IInv, VenueOK, SliceOrders, SlicesFit, OrdersFit, Working
<1>4. TaskOK' /\ Distinct' /\ Succeeded' /\ Covered'
  BY <1>1 DEF IInv, TaskOK, Distinct, Another, Succeeded, Covered, Covers
<1> QED
  BY <1>1, <1>3, <1>4 DEF IInv, SlicesFit

LEMMA NothingDoneKeeps == IInv /\ NothingDone => IInv'
<1> SUFFICES ASSUME IInv, NothingDone PROVE IInv'
  OBVIOUS
<1> DEFINE r == [copy EXCEPT !.slice = NoId]
<1>1. r \in Rows /\ Another(r)
  BY DEF IInv, TaskOK, Rows, Distinct, Another
<1>2. Save(r, "idle", "nobody") /\ UNCHANGED <<venue, sync, raced>>
  BY DEF NothingDone, SaveAndFinish
<1> HIDE DEF r
<1> QED
  BY <1>1, <1>2, SaveKeeps

LEMMA DeductKeeps == IInv /\ Deduct => IInv'
<1> SUFFICES ASSUME IInv, Deduct PROVE IInv'
  OBVIOUS
<1>1. /\ place = "ask" /\ slice[copy.slice].done <= copy.qty
      /\ UNCHANGED <<venue, sync, raced>>
  BY DEF Deduct
<1>2. copy \in Rows /\ slice[copy.slice].done \in Nat /\ copy.qty \in 0..Whole
  BY <1>1, Quantities DEF IInv, TaskOK, Rows, VenueOK, SliceOrders
<1>3. copy.qty - slice[copy.slice].done \in 0..Whole
  BY <1>1, <1>2, Quantities
<1>4. Deducted \in Rows /\ Deducted.id = copy.id
  BY <1>2, <1>3 DEF Deducted, Rows
<1>5. CASE SaveAndFinish([Deducted EXCEPT !.pend = NoId, !.target = 0])
  <2> DEFINE r == [Deducted EXCEPT !.pend = NoId, !.target = 0]
  <2>2. Save(r, "idle", "nobody") /\ r = [Deducted EXCEPT !.pend = NoId, !.target = 0]
    BY <1>5 DEF SaveAndFinish
  <2> HIDE DEF r
  <2>1. r \in Rows /\ Another(r)
    BY <1>4, <2>2, Struck
  <2> QED
    BY <1>1, <2>1, <2>2, SaveKeeps
<1>6. ASSUME NEW i \in First(FreshIds),
             Save([Deducted EXCEPT !.pend = i, !.target = 1], "stop", "partial")
      PROVE  IInv'
  <2> DEFINE r == [Deducted EXCEPT !.pend = i, !.target = 1]
  <2>1. i \in Ids /\ i # NoId /\ i # copy.id
    BY FreshTyped
  <2>3. Save(r, "stop", "partial") /\ r = [Deducted EXCEPT !.pend = i, !.target = 1]
    BY <1>6
  <2> HIDE DEF r
  <2>2. r \in Rows /\ Another(r) /\ r.pend # NoId
    <3>1. 1 \in 0..Top
      BY Quantities
    <3>2. r \in Rows
      BY <1>4, <2>1, <2>3, <3>1 DEF Rows
    <3>3. r.pend = i /\ r.id = Deducted.id
      BY <1>4, <2>3 DEF Rows
    <3> QED
      BY <1>4, <2>1, <3>2, <3>3 DEF Another
  <2> QED
    BY <1>1, <2>2, <2>3, SaveKeeps
<1> QED
  BY <1>5, <1>6 DEF Deduct

LEMMA ClearedTyped ==
    ASSUME TaskOK
    PROVE  Cleared \in Rows /\ Another(Cleared)
<1>1. copy \in Rows /\ Cleared = [copy EXCEPT !.pend = NoId, !.target = 0]
  BY DEF TaskOK, Cleared
<1> QED
  BY <1>1, Struck

LEMMA FindKeeps == IInv /\ Find => IInv'
<1> SUFFICES ASSUME IInv, Find PROVE IInv'
  OBVIOUS
<1>1. place = "find" /\ copy.pend # NoId /\ UNCHANGED <<stop, slice, exposure, sync, raced>>
  BY DEF Find, IInv, TaskOK, venue
<1>2. VenueOK' /\ OrdersFit' /\ Covered'
  BY <1>1 DEF IInv, VenueOK, SlicesFit, OrdersFit, Working, Covered, Covers
<1>3. CASE place' = "stop" /\ UNCHANGED <<row, monitor, who, copy>>
  BY <1>1, <1>3, MoveKeeps DEF venue
<1>4. CASE SaveAndFinish(Cleared)
  BY <1>1, <1>4, ClearedTyped, SaveKeeps DEF SaveAndFinish, IInv, venue
<1>5. CASE Raise /\ UNCHANGED row
  BY <1>1, <1>2, <1>5, RaiseKeeps
<1> QED
  BY <1>3, <1>4, <1>5 DEF Find

LEMMA PlaceStopKeeps == IInv /\ PlaceStop => IInv'
<1> SUFFICES ASSUME IInv, PlaceStop PROVE IInv'
  OBVIOUS
<1>1. /\ place = "stop" /\ copy.pend \in Ids /\ copy.qty \in 0..Whole /\ copy.target \in 0..Top
      /\ UNCHANGED <<slice, exposure, sync, raced, row>>
  BY DEF PlaceStop, IInv, TaskOK, Rows
<1>2. CASE Proven(copy.pend, copy.target) /\ place' = "retire"
           /\ UNCHANGED <<who, copy, monitor, stop>>
  BY <1>1, <1>2, MoveKeeps DEF Proven, Matches, venue, IInv, TaskOK
<1>3. CASE Raise /\ UNCHANGED stop
  <2>1. VenueOK' /\ OrdersFit' /\ Covered'
    BY <1>1, <1>3 DEF IInv, VenueOK, SlicesFit, OrdersFit, Working, Covered, Covers
  <2> QED
    BY <1>1, <1>3, <2>1, RaiseKeeps
<1>4. CASE /\ stop[copy.pend].status = "unused" /\ Place(copy.pend, copy.target, copy.qty)
           /\ (place' = "retire" /\ UNCHANGED <<who, copy, monitor>>) \/ Raise
  <2>1. VenueOK' /\ Covered'
        /\ stop'[copy.pend].status = "live" /\ stop'[copy.pend].qty = copy.qty
    BY <1>1, <1>4, PlacingCovers DEF IInv
  <2>2. OrdersFit'
    BY <1>1 DEF IInv, SlicesFit, OrdersFit, Working
  <2>3. CASE Raise
    BY <1>1, <2>1, <2>2, <2>3, RaiseKeeps
  <2>4. CASE place' = "retire" /\ UNCHANGED <<who, copy, monitor>>
    <3>1. TaskOK'
      BY <1>1, <2>4, MovesTyped DEF IInv, TaskOK
    <3>2. Distinct' /\ SlicesFit' /\ Succeeded'
      BY <1>1, <2>1, <2>2, <2>4 DEF IInv, Distinct, Another, SlicesFit, Succeeded
    <3> QED
      BY <2>1, <3>1, <3>2 DEF IInv
  <2> QED
    BY <1>4, <2>3, <2>4
<1> QED
  BY <1>2, <1>3, <1>4 DEF PlaceStop

LEMMA StopRefusedKeeps == IInv /\ StopRefused => IInv'
<1> SUFFICES ASSUME IInv, StopRefused PROVE IInv'
  OBVIOUS
<1>1. UNCHANGED <<stop, slice, exposure, sync, raced>>
  BY DEF StopRefused, venue
<1>2. VenueOK' /\ OrdersFit' /\ Covered'
  BY <1>1 DEF IInv, VenueOK, SlicesFit, OrdersFit, Working, Covered, Covers
<1>3. CASE SaveAndFinish(Cleared)
  BY <1>1, <1>3, ClearedTyped, SaveKeeps DEF SaveAndFinish, IInv, venue
<1>4. CASE Raise /\ UNCHANGED row
  BY <1>1, <1>2, <1>4, RaiseKeeps
<1> QED
  BY <1>3, <1>4 DEF StopRefused

LEMMA RetireKeeps == IInv /\ Retire => IInv'
<1> SUFFICES ASSUME IInv, Retire PROVE IInv'
  OBVIOUS
<1>1. place = "retire" /\ UNCHANGED <<row, slice, exposure, sync, raced>>
  BY DEF Retire
<1>2. copy.pend # NoId
  BY <1>1 DEF IInv, TaskOK
<1>3. OrdersFit'
  BY <1>1 DEF IInv, SlicesFit, OrdersFit, Working
<1>4. CASE UNCHANGED stop
  <2>1. VenueOK' /\ Covered'
    BY <1>1, <1>4 DEF IInv, VenueOK, Covered, Covers
  <2>2. CASE Raise
    BY <1>1, <1>3, <2>1, <2>2, RaiseKeeps
  <2>3. CASE place' = "prove" /\ UNCHANGED <<who, copy, monitor>>
    BY <1>1, <1>2, <1>4, <2>3, MoveKeeps DEF venue
  <2> QED
    BY <2>2, <2>3 DEF Retire
<1>5. CASE stop[copy.id].qty = copy.qty /\ stop' = [stop EXCEPT ![copy.id].status = "canceled"]
  <2>1. VenueOK' /\ Covered'
    BY <1>1, <1>5, CancelCovers DEF IInv
  <2>2. CASE Raise
    BY <1>1, <1>3, <2>1, <2>2, RaiseKeeps
  <2>3. CASE place' = "prove" /\ UNCHANGED <<who, copy, monitor>>
    <3>1. TaskOK'
      BY <1>1, <1>2, <2>3, MovesTyped DEF IInv
    <3>2. Distinct' /\ SlicesFit' /\ Succeeded'
      BY <1>1, <1>3, <2>3 DEF IInv, Distinct, Another, SlicesFit, Succeeded
    <3> QED
      BY <2>1, <3>1, <3>2 DEF IInv
  <2> QED
    BY <2>2, <2>3 DEF Retire
<1> QED
  BY <1>4, <1>5 DEF Retire

LEMMA PromoteKeeps == IInv /\ Promote => IInv'
<1> SUFFICES ASSUME IInv, Promote PROVE IInv'
  OBVIOUS
<1>1. UNCHANGED <<stop, slice, exposure, sync, raced>>
  BY DEF Promote, venue
<1>2. VenueOK' /\ OrdersFit' /\ Covered'
  BY <1>1 DEF IInv, VenueOK, SlicesFit, OrdersFit, Working, Covered, Covers
<1>3. Promoted \in Rows /\ Another(Promoted) /\ Promoted.pend = NoId
  <2> DEFINE r == [copy EXCEPT !.level = copy.target, !.id = copy.pend]
  <2>1. r \in Rows
    BY DEF IInv, TaskOK, Rows
  <2>2. Promoted = [r EXCEPT !.pend = NoId, !.target = 0]
    BY DEF Promoted
  <2> HIDE DEF r
  <2> QED
    BY <2>1, <2>2, Struck
<1>4. CASE Save(Promoted, "legs", who)
  BY <1>1, <1>3, <1>4, SaveKeeps DEF IInv, TaskOK, venue
<1>5. CASE SaveAndFinish(Promoted)
  BY <1>1, <1>3, <1>5, SaveKeeps DEF SaveAndFinish, venue
<1>6. CASE Raise /\ UNCHANGED row
  BY <1>1, <1>2, <1>6, RaiseKeeps
<1> QED
  BY <1>4, <1>5, <1>6 DEF Promote

LEMMA StopKeeps == IInv /\ Stop => IInv'
<1> SUFFICES ASSUME IInv, Stop PROVE IInv'
  OBVIOUS
<1>1. /\ copy' = NoRow /\ monitor' = "off" /\ place' = "idle" /\ who' = "nobody"
      /\ sync' \in {sync, NoRow} /\ UNCHANGED <<row, stop, slice, exposure, raced>>
  BY DEF Stop, Finish, venue
<1>2. TaskOK' /\ Distinct'
  BY <1>1, NoRowTyped DEF IInv, TaskOK, Distinct, Another
<1> QED
  BY <1>1, <1>2 DEF IInv, VenueOK, SlicesFit, OrdersFit, Working, Succeeded, Covered, Covers

LEMMA RecoverKeeps == IInv /\ Recover => IInv'
<1> SUFFICES ASSUME IInv, Recover PROVE IInv'
  OBVIOUS
<1> DEFINE r == [row EXCEPT !.qty = exposure]
<1>1. r \in Rows /\ r.pend = row.pend /\ r.id = row.id
  BY DEF IInv, TaskOK, VenueOK, Rows
<1>2. /\ row' = r /\ copy' = r
      /\ place' = IF r.pend = NoId \/ stop[r.pend].status = "unused" THEN "legs" ELSE "pending"
      /\ raced' = (raced \/ row.slice # NoId)
      /\ monitor' = "off" /\ who' = "recovery"
      /\ UNCHANGED <<stop, slice, exposure, sync>>
  BY DEF Recover, venue
<1> HIDE DEF r
<1>3. TaskOK'
  BY <1>1, <1>2 DEF IInv, TaskOK
<1>4. Distinct'
  BY <1>1, <1>2 DEF IInv, Distinct, Another
<1> QED
  BY <1>2, <1>3, <1>4 DEF IInv, VenueOK, SlicesFit, OrdersFit, Working, Succeeded, Covered, Covers

LEMMA RecoverPendingKeeps == IInv /\ RecoverPending => IInv'
<1> SUFFICES ASSUME IInv, RecoverPending PROVE IInv'
  OBVIOUS
<1>1. place = "pending" /\ copy.pend # NoId /\ UNCHANGED <<row, stop, slice, exposure, sync, raced>>
  BY DEF RecoverPending, IInv, TaskOK, venue
<1>2. VenueOK' /\ OrdersFit' /\ Covered'
  BY <1>1 DEF IInv, VenueOK, SlicesFit, OrdersFit, Working, Covered, Covers
<1>3. CASE place' = "stop" /\ UNCHANGED <<who, copy, monitor>>
  BY <1>1, <1>3, MoveKeeps DEF venue
<1>4. CASE Raise
  BY <1>1, <1>2, <1>4, RaiseKeeps
<1> QED
  BY <1>3, <1>4 DEF RecoverPending

LEMMA RecoverLegsKeeps == IInv /\ RecoverLegs => IInv'
<1> SUFFICES ASSUME IInv, RecoverLegs PROVE IInv'
  OBVIOUS
<1>1. /\ place = "legs" /\ copy \in Rows /\ Another(copy)
      /\ copy.pend = NoId \/ stop[copy.pend].status = "unused"
      /\ UNCHANGED <<slice, exposure, sync, raced>>
  BY DEF RecoverLegs, IInv, TaskOK, Distinct
<1>2. OrdersFit'
  BY <1>1 DEF IInv, SlicesFit, OrdersFit, Working
<1>3. UNCHANGED stop => VenueOK' /\ Covered'
  BY <1>1 DEF IInv, VenueOK, Covered, Covers
<1>4. ASSUME Resumed, row' \in Rows, Another(row'), VenueOK', Covered'
      PROVE  IInv'
  <2>1. monitor' = "on" /\ copy' = NoRow /\ place' = "idle" /\ who' = "nobody"
    BY <1>4 DEF Resumed, Finish
  <2>2. TaskOK' /\ Distinct'
    BY <1>1, <1>4, <2>1, NoRowTyped DEF IInv, TaskOK, Distinct, Another
  <2> QED
    BY <1>2, <1>4, <2>1, <2>2 DEF IInv, SlicesFit, Succeeded
<1>5. CASE row' = copy /\ Resumed /\ UNCHANGED stop
  BY <1>1, <1>3, <1>4, <1>5
<1>6. ASSUME NEW i \in Successors, row' = [copy EXCEPT !.id = i, !.level = stop[i].level],
             Resumed, UNCHANGED stop
      PROVE  IInv'
  <2>1. i \in Ids /\ stop[i].status = "live" /\ stop[i].level \in 0..Top
    BY DEF Successors, Live, IInv, VenueOK, StopOrders
  <2>2. row' \in Rows /\ row'.id = i /\ row'.pend = copy.pend
    BY <1>1, <1>6, <2>1 DEF Rows
  <2>3. Another(row')
    BY <1>1, <2>1, <2>2 DEF Another
  <2> QED
    BY <1>3, <1>4, <1>6, <2>2, <2>3
<1>7. ASSUME NEW i \in First(FreshIds),
             row' = [copy EXCEPT !.id = i, !.level = 0, !.pend = NoId, !.target = 0],
             Place(i, 0, copy.qty), Resumed
      PROVE  IInv'
  <2>1. i \in Ids /\ stop[i].status = "unused" /\ 0 \in 0..Top /\ copy.qty \in 0..Whole
    BY <1>1, FreshTyped, Quantities DEF Rows
  <2>2. VenueOK' /\ Covered'
    BY <1>1, <1>7, <2>1, PlacingCovers DEF IInv
  <2>3. row' \in Rows /\ Another(row')
    <3> DEFINE r == [copy EXCEPT !.id = i, !.level = 0]
    <3>1. r \in Rows
      BY <1>1, <2>1 DEF Rows
    <3>2. row' = [r EXCEPT !.pend = NoId, !.target = 0]
      BY <1>7
    <3> HIDE DEF r
    <3> QED
      BY <3>1, <3>2, Struck
  <2> QED
    BY <1>4, <1>7, <2>2, <2>3
<1>8. CASE Raise /\ UNCHANGED <<row, stop>>
  BY <1>1, <1>2, <1>3, <1>8, RaiseKeeps
<1>9. Cardinality(Successors) = 1 => \E i \in Successors : i = CHOOSE j \in Successors : TRUE
  <2>1. Successors # {} => (CHOOSE j \in Successors : TRUE) \in Successors
    OBVIOUS
  <2>2. Cardinality({}) = 0
    BY FS_EmptySet
  <2> QED
    BY <2>1, <2>2
<1> QED
  BY <1>5, <1>6, <1>7, <1>8, <1>9 DEF RecoverLegs

LEMMA NaturalExitKeeps == IInv /\ NaturalExit => IInv'
<1> SUFFICES ASSUME IInv, NaturalExit PROVE IInv'
  OBVIOUS
<1>1. /\ place = "idle" /\ exposure = 0 /\ row' = NoRow /\ copy' = NoRow
      /\ slice' = [i \in Slices |-> NoSlice]
      /\ stop' = [i \in Ids |-> IF i \in Live \ Orphans THEN stop[i] ELSE NoStop]
      /\ UNCHANGED <<exposure, monitor, place, who, sync, raced>>
  BY DEF NaturalExit
<1>2. NoStop \in StopOrders /\ NoSlice \in SliceOrders
  BY Quantities DEF NoStop, StopOrders, NoSlice, SliceOrders
<1>3. VenueOK'
  BY <1>1, <1>2 DEF IInv, VenueOK
<1>4. TaskOK' /\ Distinct'
  BY <1>1, NoRowTyped DEF IInv, TaskOK, Distinct, Another
<1>5. SlicesFit' /\ Succeeded' /\ Covered'
  BY <1>1 DEF SlicesFit, OrdersFit, Working, NoSlice, Succeeded, Covered
<1> QED
  BY <1>3, <1>4, <1>5 DEF IInv

LEMMA SyncKeeps == IInv /\ (SyncReads \/ SyncSaves) => IInv'
<1> SUFFICES ASSUME IInv, SyncReads \/ SyncSaves PROVE IInv'
  OBVIOUS
<1>1. UNCHANGED <<stop, slice, exposure, copy, monitor, place, who>>
  BY DEF SyncReads, SyncSaves, venue, manager
<1> DEFINE r == [row EXCEPT !.qty = exposure]
<1>2. \/ sync' = r /\ UNCHANGED <<row, raced>>
      \/ /\ row' = sync /\ sync' = NoRow
         /\ raced' = (raced \/ row.slice # NoId \/ row # sync)
  BY DEF SyncReads, SyncSaves
<1>3. r \in Rows /\ r.pend = row.pend /\ r.id = row.id
  BY DEF IInv, TaskOK, VenueOK, Rows
<1> HIDE DEF r
<1>4. Another(r)
  BY <1>3 DEF IInv, Distinct, Another
<1>5. TaskOK'
  BY <1>1, <1>2, <1>3, NoRowTyped DEF IInv, TaskOK
<1>6. Another(row)' /\ Another(copy)' /\ Another(sync)'
  BY <1>1, <1>2, <1>4, NoRowTyped DEF IInv, Distinct, Another
<1>7. Distinct'
  BY <1>1, <1>6 DEF IInv, Distinct
<1> QED
  BY <1>1, <1>5, <1>7 DEF IInv, VenueOK, SlicesFit, OrdersFit, Working, Succeeded, Covered, Covers

-----------------------------------------------------------------------------
(* The invariant, and what follows from it.                                *)

LEMMA InvariantStep == IInv /\ [StopNext]_stopVars => IInv'
<1> SUFFICES ASSUME IInv, [StopNext]_stopVars PROVE IInv'
  OBVIOUS
<1>1. CASE StopNext
  <2>1. CASE Work
    BY <2>1, OrderSliceKeeps, AskKeeps, CancelRemainderKeeps, NothingDoneKeeps, DeductKeeps,
       FindKeeps, PlaceStopKeeps, StopRefusedKeeps, RetireKeeps, PromoteKeeps,
       RecoverPendingKeeps, RecoverLegsKeeps DEF Work
  <2> QED
    BY <1>1, <2>1, VenueKeeps, EnterKeeps, TickResumesKeeps, TickSlicesKeeps, TickStepsKeeps,
       StopKeeps, RecoverKeeps, NaturalExitKeeps, SyncKeeps DEF StopNext
<1>2. CASE UNCHANGED stopVars
  BY <1>2 DEF stopVars, venue, manager, IInv, VenueOK, TaskOK, SlicesFit, OrdersFit, Working,
              Distinct, Another, Succeeded, Covered, Covers
<1> QED
  BY <1>1, <1>2

(* The invariant holds of every behaviour: what is open is covered, and    *)
(* whatever is about to go has something that stands in for it.            *)
THEOREM Inductive == StopSpec => []IInv
BY InvariantInit, InvariantStep, PTL DEF StopSpec

(* Rows, orders and the tasks' places keep their types, and whoever works  *)
(* on a replacement or a partial exit has its id in hand.                  *)
THEOREM TypeCorrect == StopSpec => []StopTypeOK
<1>1. IInv => StopTypeOK
  BY TypeParts DEF IInv
<1> QED
  BY <1>1, Inductive, PTL

(* Through every replacement, partial exit, crash and recovery, whatever a *)
(* sync without the lock saves, a live stop at the venue has at least the  *)
(* quantity of a managed open position.                                    *)
THEOREM Protected == StopSpec => []AlwaysProtected
<1>1. IInv => AlwaysProtected
  BY DEF IInv, Covered, Covers, AlwaysProtected, Managed, Live
<1> QED
  BY <1>1, Inductive, PTL

-----------------------------------------------------------------------------
(***************************************************************************)
(* What the stored row says of the venue, as long as no sync has           *)
(* overwritten what it did not know of: it names every live stop, its      *)
(* levels are those of the stops it names, and its quantity is the venue's *)
(* but for the one partial exit it names.                                  *)
(***************************************************************************)

(* Whoever holds the lock has the row in hand; a copy that is kept is the  *)
(* row.                                                                    *)
Owned == copy = row \/ (copy = NoRow /\ place = "idle")

(* After a partial exit the old stop has another quantity than the row, so *)
(* that the replacement never comes further than its removal.              *)
Phases ==
    /\ place = "idle" => who = "nobody"
    /\ who = "partial" => place \in {"stop", "retire"} /\ stop[row.id].qty > row.qty
    /\ place = "prove" => stop[row.id].status # "live"
    /\ place # "idle" \/ exposure > 0 => row.id # NoId

Names(r) ==
    /\ Live \subseteq {r.id, r.pend}
    /\ r.id # NoId => stop[r.id].level = r.level /\ (~r.sliced => stop[r.id].qty = r.qty)
    /\ r.pend # NoId => r.target > r.level
          /\ (stop[r.pend].status # "unused" => stop[r.pend].level = r.target)
Sized == exposure > 0 => \A i \in Live : stop[i].qty >= exposure

Out(r) == IF r.slice = NoId THEN 0 ELSE slice[r.slice].done
Accounts(r) ==
    /\ r.slice # NoId => r.pend = NoId /\ ~r.sliced
    /\ \A i \in Slices : i # r.slice => ~Working(i) /\ (~r.sliced => slice[i].done = 0)
    /\ exposure > 0 => exposure + Out(r) = r.qty
OneExit == \A i, j \in Slices : slice[i].done > 0 /\ slice[j].done > 0 => i = j

Books == Owned /\ Phases /\ Names(row) /\ Sized /\ Accounts(row) /\ OneExit

-----------------------------------------------------------------------------
LEMMA RacedStays == IInv /\ [StopNext]_stopVars /\ ~raced' => ~raced
BY DEF IInv, TaskOK, StopNext, VenueSteps, VenueFires, VenueCloses, VenueFills, VenueExpires, EnterProtected,
       TickResumes, TickSlices, TickSteps, Work, OrderSlice, AskLater, CancelRemainder, NothingDone,
       Deduct, RefuseToDeduct, Find, PlaceStop, StopRefused, Retire, Promote, RecoverPending,
       RecoverLegs, Stop, Recover, NaturalExit, SyncReads, SyncSaves, stopVars

LEMMA VenueTypes ==
    ASSUME IInv
    PROVE  /\ exposure \in Nat /\ row \in Rows /\ copy \in Rows
           /\ row.qty \in Nat /\ row.level \in Nat /\ row.target \in Nat /\ NoId \notin Ids
           /\ \A i \in Ids : stop[i] \in StopOrders /\ stop[i].qty \in Nat /\ stop[i].level \in Nat
           /\ \A i \in Slices : slice[i] \in SliceOrders /\ slice[i].done \in Nat
           /\ row.id \in Ids \cup {NoId} /\ row.pend \in Ids \cup {NoId}
           /\ row.slice \in Slices \cup {NoId}
<1>1. /\ exposure \in Nat /\ NoId \notin Ids
      /\ stop \in [Ids -> StopOrders] /\ slice \in [Slices -> SliceOrders] /\ row \in Rows /\ copy \in Rows
  BY Quantities DEF IInv, VenueOK, TaskOK, Ids, NoId
<1>2. \A i \in Ids : stop[i] \in StopOrders /\ stop[i].qty \in Nat /\ stop[i].level \in Nat
  BY <1>1, Quantities DEF StopOrders
<1>3. \A i \in Slices : slice[i] \in SliceOrders /\ slice[i].done \in Nat
  BY <1>1, Quantities DEF SliceOrders
<1> QED
  BY <1>1, <1>2, <1>3, Quantities DEF Rows

(* The row is saved; it may raise, and then the copy goes.                 *)
LEMMA BooksSaved ==
    ASSUME IInv, Books, NEW r \in Rows, NEW next, NEW as, Save(r, next, as), UNCHANGED venue,
           who # "partial", Names(r), Accounts(r), r.id # NoId, next # "prove",
           next = "idle" => as = "nobody",
           as = "partial" => next = "stop" /\ stop[r.id].qty > r.qty
    PROVE  Books'
<1>1. UNCHANGED <<stop, slice, exposure>>
  BY DEF venue
<1>2. \/ row' = r /\ copy' = r /\ place' = next /\ who' = as
      \/ row' \in {row, r} /\ copy' = NoRow /\ place' = "idle" /\ who' = "nobody"
  BY DEF Save, StoredRow, MayStore, Raise, Finish
<1>3. Owned' /\ Phases'
  BY <1>1, <1>2 DEF Books, Owned, Phases
<1>4. row' \in {row, r}
  BY <1>2
<1>5. Names(row)' /\ Accounts(row)'
  BY <1>1, <1>4 DEF Books, Names, Live, Accounts, Out, Working
<1> QED
  BY <1>1, <1>3, <1>5 DEF Books, Sized, Live, OneExit

(* Nothing but the place of the lock's holder changes, or it leaves.       *)
LEMMA BooksMoved ==
    ASSUME Books, UNCHANGED <<row, stop, slice, exposure>>,
           \/ /\ copy' = copy /\ copy = row /\ who' = who
              /\ place # "idle" /\ place' \notin {"idle", "prove"} /\ (who = "partial" => place' \in {"stop", "retire"})
           \/ copy' \in {copy, NoRow} /\ place' = "idle" /\ who' = "nobody"
    PROVE  Books'
<1>1. Owned' /\ Phases'
  BY DEF Books, Owned, Phases
<1> QED
  BY <1>1 DEF Books, Names, Sized, Live, Accounts, Out, Working, OneExit

(* The stops change, and the lock's holder moves or leaves.                *)
LEMMA BooksStops ==
    ASSUME Books, UNCHANGED <<row, slice, exposure>>, Phases', Names(row)', Sized',
           copy' \in {copy, NoRow}, copy' = NoRow => place' = "idle", copy = row \/ place' = "idle"
    PROVE  Books'
BY DEF Books, Owned, Accounts, Out, Working, OneExit

(* What reduces the position: a stop for all of it, or a partial exit.     *)
LEMMA ReducedDone ==
    ASSUME IInv, NEW by \in 0..exposure, NEW orders \in [Slices -> SliceOrders], Reduce(by, orders)
    PROVE  /\ exposure' = exposure - by /\ exposure' \in Nat
           /\ \A i \in Slices : /\ slice'[i].done = orders[i].done
                                /\ Working(i)' => orders[i].status \in {"new", "partial"}
BY DEF Reduce, Working, SliceOrders, IInv, VenueOK

LEMMA BooksFire ==
    ASSUME IInv, Books, NEW i \in Ids, VenueFires(i)
    PROVE  Books' /\ exposure' = 0
<1>1. stop[i].qty >= exposure /\ exposure \in Nat /\ stop[i].qty \in Nat
  BY VenueTypes DEF VenueFires, Books, Sized
<1>2. Lesser(stop[i].qty, exposure) = exposure
  BY <1>1 DEF Lesser
<1>3. /\ Reduce(exposure, slice) /\ exposure \in 0..exposure /\ slice \in [Slices -> SliceOrders]
      /\ UNCHANGED <<row, copy, place, who>> /\ stop' = [stop EXCEPT ![i].status = "filled"]
  BY <1>1, <1>2 DEF VenueFires, IInv, VenueOK, manager
<1>4. /\ exposure' = 0
      /\ \A j \in Slices : slice'[j].done = slice[j].done /\ (Working(j)' => Working(j))
  BY <1>1, <1>3, ReducedDone DEF Working
<1>5. \A j \in Ids : /\ stop'[j].level = stop[j].level /\ stop'[j].qty = stop[j].qty
                     /\ stop'[j].status = "live" => stop[j].status = "live"
                     /\ stop'[j].status # "unused" => stop[j].status # "unused"
  BY <1>3 DEF VenueFires, Live, IInv, VenueOK, StopOrders
<1>6. Owned' /\ Phases'
  BY <1>3, <1>4, <1>5, VenueTypes DEF Books, Owned, Phases, IInv, TaskOK
<1>7. Names(row)' /\ Sized'
  BY <1>3, <1>4, <1>5, VenueTypes DEF Books, Names, Sized, Live
<1>8. Accounts(row)' /\ OneExit'
  BY <1>3, <1>4, VenueTypes DEF Books, Accounts, OneExit
<1> QED
  BY <1>4, <1>6, <1>7, <1>8 DEF Books

(* Nothing changes but the partial exits and what is open.                 *)
LEMMA BooksReduced ==
    ASSUME IInv, Books, UNCHANGED <<row, stop, copy, place, who>>, exposure' \in 0..exposure,
           Accounts(row)', OneExit'
    PROVE  Books'
<1>1. exposure' <= exposure /\ exposure' \in Nat
  BY VenueTypes
<1>2. Owned' /\ Phases' /\ Names(row)'
  BY <1>1, VenueTypes DEF Books, Owned, Phases, Names, Live
<1>3. Sized'
  BY <1>1, VenueTypes DEF Books, Sized, Live
<1> QED
  BY <1>2, <1>3 DEF Books

LEMMA BooksVenue ==
    ASSUME IInv, Books, VenueCloses \/ \E i \in Slices : VenueFills(i) \/ VenueExpires(i)
    PROVE  Books'
<1>0. slice \in [Slices -> SliceOrders] /\ exposure \in Nat /\ exposure \in 0..exposure
  BY VenueTypes DEF IInv, VenueOK
<1>1. CASE VenueCloses
  <2>1. Reduce(exposure, slice) /\ UNCHANGED <<row, stop, copy, place, who>>
    BY <1>1 DEF VenueCloses, manager
  <2>2. /\ exposure' = 0 /\ exposure' \in 0..exposure
        /\ \A j \in Slices : slice'[j].done = slice[j].done /\ (Working(j)' => Working(j))
    BY <1>0, <2>1, ReducedDone DEF Working
  <2>3. Accounts(row)' /\ OneExit'
    BY <2>1, <2>2 DEF Books, Accounts, OneExit
  <2> QED
    BY <2>1, <2>2, <2>3, BooksReduced
<1>2. ASSUME NEW i \in Slices, VenueFills(i) PROVE Books'
  <2> DEFINE done   == slice[i].done + 1
             orders == [slice EXCEPT ![i].done = done,
                                     ![i].status = IF done = Slice THEN "filled" ELSE "partial"]
  <2>1. Reduce(1, orders) /\ UNCHANGED <<row, stop, copy, place, who>> /\ Working(i)
    BY <1>2 DEF VenueFills, Working, manager
  <2>2. exposure > 0 /\ slice[i].done \in Nat /\ slice[i].done < Slice /\ i = row.slice /\ ~row.sliced
    <3>1. exposure > 0 /\ slice[i].done < Slice
      BY <2>1 DEF IInv, SlicesFit, OrdersFit
    <3>2. i = row.slice
      BY <2>1 DEF Books, Accounts
    <3> QED
      BY <3>1, <3>2, VenueTypes DEF Books, Accounts, Slices, NoId
  <2>3. orders[i] = [status |-> IF done = Slice THEN "filled" ELSE "partial", done |-> done]
    BY <1>0 DEF SliceOrders
  <2>4. orders \in [Slices -> SliceOrders] /\ \A j \in Slices : j # i => orders[j] = slice[j]
    <3>1. orders[i] \in SliceOrders
      <4>1. done \in 0..Slice
        BY <2>2, Quantities
      <4> HIDE DEF orders, done
      <4> QED
        BY <2>3, <4>1 DEF SliceOrders
    <3> QED
      BY <1>0, <3>1
  <2>5. orders[i].done = slice[i].done + 1
    BY <2>3
  <2> HIDE DEF orders, done
  <2>6. /\ exposure' = exposure - 1 /\ exposure' \in 0..exposure
        /\ slice'[i].done = slice[i].done + 1
        /\ \A j \in Slices \ {i} : slice'[j].done = slice[j].done /\ (Working(j)' => Working(j))
    BY <1>0, <2>1, <2>2, <2>4, <2>5, ReducedDone DEF Working
  <2>7. Out(row)' = Out(row) + 1
    BY <2>1, <2>2, <2>6 DEF Out, Slices, NoId
  <2>8. Accounts(row)'
    BY <1>0, <2>1, <2>2, <2>6, <2>7, VenueTypes DEF Books, Accounts, Out
  <2>9. OneExit'
    BY <2>2, <2>6 DEF Books, Accounts, OneExit
  <2> QED
    BY <2>1, <2>6, <2>8, <2>9, BooksReduced
<1>3. ASSUME NEW i \in Slices, VenueExpires(i) PROVE Books'
  <2>1. UNCHANGED <<row, stop, copy, place, who, exposure>> /\ slice' = [slice EXCEPT ![i].status = "canceled"]
    BY <1>3 DEF VenueExpires, manager
  <2>2. \A j \in Slices : slice'[j].done = slice[j].done /\ (Working(j)' => Working(j))
    BY <1>0, <2>1 DEF Working, SliceOrders
  <2>3. Accounts(row)' /\ OneExit'
    BY <2>1, <2>2, VenueTypes DEF Books, Accounts, Out, OneExit
  <2> QED
    BY <1>0, <2>1, <2>3, BooksReduced
<1> QED
  BY <1>1, <1>2, <1>3

-----------------------------------------------------------------------------
(* The beginning of a position, of a tick, of a recovery.                  *)

LEMMA BooksEnter ==
    ASSUME IInv, Books, EnterProtected
    PROVE  Books'
<1>1. PICK i \in First(FreshIds) :
          row' = [NoRow EXCEPT !.qty = Whole, !.id = i] /\ Place(i, 0, Whole)
  BY DEF EnterProtected
<1>2. i \in Ids /\ i # NoId
  BY <1>1, FreshTyped
<1>3. /\ row = NoRow /\ exposure' = Whole /\ place = "idle" /\ UNCHANGED <<slice, place, who, copy>>
  BY DEF EnterProtected
<1>4. /\ stop'[i] = [status |-> "live", level |-> 0, qty |-> Whole]
      /\ \A j \in Ids \ {i} : stop'[j] = stop[j]
  BY <1>1, <1>2 DEF Place, IInv, VenueOK
<1>5. row' = [qty |-> Whole, level |-> 0, id |-> i, pend |-> NoId, target |-> 0,
              slice |-> NoId, sliced |-> FALSE]
  BY <1>1 DEF NoRow
<1>6. Live = {} /\ Live' = {i}
  BY <1>2, <1>3, <1>4, VenueTypes DEF Books, Names, NoRow, Live
<1>7. Owned' /\ Phases'
  BY <1>2, <1>3, <1>5 DEF Books, Owned, Phases
<1>8. Names(row)' /\ Sized'
  BY <1>3, <1>4, <1>5, <1>6, Quantities DEF Names, Sized
<1>9. Accounts(row)' /\ OneExit'
  BY <1>3, <1>5, Quantities DEF Books, NoRow, Accounts, Out, Working, OneExit
<1> QED
  BY <1>7, <1>8, <1>9 DEF Books

(* The only row known is the stored one.                                   *)
LEMMA KnownIsStored ==
    ASSUME Books, NEW p \in Known, TickOn(p)
    PROVE  p = row /\ place = "idle" /\ who = "nobody" /\ row.id # NoId
BY DEF Books, Owned, Phases, Known, TickOn

LEMMA BooksTick ==
    ASSUME IInv, Books, TickResumes \/ TickSlices \/ TickSteps, UNCHANGED <<stop, slice, exposure>>
    PROVE  Books'
<1>0. UNCHANGED venue
  BY DEF venue
<1>1. CASE TickResumes
  <2>1. PICK p \in Known : /\ TickOn(p) /\ place' = (IF p.slice # NoId THEN "ask" ELSE "find")
                           /\ who' = "tick" /\ copy' = p /\ row' = row
    BY <1>1 DEF TickResumes
  <2>2. p = row /\ row.id # NoId
    BY <2>1, KnownIsStored
  <2> QED
    BY <2>1, <2>2 DEF Books, Owned, Phases, Names, Sized, Live, Accounts, Out, Working, OneExit
<1>2. CASE TickSlices
  <2>1. PICK p \in Known, i \in First(FreshSlices) :
            /\ TickOn(p) /\ p.slice = NoId /\ p.pend = NoId /\ ~p.sliced
            /\ Save([p EXCEPT !.slice = i], "order", "tick")
    BY <1>2 DEF TickSlices
  <2>2. i \in Slices /\ i # NoId /\ slice[i].status = "unused"
    BY FreshSliceTyped
  <2>3. p = row /\ row.id # NoId /\ who = "nobody" /\ row \in Rows
    BY <2>1, KnownIsStored, VenueTypes
  <2> DEFINE r == [row EXCEPT !.slice = i]
  <2>4. /\ r \in Rows /\ r.slice = i /\ r.id = row.id /\ r.pend = row.pend /\ r.qty = row.qty
        /\ r.level = row.level /\ r.target = row.target /\ r.sliced = row.sliced
    BY <2>2, <2>3 DEF Rows
  <2>5. Save(r, "order", "tick")
    BY <2>1, <2>3
  <2> HIDE DEF r
  <2>6. Names(r)
    BY <2>4 DEF Books, Names
  <2>7. Accounts(r)
    <3>1. slice[i].done = 0
      BY <2>2 DEF IInv, SlicesFit, OrdersFit
    <3> QED
      BY <2>1, <2>2, <2>3, <2>4, <3>1, VenueTypes DEF Books, Accounts, Out, Slices, NoId
  <2> QED
    BY <1>0, <2>3, <2>4, <2>5, <2>6, <2>7, BooksSaved
<1>3. CASE TickSteps
  <2>1. PICK p \in Known : \E k \in Tighter(p), i \in First(FreshIds) :
            /\ TickOn(p) /\ p.slice = NoId /\ p.pend = NoId
            /\ Save([p EXCEPT !.pend = i, !.target = k], "stop", "tick")
    BY <1>3 DEF TickSteps
  <2>2. PICK k \in Tighter(p), i \in First(FreshIds) :
            /\ TickOn(p) /\ p.slice = NoId /\ p.pend = NoId
            /\ Save([p EXCEPT !.pend = i, !.target = k], "stop", "tick")
    BY <2>1
  <2>3. p = row /\ row.id # NoId /\ who = "nobody" /\ row \in Rows
    BY <2>2, KnownIsStored, VenueTypes
  <2>4. i \in Ids /\ i # NoId /\ stop[i].status = "unused" /\ k \in 0..Top /\ k > row.level
    BY <2>3, FreshTyped, Quantities DEF Tighter
  <2> DEFINE r == [row EXCEPT !.pend = i, !.target = k]
  <2>5. /\ r \in Rows /\ r.slice = row.slice /\ r.id = row.id /\ r.pend = i /\ r.qty = row.qty
        /\ r.level = row.level /\ r.target = k /\ r.sliced = row.sliced
    BY <2>3, <2>4 DEF Rows
  <2>6. Save(r, "stop", "tick")
    BY <2>2, <2>3
  <2> HIDE DEF r
  <2>7. Names(r) /\ Accounts(r)
    BY <2>2, <2>3, <2>4, <2>5, VenueTypes DEF Books, Names, Live, Accounts, Out
  <2> QED
    BY <1>0, <2>3, <2>5, <2>6, <2>7, BooksSaved
<1> QED
  BY <1>1, <1>2, <1>3

-----------------------------------------------------------------------------
(* The partial exit.                                                       *)

(* The lock's holder has the row in hand.                                  *)
LEMMA InHand ==
    ASSUME Books, place # "idle"
    PROVE  copy = row /\ row.id # NoId
BY DEF Books, Owned, Phases

LEMMA BooksOrder ==
    ASSUME IInv, Books, OrderSlice
    PROVE  Books'
<1>1. /\ place = "order" /\ UNCHANGED <<row, stop, exposure, copy>>
      /\ \/ place' = "ask" /\ who' = who
         \/ place' = "idle" /\ who' = "nobody"
  BY DEF OrderSlice, Finish
<1>2. copy = row /\ row.slice \in Slices /\ row.slice # NoId /\ slice[row.slice].status = "unused"
      /\ who # "partial"
  BY <1>1, InHand, VenueTypes DEF IInv, TaskOK, SlicesFit, Books, Phases
<1>3. CASE UNCHANGED slice
  BY <1>1, <1>2, <1>3, BooksMoved
<1>4. CASE slice' = [slice EXCEPT ![copy.slice].status = "new"]
  <2>1. \A i \in Slices : slice'[i].done = slice[i].done /\ (i # row.slice => (Working(i)' <=> Working(i)))
    BY <1>2, <1>4 DEF IInv, VenueOK, SliceOrders, Working
  <2>2. Accounts(row)' /\ OneExit'
    BY <1>1, <1>2, <2>1 DEF Books, Accounts, Out, OneExit
  <2> QED
    BY <1>1, <1>2, <2>2 DEF Books, Owned, Phases, Names, Sized, Live
<1> QED
  BY <1>3, <1>4 DEF OrderSlice

LEMMA BooksAsk ==
    ASSUME IInv, Books, AskLater \/ RefuseToDeduct \/ CancelRemainder
    PROVE  Books'
<1>1. CASE AskLater \/ RefuseToDeduct
  BY <1>1, BooksMoved DEF AskLater, RefuseToDeduct, Finish, venue
<1>2. CASE CancelRemainder
  <2>1. /\ place = "ask" /\ slice' = [slice EXCEPT ![copy.slice].status = "canceled"]
        /\ UNCHANGED <<row, stop, exposure, copy, place, who>>
    BY <1>2 DEF CancelRemainder, manager
  <2>2. \A i \in Slices : slice'[i].done = slice[i].done /\ (Working(i)' => Working(i))
    BY <2>1 DEF IInv, VenueOK, SliceOrders, Working
  <2>3. Accounts(row)' /\ OneExit' /\ exposure \in 0..exposure
    BY <2>1, <2>2, VenueTypes DEF Books, Accounts, Out, OneExit
  <2> QED
    BY <2>1, <2>3, BooksReduced
<1> QED
  BY <1>1, <1>2

(* Of the row's own partial exit nothing may still be executed.            *)
LEMMA BooksDeduct ==
    ASSUME IInv, Books, NothingDone \/ Deduct
    PROVE  Books'
<1>1. place = "ask" /\ UNCHANGED <<venue, stop, slice, exposure>> /\ ~Working(copy.slice)
  BY DEF NothingDone, Deduct, Executed, Working, venue
<1>2. /\ copy = row /\ row.id # NoId /\ row \in Rows /\ row.slice \in Slices /\ row.slice # NoId
      /\ row.pend = NoId /\ ~row.sliced /\ who # "partial"
  BY <1>1, InHand, VenueTypes DEF IInv, TaskOK, Books, Phases, Accounts
<1>3. \A i \in Slices : ~Working(i) /\ (i # row.slice => slice[i].done = 0)
  BY <1>1, <1>2 DEF Books, Accounts
<1>4. exposure > 0 => exposure + slice[row.slice].done = row.qty
  BY <1>2 DEF Books, Accounts, Out
<1>5. CASE NothingDone
  <2> DEFINE r == [row EXCEPT !.slice = NoId]
  <2>1. /\ r \in Rows /\ r.slice = NoId /\ r.id = row.id /\ r.pend = row.pend /\ r.qty = row.qty
        /\ r.level = row.level /\ r.target = row.target /\ r.sliced = row.sliced
    BY <1>2 DEF Rows
  <2>2. Save(r, "idle", "nobody") /\ slice[row.slice].done = 0
    BY <1>2, <1>5 DEF NothingDone, SaveAndFinish
  <2> HIDE DEF r
  <2>3. Names(r) /\ Accounts(r)
    BY <1>2, <1>3, <1>4, <2>1, <2>2, VenueTypes DEF Books, Names, Accounts, Out
  <2> QED
    BY <1>1, <1>2, <2>1, <2>2, <2>3, BooksSaved
<1>6. CASE Deduct
  <2> DEFINE left == row.qty - slice[row.slice].done
             d == [row EXCEPT !.qty = left, !.slice = NoId, !.sliced = TRUE]
  <2>1. slice[row.slice].done \in Nat /\ slice[row.slice].done > 0 /\ slice[row.slice].done <= row.qty
    BY <1>2, <1>6, VenueTypes DEF Deduct, Executed
  <2>2. left \in 0..Whole /\ left < row.qty /\ (exposure > 0 => exposure = left)
    BY <1>2, <1>4, <2>1, VenueTypes, Quantities DEF Rows
  <2>3. Deducted = d
    BY <1>2 DEF Deducted
  <2> HIDE DEF left
  <2>4. /\ d \in Rows /\ d.slice = NoId /\ d.id = row.id /\ d.pend = NoId /\ d.qty = left
        /\ d.level = row.level /\ d.target = row.target /\ d.sliced
    BY <1>2, <2>2 DEF Rows
  <2> HIDE DEF d
  <2>5. ASSUME NEW r \in Rows, r.slice = NoId, r.id = row.id, r.qty = left, r.level = row.level, r.sliced,
               r.pend # NoId => r.pend \in Ids /\ stop[r.pend].status = "unused" /\ r.target > r.level
        PROVE  Names(r) /\ Accounts(r)
    <3>1. Names(r)
      BY <1>2, <2>5, VenueTypes DEF Books, Names, Live
    <3>2. Accounts(r)
      BY <1>3, <2>2, <2>5, VenueTypes DEF Accounts, Out
    <3> QED
      BY <3>1, <3>2
  <2>6. CASE SaveAndFinish([Deducted EXCEPT !.pend = NoId, !.target = 0])
    <3> DEFINE r == [d EXCEPT !.pend = NoId, !.target = 0]
    <3>1. /\ r \in Rows /\ r.slice = NoId /\ r.id = row.id /\ r.pend = NoId /\ r.qty = left
          /\ r.level = row.level /\ r.sliced
      <4>1. r \in Rows /\ r.pend = NoId
        BY <2>4, Struck
      <4> QED
        BY <2>4, <4>1 DEF Rows
    <3>2. Save(r, "idle", "nobody")
      BY <2>3, <2>6 DEF SaveAndFinish
    <3> HIDE DEF r
    <3>3. Names(r) /\ Accounts(r)
      BY <2>5, <3>1
    <3> QED
      BY <1>1, <1>2, <3>1, <3>2, <3>3, BooksSaved
  <2>7. ASSUME copy.level < 1, NEW i \in First(FreshIds),
               Save([Deducted EXCEPT !.pend = i, !.target = 1], "stop", "partial")
        PROVE  Books'
    <3> DEFINE r == [d EXCEPT !.pend = i, !.target = 1]
    <3>0. i \in Ids /\ i # NoId /\ stop[i].status = "unused" /\ 1 \in 0..Top
      BY FreshTyped, Quantities
    <3>1. /\ r \in Rows /\ r.slice = NoId /\ r.id = row.id /\ r.pend = i /\ r.qty = left
          /\ r.level = row.level /\ r.sliced /\ r.target = 1
      BY <2>4, <3>0 DEF Rows
    <3>2. Save(r, "stop", "partial")
      BY <2>3, <2>7
    <3> HIDE DEF r
    <3>3. Names(r) /\ Accounts(r)
      BY <1>2, <2>5, <2>7, <3>0, <3>1
    <3>4. stop[r.id].qty > r.qty
      BY <1>2, <2>2, <3>1, VenueTypes DEF Books, Names
    <3> QED
      BY <1>1, <1>2, <3>1, <3>2, <3>3, <3>4, BooksSaved
  <2>8. copy.level >= 1 \/ copy.level < 1
    BY <1>2, VenueTypes
  <2> QED
    BY <1>6, <2>6, <2>7, <2>8 DEF Deduct
<1> QED
  BY <1>5, <1>6

-----------------------------------------------------------------------------
(* The replacement.                                                        *)

LEMMA BooksRaise ==
    ASSUME Books, Raise, UNCHANGED <<row, stop, slice, exposure>>
    PROVE  Books'
BY RaiseEnds, BooksMoved

(* Striking out a pending stop that the venue does not have.               *)
LEMMA BooksCleared ==
    ASSUME IInv, Books, place \in {"find", "stop"}, stop[copy.pend].status = "unused", who # "partial",
           SaveAndFinish(Cleared), UNCHANGED <<venue, sync, raced>>
    PROVE  Books'
<1>1. copy = row /\ row.id # NoId /\ row \in Rows
  BY InHand, VenueTypes
<1> DEFINE r == [row EXCEPT !.pend = NoId, !.target = 0]
<1>2. /\ r \in Rows /\ r.slice = row.slice /\ r.id = row.id /\ r.pend = NoId /\ r.qty = row.qty
      /\ r.level = row.level /\ r.sliced = row.sliced
  <2>1. r \in Rows /\ r.pend = NoId
    BY <1>1, Struck
  <2> QED
    BY <1>1, <2>1 DEF Rows
<1>3. Save(r, "idle", "nobody")
  BY <1>1 DEF SaveAndFinish, Cleared
<1> HIDE DEF r
<1>4. Names(r) /\ Accounts(r)
  BY <1>1, <1>2 DEF Books, Names, Live, Accounts, Out
<1> QED
  BY <1>1, <1>2, <1>3, <1>4, BooksSaved

LEMMA BooksFind ==
    ASSUME IInv, Books, Find \/ RecoverPending
    PROVE  Books'
<1>1. place \in {"find", "pending"} /\ UNCHANGED <<venue, stop, slice, exposure, sync, raced>>
      /\ who # "partial" /\ copy = row
  BY InHand DEF Find, RecoverPending, venue, Books, Phases
<1>2. CASE place' = "stop" /\ UNCHANGED <<row, who, copy>>
  BY <1>1, <1>2, BooksMoved
<1>3. CASE Raise /\ UNCHANGED row
  BY <1>1, <1>3, BooksRaise
<1>4. CASE place = "find" /\ stop[copy.pend].status = "unused" /\ SaveAndFinish(Cleared)
  BY <1>1, <1>4, BooksCleared
<1> QED
  BY <1>2, <1>3, <1>4 DEF Find, RecoverPending

(* The old stop and the new one are told apart.                            *)
LEMMA Pending ==
    ASSUME IInv, Books, place \in {"find", "stop", "retire", "prove", "pending"}
    PROVE  /\ copy = row /\ row.id \in Ids /\ row.pend \in Ids /\ row.pend # row.id /\ row.slice = NoId
           /\ row.target > row.level /\ stop \in [Ids -> StopOrders]
<1>1. copy = row /\ row.id # NoId /\ row.pend # NoId
  BY InHand DEF IInv, TaskOK
<1> QED
  BY <1>1, VenueTypes DEF IInv, Distinct, Another, Books, Accounts, Names, VenueOK

LEMMA BooksPlace ==
    ASSUME IInv, Books, PlaceStop \/ StopRefused
    PROVE  Books'
<1>1. /\ place = "stop" /\ UNCHANGED <<slice, exposure, sync, raced>>
      /\ copy = row /\ row.id \in Ids /\ row.pend \in Ids /\ row.pend # row.id
      /\ stop \in [Ids -> StopOrders]
  BY Pending DEF PlaceStop, StopRefused, venue
<1>2. CASE Raise /\ UNCHANGED <<row, stop>>
  BY <1>1, <1>2, BooksRaise
<1>3. CASE place' = "retire" /\ UNCHANGED <<row, who, copy, stop>>
  BY <1>1, <1>3, BooksMoved DEF Books, Phases
<1>4. CASE StopRefused /\ Proven(copy.id, copy.level) /\ SaveAndFinish(Cleared)
  <2>1. who # "partial"
    BY <1>1, <1>4, VenueTypes DEF Proven, Matches, Books, Phases
  <2> QED
    BY <1>1, <1>4, <2>1, BooksCleared DEF StopRefused
<1>5. CASE /\ stop[copy.pend].status = "unused" /\ Place(copy.pend, copy.target, copy.qty) /\ UNCHANGED row
           /\ (place' = "retire" /\ UNCHANGED <<who, copy>>) \/ Raise
  <2>1. /\ stop'[row.pend] = [status |-> "live", level |-> row.target, qty |-> row.qty]
        /\ \A i \in Ids \ {row.pend} : stop'[i] = stop[i]
    BY <1>1, <1>5 DEF Place
  <2>2. Names(row)'
    BY <1>1, <1>5, <2>1, VenueTypes DEF Books, Names, Live
  <2>3. Sized'
    <3>1. exposure > 0 => row.qty >= exposure
      BY VenueTypes DEF Books, Accounts, Out
    <3> QED
      BY <1>1, <2>1, <3>1 DEF Books, Sized, Live
  <2>4. /\ copy' \in {copy, NoRow} /\ (copy' = NoRow => copy = NoRow \/ place' = "idle")
        /\ \/ place' = "retire" /\ who' = who
           \/ place' = "idle" /\ who' = "nobody"
    BY <1>5, RaiseEnds
  <2>5. Phases'
    BY <1>1, <1>5, <2>1, <2>4 DEF Books, Phases
  <2>6. Owned' /\ Accounts(row)' /\ OneExit'
    BY <1>1, <1>5, <2>4, RaiseEnds DEF Books, Owned, Accounts, Out, Working, OneExit
  <2> QED
    BY <2>2, <2>3, <2>5, <2>6 DEF Books
<1> QED
  BY <1>2, <1>3, <1>4, <1>5 DEF PlaceStop, StopRefused, venue

(* The best stop at the venue never moves back.                            *)
Loosens == exposure > 0 /\ exposure' > 0 /\ \E l \in Tightest : \A k \in Tightest' : k < l

(* It does not while no live stop goes.                                    *)
LEMMA NoneGoes ==
    ASSUME VenueOK, \A i \in Live : i \in Live' /\ stop'[i].level = stop[i].level
    PROVE  ~Loosens
<1>1. \A i \in Live : stop[i].level \in Nat
  BY Quantities DEF Live, VenueOK, StopOrders
<1> QED
  BY <1>1 DEF Loosens, Tightest

(* The predecessor goes once its successor is live, and tighter.           *)
LEMMA BooksRetire ==
    ASSUME IInv, Books, Retire
    PROVE  Books' /\ ~Loosens
<1>1. /\ place = "retire" /\ UNCHANGED <<row, slice, exposure, sync, raced>>
      /\ copy = row /\ row.id \in Ids /\ row.pend \in Ids /\ row.pend # row.id
      /\ stop \in [Ids -> StopOrders] /\ row.target > row.level
  BY Pending DEF Retire
<1>2. /\ copy' \in {copy, NoRow} /\ (copy' # copy => place' = "idle")
      /\ \/ place' = "prove" /\ who' = who /\ stop[row.id].qty = row.qty /\ stop'[row.id].status # "live"
         \/ place' = "idle" /\ who' = "nobody"
  <2>1. CASE Raise
    BY <2>1, RaiseEnds
  <2>2. CASE /\ place' = "prove" /\ UNCHANGED <<who, copy>> /\ stop[copy.id].qty = copy.qty
             /\ stop' = [stop EXCEPT ![copy.id].status = "canceled"]
    BY <1>1, <2>2 DEF StopOrders
  <2>3. CASE /\ place' = "prove" /\ UNCHANGED <<who, copy, stop>> /\ stop[copy.id].qty = copy.qty
             /\ stop[copy.id].status \in {"canceled", "filled"}
    BY <1>1, <2>3
  <2> QED
    BY <2>1, <2>2, <2>3 DEF Retire
<1>3. CASE UNCHANGED stop
  <2>1. Phases'
    BY <1>1, <1>2, <1>3, VenueTypes DEF Books, Phases
  <2>2. Books'
    BY <1>1, <1>2, <1>3, <2>1 DEF Books, Owned, Names, Sized, Live, Accounts, Out, Working, OneExit
  <2>3. ~Loosens
    BY <1>3, NoneGoes DEF Live, IInv
  <2> QED
    BY <2>2, <2>3
<1>4. CASE /\ stop[copy.id].status = "live" /\ stop[copy.id].qty = copy.qty
           /\ stop' = [stop EXCEPT ![copy.id].status = "canceled"]
  <2>1. /\ \A i \in Ids : stop'[i].qty = stop[i].qty /\ stop'[i].level = stop[i].level
        /\ \A i \in Ids \ {row.id} : stop'[i] = stop[i]
        /\ stop'[row.id].status = "canceled"
    BY <1>1, <1>4 DEF StopOrders
  <2>2. Phases'
    BY <1>1, <1>2, <2>1, VenueTypes DEF Books, Phases
  <2>3. Names(row)' /\ Sized'
    BY <1>1, <2>1, VenueTypes DEF Books, Names, Sized, Live
  <2>4. Books'
    BY <1>1, <1>2, <2>2, <2>3 DEF Books, Owned, Accounts, Out, Working, OneExit
  <2>5. ASSUME exposure > 0 PROVE stop[row.pend].status = "live"
    <3>1. ASSUME NEW i \in Ids, Covers(i), stop[i].qty > copy.qty PROVE i = row.pend
      BY <1>1, <1>4, <3>1, VenueTypes DEF Covers, Books, Names, Live
    <3> QED
      BY <1>1, <2>5, <3>1 DEF IInv, Succeeded, Covers
  <2>6. stop[row.pend].status = "live" => stop[row.pend].level > stop[row.id].level
    BY <1>1, VenueTypes DEF Books, Names
  <2>7. \A l \in Tightest : exposure > 0 => \E k \in Tightest' : k >= l
    <3> SUFFICES ASSUME NEW i \in Live, exposure > 0 PROVE \E k \in Tightest' : k >= stop[i].level
      BY DEF Tightest
    <3>1. i \in {row.id, row.pend} /\ i \in Ids
      BY DEF Books, Names, Live
    <3>2. row.pend \in Live' /\ stop'[row.pend].level >= stop[i].level
      BY <1>1, <2>1, <2>5, <2>6, <3>1, VenueTypes DEF Live
    <3> QED
      BY <3>2 DEF Tightest
  <2>8. ~Loosens
    <3>1. \A k \in Tightest' : k \in Nat
      BY <1>1, <2>1, VenueTypes DEF Tightest, Live
    <3>2. \A l \in Tightest : l \in Nat
      BY VenueTypes DEF Tightest, Live
    <3> QED
      BY <2>7, <3>1, <3>2 DEF Loosens
  <2> QED
    BY <2>4, <2>8
<1> QED
  BY <1>1, <1>3, <1>4 DEF Retire

LEMMA BooksPromote ==
    ASSUME IInv, Books, Promote
    PROVE  Books'
<1>1. /\ place = "prove" /\ UNCHANGED <<venue, stop, slice, exposure, sync, raced>> /\ who # "partial"
      /\ copy = row /\ row.id \in Ids /\ row.pend \in Ids /\ row.pend # row.id /\ row.slice = NoId
      /\ row \in Rows /\ stop[row.id].status # "live"
  BY Pending, VenueTypes DEF Promote, venue, Books, Phases
<1>2. CASE Raise /\ UNCHANGED row
  BY <1>1, <1>2, BooksRaise
<1>3. CASE Proven(copy.pend, copy.target) /\ (Save(Promoted, "legs", who) \/ SaveAndFinish(Promoted))
  <2> DEFINE p == [row EXCEPT !.level = row.target, !.id = row.pend]
             r == [p EXCEPT !.pend = NoId, !.target = 0]
  <2>1. /\ p \in Rows /\ p.slice = NoId /\ p.id = row.pend /\ p.qty = row.qty
        /\ p.level = row.target /\ p.sliced = row.sliced
    BY <1>1 DEF Rows
  <2>2. Promoted = r
    BY <1>1 DEF Promoted
  <2> HIDE DEF p
  <2>3. /\ r \in Rows /\ r.slice = NoId /\ r.id = row.pend /\ r.qty = row.qty /\ r.pend = NoId
        /\ r.level = row.target /\ r.sliced = row.sliced
    <3>1. r \in Rows /\ r.pend = NoId
      BY <2>1, Struck
    <3> QED
      BY <2>1, <3>1 DEF Rows
  <2>4. Save(r, "legs", who) \/ Save(r, "idle", "nobody")
    BY <1>3, <2>2 DEF SaveAndFinish
  <2> HIDE DEF r
  <2>5. stop[row.pend].qty = row.qty /\ stop[row.pend].level = row.target
    BY <1>1, <1>3 DEF Proven, Matches
  <2>6. Names(r) /\ Accounts(r)
    BY <1>1, <2>3, <2>5 DEF Books, Names, Live, Accounts, Out
  <2> QED
    BY <1>1, <2>3, <2>4, <2>6, VenueTypes, BooksSaved
<1> QED
  BY <1>2, <1>3 DEF Promote

-----------------------------------------------------------------------------
(* Recovery, the end of a position, a sync.                                *)

LEMMA BooksLegs ==
    ASSUME IInv, Books, RecoverLegs
    PROVE  Books' /\ ~Loosens
<1>1. /\ place = "legs" /\ copy = row /\ row.id # NoId /\ row \in Rows
      /\ row.pend = NoId \/ stop[row.pend].status = "unused"
      /\ UNCHANGED <<slice, exposure, sync, raced>>
  BY InHand, VenueTypes DEF RecoverLegs, IInv, Distinct
<1>2. Live \subseteq {row.id}
  BY <1>1, VenueTypes DEF Books, Names, Live
<1>3. UNCHANGED stop => ~Loosens
  BY NoneGoes DEF Live, IInv
<1>4. CASE row' = copy /\ Resumed /\ UNCHANGED stop
  BY <1>1, <1>3, <1>4, BooksMoved DEF Resumed, Finish
<1>5. CASE Raise /\ UNCHANGED <<row, stop>>
  BY <1>1, <1>3, <1>5, BooksRaise
<1>6. ASSUME stop[copy.id].status = "canceled", Cardinality(Successors) = 1 PROVE FALSE
  <2>1. Successors = {}
    BY <1>1, <1>2, <1>6 DEF Successors, Live
  <2> QED
    BY <1>6, <2>1, FS_EmptySet
<1>7. ASSUME stop[copy.id].status = "canceled", NEW i \in First(FreshIds),
             row' = [copy EXCEPT !.id = i, !.level = 0, !.pend = NoId, !.target = 0],
             Place(i, 0, copy.qty), Resumed
      PROVE  Books' /\ ~Loosens
  <2>1. Live = {}
    BY <1>1, <1>2, <1>7 DEF Live
  <2>2. i \in Ids /\ i # NoId
    BY FreshTyped
  <2>3. /\ stop'[i] = [status |-> "live", level |-> 0, qty |-> row.qty]
        /\ \A j \in Ids \ {i} : stop'[j] = stop[j]
    BY <1>1, <1>7, <2>2 DEF Place, IInv, VenueOK
  <2> DEFINE d == [row EXCEPT !.id = i, !.level = 0]
  <2>4. d \in Rows /\ d.id = i /\ d.level = 0 /\ d.slice = row.slice /\ d.qty = row.qty /\ d.sliced = row.sliced
    <3>1. 0 \in 0..Top
      BY Quantities
    <3>2. d \in Rows
      BY <1>1, <2>2, <3>1 DEF Rows
    <3> QED
      BY <1>1, <3>2 DEF Rows
  <2>5. row' = [d EXCEPT !.pend = NoId, !.target = 0]
    BY <1>1, <1>7
  <2> HIDE DEF d
  <2>6. row' \in Rows /\ row'.pend = NoId
    BY <2>4, <2>5, Struck
  <2>7. /\ row'.id = i /\ row'.level = 0 /\ row'.slice = row.slice /\ row'.qty = row.qty
        /\ row'.sliced = row.sliced
    BY <2>4, <2>5 DEF Rows
  <2>8. Live' = {i}
    BY <2>1, <2>2, <2>3 DEF Live
  <2>9. Names(row)'
    BY <2>2, <2>3, <2>6, <2>7, <2>8 DEF Names
  <2>10. Sized'
    <3>1. exposure > 0 => row.qty >= exposure
      BY VenueTypes DEF Books, Accounts, Out
    <3> QED
      BY <1>1, <2>3, <2>8, <3>1 DEF Sized
  <2>11. Accounts(row)' /\ OneExit'
    BY <1>1, <2>6, <2>7 DEF Books, Accounts, Out, Working, OneExit
  <2>12. Owned' /\ Phases'
    BY <1>7, <2>2, <2>7 DEF Resumed, Finish, Owned, Phases
  <2>13. ~Loosens
    BY <2>1 DEF Loosens, Tightest
  <2> QED
    BY <2>9, <2>10, <2>11, <2>12, <2>13 DEF Books
<1> QED
  BY <1>4, <1>5, <1>6, <1>7 DEF RecoverLegs

(* Recovery finds the venue's quantity in the row already, unless a partial*)
(* exit is unresolved.                                                     *)
LEMMA BooksRecover ==
    ASSUME IInv, Books, Recover, ~raced'
    PROVE  Books'
<1>1. /\ row.slice = NoId /\ exposure > 0 /\ row.id # NoId /\ row \in Rows
      /\ UNCHANGED <<stop, slice, exposure>>
      /\ row' = [row EXCEPT !.qty = exposure] /\ copy' = row' /\ place' \in {"legs", "pending"} /\ who' = "recovery"
  BY VenueTypes DEF Recover, venue, IInv, TaskOK
<1>2. row.qty = exposure
  BY <1>1, VenueTypes DEF Books, Accounts, Out
<1>3. row' = row
  BY <1>1, <1>2 DEF Rows
<1> QED
  BY <1>1, <1>3 DEF Books, Owned, Phases, Names, Sized, Live, Accounts, Out, Working, OneExit

LEMMA BooksNaturalExit ==
    ASSUME IInv, Books, NaturalExit
    PROVE  Books'
<1>1. /\ place = "idle" /\ exposure' = 0 /\ row' = NoRow /\ copy' = NoRow /\ UNCHANGED <<place, who>>
      /\ slice' = [i \in Slices |-> NoSlice]
      /\ stop' = [i \in Ids |-> NoStop]
  BY DEF NaturalExit, Orphans
<1>2. Live' = {}
  BY <1>1 DEF Live, NoStop
<1> QED
  BY <1>1, <1>2 DEF Books, Owned, Phases, Names, Sized, Accounts, Out, Working, OneExit, NoRow, NoSlice

(* A sync that leaves raced as it was has not changed the row; the process *)
(* takes nothing durable with it.                                          *)
LEMMA BooksSync ==
    ASSUME IInv, Books, SyncReads \/ SyncSaves \/ Stop \/ UNCHANGED stopVars, ~raced'
    PROVE  Books'
<1>1. UNCHANGED <<row, stop, slice, exposure>>
  BY DEF SyncReads, SyncSaves, Stop, stopVars, venue, IInv, TaskOK
<1>2. CASE UNCHANGED <<copy, place, who>>
  BY <1>1, <1>2 DEF Books, Owned, Phases, Names, Sized, Live, Accounts, Out, Working, OneExit
<1>3. CASE Stop
  BY <1>1, <1>3, BooksMoved DEF Stop, Finish
<1> QED
  BY <1>2, <1>3 DEF SyncReads, SyncSaves, stopVars, manager

-----------------------------------------------------------------------------
LEMMA BooksInit == StopInit => Books
<1> SUFFICES ASSUME StopInit PROVE Books
  OBVIOUS
<1>1. Live = {}
  BY DEF StopInit, Live, NoStop
<1> QED
  BY <1>1, Quantities DEF StopInit, Books, Owned, Phases, Names, Sized, Accounts, Out, Working, OneExit, NoRow, NoSlice

LEMMA BooksStep ==
    ASSUME IInv, Books, [StopNext]_stopVars, ~raced'
    PROVE  Books' /\ ~Loosens
<1>1. CASE Retire \/ RecoverLegs
  BY <1>1, BooksRetire, BooksLegs
<1>2. ASSUME NEW i \in Ids, VenueFires(i) PROVE Books' /\ ~Loosens
  BY <1>2, BooksFire DEF Loosens
<1>3. CASE VenueCloses \/ \E i \in Slices : VenueFills(i) \/ VenueExpires(i)
  <2>1. UNCHANGED stop
    BY <1>3 DEF VenueCloses, VenueFills, VenueExpires
  <2> QED
    BY <1>3, <2>1, BooksVenue, NoneGoes DEF Live, IInv
<1>4. CASE EnterProtected \/ NaturalExit
  <2>1. exposure = 0
    BY <1>4 DEF EnterProtected, NaturalExit
  <2> QED
    BY <1>4, <2>1, BooksEnter, BooksNaturalExit DEF Loosens
<1>5. CASE PlaceStop \/ StopRefused
  <2>1. ~Loosens
    <3>1. UNCHANGED stop \/ (stop[copy.pend].status = "unused" /\ Place(copy.pend, copy.target, copy.qty))
      BY <1>5 DEF PlaceStop, StopRefused, venue
    <3>2. \A i \in Live : i \in Live' /\ stop'[i].level = stop[i].level
      BY <3>1 DEF Place, Live, IInv, VenueOK
    <3> QED
      BY <3>2, NoneGoes DEF IInv
  <2> QED
    BY <1>5, <2>1, BooksPlace
<1>6. CASE \/ TickResumes \/ TickSlices \/ TickSteps \/ OrderSlice \/ AskLater \/ RefuseToDeduct
           \/ CancelRemainder \/ NothingDone \/ Deduct \/ Find \/ RecoverPending \/ Promote
           \/ Recover \/ SyncReads \/ SyncSaves \/ Stop \/ UNCHANGED stopVars
  <2>1. UNCHANGED stop
    BY <1>6 DEF TickResumes, TickSlices, TickSteps, OrderSlice, AskLater, RefuseToDeduct, CancelRemainder,
       NothingDone, Deduct, Find, RecoverPending, Promote, Recover, SyncReads, SyncSaves, Stop, stopVars, venue
  <2>2. ~Loosens
    BY <2>1, NoneGoes DEF Live, IInv
  <2>3. TickResumes \/ TickSlices \/ TickSteps => UNCHANGED <<stop, slice, exposure>>
    BY DEF TickResumes, TickSlices, TickSteps, venue
  <2> QED
    BY <1>6, <2>2, <2>3, BooksTick, BooksOrder, BooksAsk, BooksDeduct, BooksFind, BooksPromote,
       BooksRecover, BooksSync
<1> QED
  BY <1>1, <1>2, <1>3, <1>4, <1>5, <1>6 DEF StopNext, VenueSteps, Work

LEMMA BooksInvariant == StopSpec => [](~raced => Books)
<1>1. IInv /\ (~raced => Books) /\ [StopNext]_stopVars => (~raced => Books)'
  BY BooksStep, RacedStays
<1> QED
  BY <1>1, BooksInit, Inductive, PTL DEF StopSpec

-----------------------------------------------------------------------------
(* The row names every live stop, through every replacement, partial exit, *)
(* failing save, crash and recovery, and no stop is left to close the      *)
(* symbol's next position: until a sync without the lock overwrites what   *)
(* it did not know of.                                                     *)
THEOREM LiveStopsNamed == StopSpec => []LiveStopsAreNamed
<1>1. (~raced => Books) => LiveStopsAreNamed
  BY DEF Books, Names, LiveStopsAreNamed
<1> QED
  BY <1>1, BooksInvariant, PTL

(* Until then its quantity is the venue's whenever no partial exit is      *)
(* unresolved, and one partial exit at most is executed for a position.    *)
THEOREM PartialExits == StopSpec => []PartialExitAccounted
<1>1. IInv /\ (~raced => Books) => PartialExitAccounted
  <2> SUFFICES ASSUME IInv, Books PROVE PartialExitAccounted
    BY DEF PartialExitAccounted
  <2>1. Managed /\ row.slice = NoId => row.qty = exposure
    BY VenueTypes DEF Managed, Books, Accounts, Out
  <2> QED
    BY <2>1 DEF Books, OneExit, PartialExitAccounted
<1> QED
  BY <1>1, Inductive, BooksInvariant, PTL

(* Until then the best stop at the venue never moves back while the        *)
(* position is open.                                                       *)
THEOREM Tightens == StopSpec => NeverLoosens
<1> DEFINE Kept == exposure > 0 /\ exposure' > 0 /\ ~raced' =>
                      \A l \in Tightest : \E k \in Tightest' : k >= l
<1>1. IInv /\ IInv' /\ (~raced => Books) /\ [StopNext]_stopVars => Kept
  <2> SUFFICES ASSUME IInv, IInv', Books, [StopNext]_stopVars, exposure > 0, exposure' > 0, ~raced'
               PROVE  \A l \in Tightest : \E k \in Tightest' : k >= l
    BY RacedStays
  <2>1. ~Loosens
    BY BooksStep
  <2>2. (\A l \in Tightest : l \in Nat) /\ \A k \in Tightest' : k \in Nat
    BY Quantities DEF Tightest, Live, IInv, VenueOK, StopOrders
  <2> QED
    BY <2>1, <2>2 DEF Loosens
<1>2. IInv /\ IInv' /\ (~raced => Books) /\ [StopNext]_stopVars => [Kept]_stopVars
  BY <1>1
<1> QED
  BY <1>2, Inductive, BooksInvariant, PTL DEF StopSpec, NeverLoosens
=============================================================================
