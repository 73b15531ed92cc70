---------------------------- MODULE BookingStore ----------------------------
(***************************************************************************)
(* What the booking repository promises the services above it: a booking   *)
(* appears with all its items at once, its status changes, and it goes     *)
(* with all its items at once and for good.  BookingService takes this for *)
(* granted; BookingRepository shows how transactions provide it.           *)
(***************************************************************************)
CONSTANTS Bookings,     \* booking ids
          Statuses,     \* the values of the status column
          Unpaid,       \* the one that a new booking has
          Lines,        \* the items that bookings can have
          NoRow         \* the status of an id without a booking

VARIABLE store          \* the booking under each id

vars == <<store>>

None    == [phase |-> "none", status |-> NoRow, lines |-> {}]
Deleted == [None EXCEPT !.phase = "deleted"]

Init == store = [b \in Bookings |-> None]

Create(b, ls) ==
  /\ store[b] = None /\ ls # {}
  /\ store' = [store EXCEPT ![b] = [phase |-> "live", status |-> Unpaid, lines |-> ls]]

Update(b, s) ==
  /\ store[b].phase = "live"
  /\ store' = [store EXCEPT ![b].status = s]

Delete(b) ==
  /\ store[b].phase = "live"
  /\ store' = [store EXCEPT ![b] = Deleted]

Next ==
  \E b \in Bookings :
    \/ \E ls \in SUBSET Lines : Create(b, ls)
    \/ \E s \in Statuses : Update(b, s)
    \/ Delete(b)

Spec == Init /\ [][Next]_vars
=============================================================================
