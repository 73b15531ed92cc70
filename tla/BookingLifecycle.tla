-------------------------- MODULE BookingLifecycle --------------------------
(***************************************************************************)
(* What the booking service promises about the life of one booking,        *)
(* whatever its handlers, its database and the payment service do to each  *)
(* other: a booking id is issued once, a deleted booking never returns,    *)
(* and a guest is checked in only if the booking was paid at some time and *)
(* checked out only if the guest was checked in at some time.              *)
(*                                                                         *)
(* The specification is deliberately weak where the code is weak: the code *)
(* reads a status and writes the next one in two database calls, so the    *)
(* status found by the read may be gone when the write arrives.  That a    *)
(* status WAS attained is what survives of each guard.                     *)
(***************************************************************************)

CONSTANT Bookings       \* booking ids

VARIABLES status,       \* the status of every id: "NONE" before, "DELETED" after
          attained      \* the statuses each booking has had

vars == <<status, attained>>

(* entity.Status: the values of the status column.                         *)
Status == {"UNPAID", "PAID", "CANCELLED", "CHECKED_IN", "CHECKED_OUT", "REFUNDED"}

Live(b) == status[b] \in Status

Init ==
  /\ status   = [b \in Bookings |-> "NONE"]
  /\ attained = [b \in Bookings |-> {}]

Create(b) ==
  /\ status[b] = "NONE"
  /\ status'   = [status EXCEPT ![b] = "UNPAID"]
  /\ attained' = [attained EXCEPT ![b] = {"UNPAID"}]

(* The payment outcome may be written at any time, in any order.           *)
Earned(b, s) ==
  \/ s \in {"PAID", "REFUNDED", "CANCELLED"}
  \/ s = "CHECKED_IN"  /\ "PAID" \in attained[b]
  \/ s = "CHECKED_OUT" /\ "CHECKED_IN" \in attained[b]

Move(b, s) ==
  /\ Live(b)
  /\ Earned(b, s)
  /\ status'   = [status EXCEPT ![b] = s]
  /\ attained' = [attained EXCEPT ![b] = @ \cup {s}]

Delete(b) ==
  /\ Live(b)
  /\ status' = [status EXCEPT ![b] = "DELETED"]
  /\ UNCHANGED attained

Next == \E b \in Bookings : Create(b) \/ Delete(b) \/ \E s \in Status : Move(b, s)

Spec == Init /\ [][Next]_vars
=============================================================================
