--------------------------- MODULE PaymentLedger ---------------------------
(***************************************************************************)
(* What the payment service promises of its two tables, whatever its       *)
(* requests, its database and the provider do to each other: as if each    *)
(* call that writes had been the whole request.  A payment is made once,   *)
(* of the whole total of a booking that is there, or of one deleted since; *)
(* its amount never changes; refund rows are only added, for payments that *)
(* exist or for an id that is nobody's; and a payment is marked refunded   *)
(* only with such a row.                                                   *)
(*                                                                         *)
(* It is weak where the code is weak: any outcome may follow any other,    *)
(* also a settlement a refund, since the webhook writes what it is told.   *)
(***************************************************************************)
EXTENDS Integers

CONSTANTS Bookings,     \* booking ids, and the keys of the payments
          Unknown,      \* a payment id that is in no row
          Totals,       \* booking totals
          Amounts,      \* the amounts clients send
          NoRow         \* marks an order id without a payment

VARIABLES totals,       \* what the booking service holds of each booking
          payments,     \* the payment of each booking
          refunds       \* how many refund rows each payment id has

vars == <<totals, payments, refunds>>

Init ==
  /\ totals   = [b \in Bookings |-> [phase |-> "none", total |-> 0]]
  /\ payments = [b \in Bookings |-> NoRow]
  /\ refunds  = [p \in Bookings \cup {Unknown} |-> 0]

Paid(b) == payments[b] # NoRow

Owed(b, amount) ==
  /\ amount > 0
  /\ totals[b].phase # "none"
  /\ totals[b].phase = "live" => amount = totals[b].total

Pay(b, amount) ==
  /\ ~Paid(b)
  /\ Owed(b, amount)
  /\ payments' = [payments EXCEPT ![b] = [amount |-> amount, status |-> "PENDING"]]
  /\ UNCHANGED <<totals, refunds>>

(* The outcome the provider reports, or that of a refund.                  *)
Earned(b, s) == s \in {"SETTLEMENT", "EXPIRE"} \/ (s = "REFUNDED" /\ refunds[b] > 0)

Move(b, s) ==
  /\ Paid(b)
  /\ Earned(b, s)
  /\ payments' = [payments EXCEPT ![b].status = s]
  /\ UNCHANGED <<totals, refunds>>

AddRefund(p) ==
  /\ p \in Bookings => Paid(p)
  /\ refunds' = [refunds EXCEPT ![p] = @ + 1]
  /\ UNCHANGED <<totals, payments>>

(* A booking is made once, with the total it keeps, and deleted for good.  *)
Book(b, total) ==
  /\ totals[b].phase = "none"
  /\ totals' = [totals EXCEPT ![b] = [phase |-> "live", total |-> total]]
  /\ UNCHANGED <<payments, refunds>>

Unbook(b) ==
  /\ totals[b].phase = "live"
  /\ totals' = [totals EXCEPT ![b] = [phase |-> "deleted", total |-> 0]]
  /\ UNCHANGED <<payments, refunds>>

Next ==
  \/ \E b \in Bookings :
       \/ \E amount \in Amounts : Pay(b, amount)
       \/ \E s \in {"SETTLEMENT", "EXPIRE", "REFUNDED"} : Move(b, s)
       \/ \E total \in Totals : Book(b, total)
       \/ Unbook(b)
  \/ \E p \in Bookings \cup {Unknown} : AddRefund(p)

Spec == Init /\ [][Next]_vars
=============================================================================
