--------------------------- MODULE PaymentService ---------------------------
(***************************************************************************)
(* The payment service: services/payment/internal.                         *)
(*                                                                         *)
(* Three handlers change state: POST /bookings/:id/pay, the provider's     *)
(* webhook and POST /payments/:id/refund.  Each is a goroutine that makes  *)
(* its database calls and, for the webhook, its HTTP post to the booking   *)
(* service one after the other, without a transaction around them; each    *)
(* call is one step here.                                                  *)
(*                                                                         *)
(* The post to the booking service is written down from this side only:    *)
(* it is applied and answered, applied and not answered, lost, or still    *)
(* under way when the client's timer fires.  The module HotelBooking joins *)
(* it with what the booking service does.                                  *)
(*                                                                         *)
(* Order ids are "BO-<booking id>" and unique, so a booking has at most    *)
(* one payment and the payment stands under the booking's id here.         *)
(***************************************************************************)
EXTENDS FiniteSets, Integers

CONSTANTS Bookings,     \* booking ids, and the keys of the payments
          Unknown,      \* a payment id that is in no row
          Totals,       \* booking totals
          Amounts,      \* the amounts clients send
          Statuses,     \* the transaction_status of the provider's webhooks
          Workers,      \* request slots: how many requests run at a time
          NoRow,        \* marks an order id with no row in payment.payments
          Idle,         \* marks a request slot that serves nobody
          MaxRefunds    \* bound: refund rows per payment id

(* entity.PaymentStatus: the values the code writes (DENY it never does).  *)
PaymentStatus == {"PENDING", "SETTLEMENT", "EXPIRE", "REFUNDED"}

Row == [amount : Amounts, status : PaymentStatus]

PaymentIds == Bookings \cup {Unknown}

(* at: the call the request makes next, or "ok" once answered so.  A       *)
(* request answered an error leaves nothing behind: its slot is Idle.      *)
(* "late" is a webhook that was answered an error by timeout while its     *)
(* post to the booking service is still on its way.                        *)
Job == [op : {"pay", "webhook", "refund"}, id : PaymentIds, amount : Amounts \cup {0},
        tx : Statuses \cup {"none"},
        at : {"total", "insert", "find", "record", "post", "persist", "mark",
              "late", "ok"}]

ASSUME AmountAssumption == Totals \subseteq Int /\ Amounts \subseteq Int
ASSUME SentinelAssumption ==
  /\ NoRow \notin Row
  /\ Idle \notin Job
  /\ Unknown \notin Bookings
  /\ MaxRefunds \in Nat

VARIABLES totals,       \* what booking.bookings holds: see BookingTable
          payments,     \* the table payment.payments
          refunds,      \* the table payment.refunds: rows per payment id
          jobs          \* what each request slot is doing

vars == <<totals, payments, refunds, jobs>>

(* The payment service reads the table of the booking service: no row yet, *)
(* the total of the row, or a row that was deleted.                        *)
BookingTable == [Bookings -> [phase : {"none", "live", "deleted"}, total : Totals \cup {0}]]

TypeOK ==
  /\ totals   \in BookingTable
  /\ payments \in [Bookings -> Row \cup {NoRow}]
  /\ refunds  \in [PaymentIds -> 0..MaxRefunds]
  /\ jobs     \in [Workers -> Job \cup {Idle}]

Init ==
  /\ totals   = [b \in Bookings |-> [phase |-> "none", total |-> 0]]
  /\ payments = [b \in Bookings |-> NoRow]
  /\ refunds  = [p \in PaymentIds |-> 0]
  /\ jobs     = [w \in Workers |-> Idle]

Known(p) == p \in Bookings /\ payments[p] # NoRow

Running(w) == jobs[w] # Idle /\ jobs[w].at \notin {"late", "ok"}
Busy(w)    == jobs[w] # Idle /\ jobs[w].at # "ok"
At(w, at)  == jobs[w] # Idle /\ jobs[w].at = at

Step(w, at) ==
  jobs' = [jobs EXCEPT ![w] = IF at = "failed" THEN Idle ELSE [@ EXCEPT !.at = at]]

Begin(w, op, id, amount, tx, at) ==
  /\ ~Busy(w)
  /\ jobs' = [jobs EXCEPT ![w] =
                [op |-> op, id |-> id, amount |-> amount, tx |-> tx, at |-> at]]
  /\ UNCHANGED <<totals, payments, refunds>>

-----------------------------------------------------------------------------
(* POST /bookings/:id/pay.                                                 *)

(* The JSON binding refuses an amount that is not positive.                *)
StartPay(w, b, amount) == amount > 0 /\ Begin(w, "pay", b, amount, "none", "total")

(* repo.GetBookingTotal: the scan of an empty result leaves 0, no error.   *)
GetBookingTotal(b) == IF totals[b].phase = "live" THEN totals[b].total ELSE 0

MatchesAny(amount, b)   == TRUE
MatchesTotal(amount, b) == amount = GetBookingTotal(b)

CheckTotal(w) ==
  /\ At(w, "total")
  /\ Step(w, IF MatchesTotal(jobs[w].amount, jobs[w].id) THEN "insert" ELSE "failed")
  /\ UNCHANGED <<totals, payments, refunds>>

InsertOrReplace(w, answer) ==
  /\ At(w, "insert")
  /\ payments' = [payments EXCEPT ![jobs[w].id] =
                    [amount |-> jobs[w].amount, status |-> "PENDING"]]
  /\ Step(w, answer)
  /\ UNCHANGED <<totals, refunds>>

(* repo.Create: the unique index on the order id refuses a second payment. *)
InsertPayment(w, answer) ==
  /\ At(w, "insert")
  /\ IF payments[jobs[w].id] = NoRow
     THEN /\ payments' = [payments EXCEPT ![jobs[w].id] =
                            [amount |-> jobs[w].amount, status |-> "PENDING"]]
          /\ Step(w, answer)
     ELSE Step(w, "failed") /\ UNCHANGED payments
  /\ UNCHANGED <<totals, refunds>>

-----------------------------------------------------------------------------
(* The provider's webhook.                                                 *)

Settled(tx) == tx = "settlement"
Expired(tx) == tx \in {"expire", "cancel", "deny"}

(* What the webhook records on the payment, and what it posts.             *)
RecordedVerbatim(tx) == tx
RecordedStatus(tx) == IF Settled(tx) THEN "SETTLEMENT" ELSE "EXPIRE"
PostedPaid(tx)     == "PAID"
PostedRecorded(tx) == RecordedStatus(tx)
PostedStatus(tx)   == IF Settled(tx) THEN "PAID" ELSE "CANCELLED"

StartWebhook(w, b, tx) == Begin(w, "webhook", b, 0, tx, "find")

FindUnlessRecorded(w) ==
  /\ At(w, "find")
  /\ LET j == jobs[w]
     IN  Step(w, IF payments[j.id] = NoRow THEN "failed"
                 ELSE IF payments[j.id].status = RecordedStatus(j.tx) THEN "ok"
                 ELSE IF Settled(j.tx) \/ Expired(j.tx) THEN "record" ELSE "ok")
  /\ UNCHANGED <<totals, payments, refunds>>

(* repo.FindByOrderID and the switch on the transaction status.            *)
FindPayment(w) ==
  /\ At(w, "find")
  /\ LET j == jobs[w]
     IN  Step(w, IF payments[j.id] = NoRow THEN "failed"
                 ELSE IF Settled(j.tx) \/ Expired(j.tx) THEN "record" ELSE "ok")
  /\ UNCHANGED <<totals, payments, refunds>>

(* repo.UpdateStatus, whatever the payment's status is.  A lost            *)
(* acknowledgement is an error although the row was updated.               *)
RecordOutcome(w, next) ==
  /\ At(w, "record")
  /\ payments' = [payments EXCEPT ![jobs[w].id].status = RecordedStatus(jobs[w].tx)]
  /\ Step(w, next)
  /\ UNCHANGED <<totals, refunds>>

(* The booking service applied the post; the answer may not come back.     *)
PostDelivered(w, answer) ==
  /\ At(w, "post")
  /\ Step(w, answer)
  /\ UNCHANGED <<payments, refunds>>

(* The post failed without effect: no connection, or a database error      *)
(* there.                                                                  *)
PostLost(w) ==
  /\ At(w, "post")
  /\ Step(w, "failed")
  /\ UNCHANGED <<totals, payments, refunds>>

NoTimeout(w) == FALSE /\ UNCHANGED vars

(* The client's timer (5 s): the provider is answered an error while the   *)
(* booking service may still be at work on the post.                       *)
PostTimeout(w) ==
  /\ At(w, "post")
  /\ Step(w, "late")
  /\ UNCHANGED <<totals, payments, refunds>>

(* A post on its way when its sender gave up is applied late or never.     *)
LateDelivered(w) ==
  /\ At(w, "late")
  /\ Step(w, "failed")
  /\ UNCHANGED <<payments, refunds>>

LateLost(w) ==
  /\ At(w, "late")
  /\ Step(w, "failed")
  /\ UNCHANGED <<totals, payments, refunds>>

-----------------------------------------------------------------------------
(* POST /payments/:id/refund.                                              *)

(* A client can only name the id of a payment it was shown, or one that is *)
(* no payment's.                                                           *)
StartRefund(w, p) ==
  /\ Known(p) \/ p = Unknown
  /\ Begin(w, "refund", p, 0, "none", "persist")

SkipPersist(w, next) ==
  /\ At(w, "persist")
  /\ Step(w, next)
  /\ UNCHANGED <<totals, payments, refunds>>

(* refRepo.Create: the refund row is written first, whether or not there   *)
(* is such a payment, and however often it was refunded before.            *)
PersistRefund(w, next) ==
  /\ At(w, "persist")
  /\ refunds[jobs[w].id] < MaxRefunds
  /\ refunds' = [refunds EXCEPT ![jobs[w].id] = @ + 1]
  /\ Step(w, next)
  /\ UNCHANGED <<totals, payments>>

MarkUnchecked(w, answer) ==
  /\ At(w, "mark")
  /\ payments' = IF Known(jobs[w].id)
                 THEN [payments EXCEPT ![jobs[w].id].status = "REFUNDED"] ELSE payments
  /\ Step(w, answer)
  /\ UNCHANGED <<totals, refunds>>

(* repo.UpdateStatus, which reports a payment id that is in no row.        *)
MarkRefunded(w, answer) ==
  /\ At(w, "mark")
  /\ IF Known(jobs[w].id)
     THEN /\ payments' = [payments EXCEPT ![jobs[w].id].status = "REFUNDED"]
          /\ Step(w, answer)
     ELSE Step(w, "failed") /\ UNCHANGED payments
  /\ UNCHANGED <<totals, refunds>>

-----------------------------------------------------------------------------
Answer == {"ok", "failed"}

(* A database call that fails without effect.                              *)
Fail(w) ==
  /\ Running(w) /\ ~At(w, "post")
  /\ Step(w, "failed")
  /\ UNCHANGED <<totals, payments, refunds>>

(* The process stops.  Requests are lost, except the posts already sent.   *)
Crash ==
  /\ \E w \in Workers : Running(w)
  /\ jobs' = [w \in Workers |->
                IF At(w, "post") \/ At(w, "late") THEN [jobs[w] EXCEPT !.at = "late"] ELSE Idle]
  /\ UNCHANGED <<totals, payments, refunds>>

(* A step of the goroutine itself.                                         *)
HandlerStep(w) ==
  \/ CheckTotal(w)
  \/ FindPayment(w)
  \/ \E answer \in Answer : InsertPayment(w, answer) \/ MarkRefunded(w, answer)
  \/ \E next \in {"post", "failed"} : RecordOutcome(w, next)
  \/ \E next \in {"mark", "failed"} : PersistRefund(w, next)
  \/ Fail(w)

(* Everything that touches this service and its tables only.               *)
OwnStep ==
  \/ \E w \in Workers :
       \/ \E b \in Bookings, amount \in Amounts : StartPay(w, b, amount)
       \/ \E p \in PaymentIds : StartRefund(w, p)
       \/ HandlerStep(w)
       \/ PostLost(w) \/ PostTimeout(w) \/ LateLost(w)
  \/ Crash

(* Bookings come and go in the table of the booking service.               *)
BookingInserted(b, t) ==
  /\ totals[b].phase = "none"
  /\ totals' = [totals EXCEPT ![b] = [phase |-> "live", total |-> t]]
  /\ UNCHANGED <<payments, refunds, jobs>>

BookingDeleted(b) ==
  /\ totals[b].phase = "live"
  /\ totals' = [totals EXCEPT ![b] = [phase |-> "deleted", total |-> 0]]
  /\ UNCHANGED <<payments, refunds, jobs>>

Next ==
  \/ OwnStep
  \/ \E w \in Workers :
       \/ \E b \in Bookings, tx \in Statuses : StartWebhook(w, b, tx)
       \/ \E answer \in Answer : PostDelivered(w, answer) /\ UNCHANGED totals
       \/ LateDelivered(w) /\ UNCHANGED totals
  \/ \E b \in Bookings : BookingDeleted(b) \/ \E t \in Totals : BookingInserted(b, t)

Spec == Init /\ [][Next]_vars

(* A goroutine that can go on does, the database answers each call, and    *)
(* the timer of a post fires.  Nothing makes the booking service answer.   *)
Fairness == \A w \in Workers : WF_vars(HandlerStep(w)) /\ WF_vars(PostTimeout(w))

FairSpec == Spec /\ Fairness

-----------------------------------------------------------------------------
(* A payment is for the total of its booking, as long as there is one:     *)
(* the total is checked in one call and the row inserted in another, and   *)
(* no later request replaces the row.                                      *)
PaidInFull ==
  \A b \in Bookings :
    payments[b] # NoRow =>
      /\ payments[b].amount > 0
      /\ totals[b].phase = "live" => payments[b].amount = totals[b].total

(* No payment is on record as refunded without a refund row, whatever      *)
(* step of the refund failed.                                              *)
RefundRecorded ==
  \A b \in Bookings :
    payments[b] # NoRow /\ payments[b].status = "REFUNDED" => refunds[b] > 0

(* A refund that was answered ok refunded a payment: there is such a       *)
(* payment and a refund row of it.                                         *)
RefundAnswerHonest ==
  \A w \in Workers :
    At(w, "ok") /\ jobs[w].op = "refund" => Known(jobs[w].id) /\ refunds[jobs[w].id] > 0

(* Paying is answered ok at most once per booking, however the requests    *)
(* overlap.                                                                *)
PaidOnce ==
  \A v, w \in Workers :
    /\ At(v, "ok") /\ jobs[v].op = "pay" /\ At(w, "ok") /\ jobs[w].op = "pay"
    /\ jobs[v].id = jobs[w].id
    => v = w

(* A payment never disappears, and one that has an outcome never becomes   *)
(* pending again: paying twice does not undo what the provider reported.   *)
OutcomeKept ==
  [][\A b \in Bookings : payments[b] # NoRow =>
       /\ payments'[b] # NoRow
       /\ payments'[b].status = "PENDING" => payments[b].status = "PENDING"]_vars

(* What the service promises: each payment made once and in full, refunds  *)
(* on record before they count, however the calls of requests interleave,  *)
(* fail halfway or are cut off by a crash.                                 *)
Ledger == INSTANCE PaymentLedger
ImplementsLedger == Ledger!Spec

(* Every request is answered, also when the booking service never is.      *)
Answered == \A w \in Workers : Running(w) ~> ~Running(w)
=============================================================================
