---------------------------- MODULE HotelBooking ----------------------------
(***************************************************************************)
(* The booking service and the payment service at work together, with the  *)
(* payment provider and the clients around them.                           *)
(*                                                                         *)
(* They share two things.  The payment service reads booking totals out of *)
(* the booking service's table (repo.GetBookingTotal), and it posts the    *)
(* outcome of a payment to the booking service's internal route            *)
(* (repo.postStatus).  A post is one step of both services.  The provider  *)
(* may send any notice about a payment, repeat it, and deliver its notices *)
(* in any order; it repeats one until it is answered 2xx.                  *)
(*                                                                         *)
(* Neither the webhook nor the internal route asks who is calling.  Others *)
(* may therefore make any request that the provider, or the payment        *)
(* service, can make, at any time.                                         *)
(***************************************************************************)
EXTENDS FiniteSets, Integers

CONSTANTS Bookings, Users, Totals, Requests,            \* see BookingService
          Unknown, Amounts, Statuses, Workers, MaxRefunds, \* see PaymentService
          OtherPosts,   \* what others post to the internal route
          OtherNotices, \* what others send to the webhook
          NoRow, Idle

VARIABLES bookings, attained, req,      \* see BookingService
          payments, refunds, jobs,      \* see PaymentService
          notices,      \* what the provider has to say of each payment
          others,       \* the webhook requests that are not the provider's
          claims        \* history: who was called paid by others, and on which route

B == INSTANCE BookingService

(* The booking service's table as the payment service's query sees it.     *)
table == [b \in Bookings |->
            IF bookings[b] # NoRow THEN [phase |-> "live", total |-> bookings[b].total]
            ELSE [phase |-> IF attained[b] = {} THEN "none" ELSE "deleted", total |-> 0]]

P == INSTANCE PaymentService WITH totals <- table

ASSUME SentinelAssumption ==
  /\ NoRow \notin B!Row /\ Idle \notin B!Handler
  /\ NoRow \notin P!Row /\ Idle \notin P!Job
  /\ Unknown \notin Bookings
  /\ MaxRefunds \in Nat
ASSUME OthersAssumption == OtherPosts \subseteq B!Posted /\ OtherNotices \subseteq Statuses
ASSUME AmountAssumption == Totals \subseteq Int /\ Amounts \subseteq Int

bookingVars == <<bookings, attained, req>>
paymentVars == <<payments, refunds, jobs>>
vars == <<bookings, attained, req, payments, refunds, jobs, notices, others, claims>>

Notice == Bookings \X Statuses

(* Where a booking can be called paid: a settlement told to the webhook, or *)
(* PAID posted to the internal route.                                       *)
Claim == {"webhook", "internal"} \X Bookings

TypeOK ==
  /\ B!TypeOK
  /\ P!TypeOK
  /\ notices \in [Notice -> {"none", "sent", "acked"}]
  /\ others \subseteq Workers
  /\ claims \subseteq Claim

Init ==
  /\ B!Init
  /\ payments = [b \in Bookings |-> NoRow]
  /\ refunds  = [p \in P!PaymentIds |-> 0]
  /\ jobs     = [w \in Workers |-> Idle]
  /\ notices  = [n \in Notice |-> "none"]
  /\ others   = {}
  /\ claims   = {}

-----------------------------------------------------------------------------
(* Each service without the other.                                         *)

Claimed(route, b) == claims' = claims \cup {<<route, b>>}

(* The internal route is bound without authentication: anybody may post a  *)
(* status to it, not only the payment service.                             *)
PostByOthers(b, posted) ==
  /\ B!PostInternalUpdateStatus(b, posted)
  /\ IF posted = "PAID" THEN Claimed("internal", b) ELSE UNCHANGED claims

BookingStep ==
  /\ UNCHANGED <<payments, refunds, jobs, notices, others>>
  /\ \/ B!OwnStep /\ UNCHANGED claims
     \/ \E b \in Bookings, posted \in OtherPosts : PostByOthers(b, posted)

(* The provider learns of a 2xx answer to its notice n.                    *)
Answered2xx(n) ==
  \E w \in Workers \ others :
    /\ P!Busy(w) /\ jobs[w].op = "webhook" /\ n = <<jobs[w].id, jobs[w].tx>>
    /\ jobs'[w] # Idle /\ jobs'[w].at = "ok"

(* Requests that end are answered to whoever made them.                    *)
Acknowledge ==
  /\ notices' = [n \in Notice |-> IF Answered2xx(n) THEN "acked" ELSE notices[n]]
  /\ others' = {w \in others : jobs'[w] # Idle /\ jobs'[w].at # "ok"}
  /\ UNCHANGED claims

PaymentStep(step) ==
  /\ UNCHANGED bookingVars
  /\ step
  /\ Acknowledge

(* The webhook is public and does not look at the signature of what it is  *)
(* sent: anybody may tell it anything of any booking.                      *)
WebhookByOthers(w, b, tx) ==
  /\ UNCHANGED <<bookings, attained, req, notices>>
  /\ P!StartWebhook(w, b, tx)
  /\ others' = others \cup {w}
  /\ IF P!Settled(tx) THEN Claimed("webhook", b) ELSE UNCHANGED claims

-----------------------------------------------------------------------------
(* The provider.                                                           *)

(* It hears of a payment only after the payment is on record.              *)
Notify(n) ==
  /\ payments[n[1]] # NoRow
  /\ notices[n] = "none"
  /\ notices' = [notices EXCEPT ![n] = "sent"]
  /\ UNCHANGED <<bookings, attained, req, payments, refunds, jobs, others, claims>>

(* It delivers a notice once more, even one that was answered (the answer  *)
(* may not have reached it).                                               *)
Redeliver(w, n) ==
  /\ notices[n] # "none"
  /\ UNCHANGED <<bookings, attained, req, notices, others, claims>>
  /\ P!StartWebhook(w, n[1], n[2])

-----------------------------------------------------------------------------
(* The post from the payment service to the booking service.               *)

Deliver(w, answer) ==
  /\ P!At(w, "post")
  /\ B!PostInternalUpdateStatus(jobs[w].id, P!PostedStatus(jobs[w].tx))
  /\ P!PostDelivered(w, answer)
  /\ Acknowledge

DeliverLate(w) ==
  /\ P!At(w, "late")
  /\ B!PostInternalUpdateStatus(jobs[w].id, P!PostedStatus(jobs[w].tx))
  /\ P!LateDelivered(w)
  /\ Acknowledge

Next ==
  \/ BookingStep
  \/ PaymentStep(P!OwnStep)
  \/ \E w \in Workers, b \in Bookings, tx \in OtherNotices : WebhookByOthers(w, b, tx)
  \/ \E n \in Notice : Notify(n) \/ \E w \in Workers : Redeliver(w, n)
  \/ \E w \in Workers : DeliverLate(w) \/ \E answer \in P!Answer : Deliver(w, answer)

Spec == Init /\ [][Next]_vars

-----------------------------------------------------------------------------
(* Fairness.  Goroutines go on and posts end.  The provider repeats a      *)
(* notice that is not acknowledged, and a call that is tried over and over *)
(* succeeds some time: this is asked only of the settlement's own path, so *)
(* any other call may fail for ever, others may call without end, and both *)
(* services may crash again and again.                                     *)

Settlement(b) == <<b, "settlement">>

Serves(w, b) == w \notin others /\ jobs[w] # Idle /\ jobs[w].op = "webhook"
                /\ <<jobs[w].id, jobs[w].tx>> = Settlement(b)

Fairness ==
  /\ \A w \in Workers :
       /\ WF_vars(PaymentStep(P!HandlerStep(w)))
       /\ WF_vars(PaymentStep(P!PostTimeout(w)))
       /\ WF_vars(PaymentStep(P!LateLost(w)))
  /\ \A b \in Bookings :
       /\ SF_vars(notices[Settlement(b)] = "sent" /\ \E w \in Workers : Redeliver(w, Settlement(b)))
       /\ \A w \in Workers :
            /\ SF_vars(Serves(w, b) /\ PaymentStep(P!FindPayment(w)))
            /\ SF_vars(Serves(w, b) /\ PaymentStep(P!RecordOutcome(w, "post")))
            /\ SF_vars(Serves(w, b) /\ Deliver(w, "ok"))

FairSpec == Spec /\ Fairness

-----------------------------------------------------------------------------
(* What the webhook was told: by the provider, or by somebody else, which  *)
(* the service cannot tell apart.                                          *)
SettlementReported(b) ==
  notices[Settlement(b)] # "none" \/ <<"webhook", b>> \in claims

(* No booking is ever marked paid, and so no guest ever checked in, unless *)
(* PAID was posted for it past the payment service, or a settlement was    *)
(* reported of a payment of the booking's whole total.  Refused, expired   *)
(* and repeated notices, late posts, and statuses other than PAID posted   *)
(* by whomever never make a booking paid, and whatever settlement is       *)
(* reported by whomever does so for a booking with a payment only.         *)
NoStayWithoutSettlement ==
  \A b \in Bookings :
    attained[b] \cap {"PAID", "CHECKED_IN", "CHECKED_OUT"} # {} =>
      \/ <<"internal", b>> \in claims
      \/ /\ payments[b] # NoRow
         /\ SettlementReported(b)
         /\ bookings[b] # NoRow => payments[b].amount = bookings[b].total

(* A notice that was answered 2xx, and that the provider will not repeat,  *)
(* has had its effect on the booking, unless the booking was deleted.      *)
AckedNoticeTookEffect ==
  \A b \in Bookings, tx \in Statuses :
    notices[<<b, tx>>] = "acked" /\ bookings[b] # NoRow /\ (P!Settled(tx) \/ P!Expired(tx)) =>
      B!StatusOf(P!PostedStatus(tx)) \in attained[b]

(* The settlement of a payment reaches its booking, through lost posts,    *)
(* timeouts, database errors and crashes, unless the booking is deleted.   *)
SettlementReachesBooking ==
  \A b \in Bookings :
    notices[Settlement(b)] # "none" ~> "PAID" \in attained[b] \/ bookings[b] = NoRow

(* The composition is a booking service and a payment service.             *)
ImplementsBookingService == B!Spec
ImplementsPaymentService == P!Spec

-----------------------------------------------------------------------------
(* What the documentation promises and the code does not do.               *)

(* A refund that either service answered ok has reached the other.         *)
(* booking_service.go: "Refund triggers refund flow via payment service    *)
(* and cancels the booking."  payment_service.go, Refund: "Update payment  *)
(* and notify booking".                                                    *)
RefundReachesBoth ==
  /\ \A r \in Requests :
       req[r] # Idle /\ req[r].op = "refund" /\ req[r].at = "ok" => refunds[req[r].id] > 0
  /\ \A w \in Workers :
       P!At(w, "ok") /\ jobs[w].op = "refund" /\ bookings[jobs[w].id] # NoRow =>
         "REFUNDED" \in attained[jobs[w].id]

(* PostInternalUpdateStatus answers 404 "booking not found" for a booking  *)
(* that is not there, which the payment service takes for an error: a      *)
(* status post is answered ok only if there was a booking to update.       *)
PostNeedsBooking ==
  [][\A w \in Workers :
       P!At(w, "post") /\ jobs'[w] # Idle /\ jobs'[w].at = "ok" =>
         bookings[jobs[w].id] # NoRow]_vars
=============================================================================
