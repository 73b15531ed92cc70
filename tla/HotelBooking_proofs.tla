------------------------ MODULE HotelBooking_proofs ------------------------
(***************************************************************************)
(* Theorems about HotelBooking.  The composition implements each of the    *)
(* two services, so that what is proved of a service alone holds of it     *)
(* here; on top of their inductive invariants stands the one that relates  *)
(* a paid booking to its payment and to who called it paid.                *)
(***************************************************************************)
EXTENDS HotelBooking, TLAPS

BP == INSTANCE BookingService_proofs
PP == INSTANCE PaymentService_proofs WITH totals <- table

-----------------------------------------------------------------------------
(* BP and PP are the same two services as B and P.                         *)

LEMMA SameBooking ==
  /\ B!Init <=> BP!Init
  /\ B!OwnStep <=> BP!OwnStep
  /\ B!vars = BP!vars
  /\ B!Posted = BP!Posted
  /\ B!Row = BP!Row
  /\ B!Handler = BP!Handler
  /\ B!TypeOK <=> BP!TypeOK
  /\ B!Next <=> BP!Next
  /\ \A b, s : B!PostInternalUpdateStatus(b, s) <=> BP!PostInternalUpdateStatus(b, s)
  /\ \A s : B!StatusOf(s) = BP!StatusOf(s)
BY DEF B!Init, BP!Init, B!OwnStep, BP!OwnStep, B!vars, BP!vars, B!dbVars, BP!dbVars,
       B!Posted, BP!Posted, B!Row, BP!Row, B!Handler, BP!Handler, B!TypeOK, BP!TypeOK,
       B!Next, BP!Next, B!PostInternalUpdateStatus, BP!PostInternalUpdateStatus,
       B!StatusOf, BP!StatusOf, B!Status, BP!Status, B!Ops, BP!Ops, B!PostBooking, BP!PostBooking,
       B!Issued, BP!Issued, B!Exists, BP!Exists, B!Running, BP!Running, B!Start, BP!Start,
       B!RequestStep, BP!RequestStep, B!Load, BP!Load, B!WriteStatus, BP!WriteStatus,
       B!DeleteRow, BP!DeleteRow, B!Fail, BP!Fail, B!Crash, BP!Crash, B!Step, BP!Step,
       B!UpdateStatus, BP!UpdateStatus, B!Delete, BP!Delete, B!Allowed, BP!Allowed,
       B!MayCheckIn, BP!MayCheckIn, B!MayCheckOut, BP!MayCheckOut, B!MayRefund, BP!MayRefund,
       B!MayDelete, BP!MayDelete, B!Target, BP!Target, B!Answer, BP!Answer

LEMMA SamePayment ==
  /\ P!OwnStep <=> PP!OwnStep
  /\ P!vars = PP!vars
  /\ P!Init <=> PP!Init
  /\ P!Next <=> PP!Next
  /\ P!TypeOK <=> PP!TypeOK
  /\ P!Row = PP!Row
  /\ P!Job = PP!Job
  /\ P!PaymentIds = PP!PaymentIds
  /\ P!Answer = PP!Answer
  /\ \A w, at : P!At(w, at) <=> PP!At(w, at)
  /\ \A w : P!Busy(w) <=> PP!Busy(w)
  /\ \A w, b, tx : P!StartWebhook(w, b, tx) <=> PP!StartWebhook(w, b, tx)
  /\ \A w, a : P!PostDelivered(w, a) <=> PP!PostDelivered(w, a)
  /\ \A w : P!LateDelivered(w) <=> PP!LateDelivered(w)
  /\ \A tx : /\ P!PostedStatus(tx) = PP!PostedStatus(tx)
             /\ P!Settled(tx) <=> PP!Settled(tx)
             /\ P!Expired(tx) <=> PP!Expired(tx)
BY DEF P!PaymentStatus, PP!PaymentStatus, P!Row, PP!Row, P!PaymentIds, PP!PaymentIds,
       P!Job, PP!Job, P!BookingTable, PP!BookingTable, P!TypeOK, PP!TypeOK, P!Init,
       PP!Init, P!Known, PP!Known, P!Running, PP!Running, P!Busy, PP!Busy, P!At, PP!At,
       P!Step, PP!Step, P!Begin, PP!Begin, P!StartPay, PP!StartPay, P!GetBookingTotal,
       PP!GetBookingTotal, P!MatchesTotal, PP!MatchesTotal, P!CheckTotal, PP!CheckTotal,
       P!InsertPayment, PP!InsertPayment, P!Settled, PP!Settled, P!Expired, PP!Expired,
       P!RecordedStatus, PP!RecordedStatus, P!PostedStatus, PP!PostedStatus,
       P!StartWebhook, PP!StartWebhook, P!FindPayment, PP!FindPayment, P!RecordOutcome,
       PP!RecordOutcome, P!PostDelivered, PP!PostDelivered, P!PostLost, PP!PostLost,
       P!PostTimeout, PP!PostTimeout, P!LateDelivered, PP!LateDelivered, P!LateLost,
       PP!LateLost, P!StartRefund, PP!StartRefund, P!PersistRefund, PP!PersistRefund,
       P!MarkRefunded, PP!MarkRefunded, P!Answer, PP!Answer, P!Fail, PP!Fail, P!Crash,
       PP!Crash, P!HandlerStep, PP!HandlerStep, P!OwnStep, PP!OwnStep, P!BookingInserted,
       PP!BookingInserted, P!BookingDeleted, PP!BookingDeleted, P!Next, PP!Next, P!vars,
       PP!vars

(* The assumptions on the constants are those of both services.            *)
LEMMA Sentinels ==
  /\ NoRow \notin BP!Row /\ Idle \notin BP!Handler
  /\ NoRow \notin PP!Row /\ Idle \notin PP!Job
  /\ Unknown \notin Bookings /\ MaxRefunds \in Nat
  /\ Totals \subseteq Int /\ Amounts \subseteq Int
BY SentinelAssumption, AmountAssumption, SameBooking, SamePayment

-----------------------------------------------------------------------------
(* Every step of the composition is a step of each service.                *)

(* The payment service posts nothing but statuses the internal route takes, *)
(* for bookings only.                                                       *)
LEMMA PostKnown ==
  ASSUME PP!IInv, NEW w \in Workers, P!At(w, "post") \/ P!At(w, "late")
  PROVE  /\ jobs[w] # Idle /\ jobs[w].op = "webhook"
         /\ jobs[w].id \in Bookings /\ jobs[w].tx \in Statuses
         /\ payments[jobs[w].id] # NoRow
         /\ P!PostedStatus(jobs[w].tx) \in B!Posted
BY DEF PP!IInv, PP!JobsOK, PP!JobOK, P!At, P!PostedStatus, B!Posted

(* The booking service takes any post, so others post nothing new to it.   *)
LEMMA BookingStepAlone ==
  ASSUME BookingStep
  PROVE  BP!Next /\ UNCHANGED <<payments, refunds, jobs, notices, others>>
<1>1. B!OwnStep \/ \E b \in Bookings, posted \in B!Posted : B!PostInternalUpdateStatus(b, posted)
  BY OthersAssumption DEF BookingStep, PostByOthers
<1>2. QED
  BY <1>1, SameBooking DEF BookingStep, BP!Next

LEMMA BookingSide ==
  ASSUME PP!IInv, [Next]_vars
  PROVE  [BP!Next]_(BP!vars)
<1>1. CASE BookingStep
  BY <1>1, BookingStepAlone
<1>2. ASSUME NEW w \in Workers, DeliverLate(w) \/ \E answer \in P!Answer : Deliver(w, answer)
      PROVE  BP!Next
  BY <1>2, PostKnown, SameBooking DEF Deliver, DeliverLate, BP!Next
<1>3. CASE UNCHANGED bookingVars
  BY <1>3 DEF bookingVars, BP!vars
<1>4. PaymentStep(P!OwnStep) => UNCHANGED bookingVars
  BY DEF PaymentStep
<1>5. ASSUME NEW n \in Notice, Notify(n) \/ \E w \in Workers : Redeliver(w, n)
      PROVE  UNCHANGED bookingVars
  BY <1>5 DEF Notify, Redeliver, bookingVars
<1>6. ASSUME NEW w \in Workers, NEW b \in Bookings, NEW tx \in OtherNotices,
             WebhookByOthers(w, b, tx)
      PROVE  UNCHANGED bookingVars
  BY <1>6 DEF WebhookByOthers, bookingVars
<1>7. UNCHANGED vars => UNCHANGED bookingVars
  BY DEF vars, bookingVars
<1>8. QED
  BY <1>1, <1>2, <1>3, <1>4, <1>5, <1>6, <1>7 DEF Next

(* The payment service sees of a step of the booking service only that a   *)
(* booking appears or goes.                                                *)
LEMMA TableStep ==
  ASSUME BP!IInv, BP!Next
  PROVE  \/ UNCHANGED table
         \/ \E b \in Bookings :
              \/ /\ table[b].phase = "live"
                 /\ table' = [table EXCEPT ![b] = [phase |-> "deleted", total |-> 0]]
              \/ /\ table[b].phase = "none"
                 /\ \E t \in Totals : table' = [table EXCEPT ![b] = [phase |-> "live", total |-> t]]
<1>1. CASE UNCHANGED <<bookings, attained>>
  BY <1>1 DEF table
<1>2. ASSUME NEW c \in Bookings,
             \A b \in Bookings : b # c => bookings'[b] = bookings[b] /\ attained'[b] = attained[b]
      PROVE  \/ UNCHANGED table
             \/ /\ table[c].phase = "live"
                /\ table' = [table EXCEPT ![c] = [phase |-> "deleted", total |-> 0]]
             \/ /\ table[c].phase = "none"
                /\ \E t \in Totals : table' = [table EXCEPT ![c] = [phase |-> "live", total |-> t]]
  <2>1. \A b \in Bookings : b # c => table'[b] = table[b]
    BY <1>2 DEF table
  <2>2. table = [b \in Bookings |-> table[b]] /\ table' = [b \in Bookings |-> table'[b]]
    BY DEF table
  <2>3. table' = [table EXCEPT ![c] = table'[c]]
    BY <2>1, <2>2
  <2>4. /\ table[c] = IF bookings[c] # NoRow THEN [phase |-> "live", total |-> bookings[c].total]
                      ELSE [phase |-> IF attained[c] = {} THEN "none" ELSE "deleted", total |-> 0]
        /\ table'[c] = IF bookings'[c] # NoRow THEN [phase |-> "live", total |-> bookings'[c].total]
                       ELSE [phase |-> IF attained'[c] = {} THEN "none" ELSE "deleted", total |-> 0]
    BY DEF table
  <2>5. \A x \in BP!Row : x # NoRow /\ x.total \in Totals
    BY Sentinels DEF BP!Row
  <2>6. bookings[c] # NoRow => attained[c] # {}
    BY DEF BP!IInv, BP!HistoryOK, BP!Exists
  <2>7. \/ table'[c] = table[c]
        \/ table[c].phase = "live" /\ table'[c] = [phase |-> "deleted", total |-> 0]
        \/ /\ table[c].phase = "none"
           /\ \E t \in Totals : table'[c] = [phase |-> "live", total |-> t]
    <3>0. /\ [phase |-> "live", total |-> bookings[c].total].phase = "live"
          /\ [phase |-> "none", total |-> 0].phase = "none"
      OBVIOUS
    <3>1. CASE bookings'[c] = bookings[c] /\ attained'[c] = attained[c]
      BY <2>4, <3>1
    <3>2. CASE /\ ~BP!Issued(c) /\ ~BP!Exists(c) /\ bookings'[c] \in BP!Row
      BY <2>4, <2>5, <3>0, <3>2 DEF BP!Issued, BP!Exists
    <3>3. CASE BP!Exists(c) /\ bookings'[c] = NoRow /\ attained'[c] = attained[c]
      BY <2>4, <2>6, <3>0, <3>3 DEF BP!Exists
    <3>4. CASE BP!Exists(c) /\ bookings'[c] \in BP!Row /\ bookings'[c].total = bookings[c].total
      BY <2>4, <2>5, <3>4 DEF BP!Exists
    <3>5. QED
      BY <3>1, <3>2, <3>3, <3>4, Sentinels, BP!RowStep
  <2> HIDE DEF table
  <2>8. QED
    BY <2>2, <2>3, <2>7
<1>3. QED
  BY <1>1, <1>2, Sentinels, BP!OneRow DEF BP!dbVars

(* A status update is no news to the payment service.                      *)
LEMMA UpdateHidden ==
  ASSUME BP!IInv, NEW b \in Bookings, NEW s \in B!Posted, B!PostInternalUpdateStatus(b, s)
  PROVE  UNCHANGED table
<1>1. BP!StatusOf(s) \in BP!Status /\ BP!UpdateStatus(b, BP!StatusOf(s)) /\ BP!TypeOK
  BY SameBooking DEF BP!PostInternalUpdateStatus, BP!StatusOf, BP!Posted, BP!Status, BP!IInv
<1>2. bookings[b] # NoRow => attained[b] # {}
  BY DEF BP!IInv, BP!HistoryOK, BP!Exists
<1>3. \A c \in Bookings : /\ bookings'[c] # NoRow <=> bookings[c] # NoRow
                          /\ bookings[c] # NoRow => bookings'[c].total = bookings[c].total
  BY <1>1, Sentinels, BP!UpdateEffect DEF BP!Exists
<1>4. \A c \in Bookings : attained'[c] = {} <=> attained[c] = {}
  <2>1. CASE bookings[b] # NoRow
    BY <1>1, <1>2, <2>1, Sentinels, BP!UpdateEffect DEF BP!Exists
  <2>2. CASE bookings[b] = NoRow
    BY <1>1, <2>2, Sentinels, BP!UpdateEffect DEF BP!Exists, BP!dbVars
  <2>3. QED
    BY <2>1, <2>2
<1>5. QED
  BY <1>3, <1>4 DEF table

LEMMA PaymentSide ==
  ASSUME BP!IInv, PP!IInv, [Next]_vars
  PROVE  [PP!Next]_(PP!vars)
<1>1. CASE BookingStep
  <2>1. BP!Next /\ UNCHANGED <<payments, refunds, jobs>>
    BY <1>1, BookingStepAlone
  <2>2. CASE UNCHANGED table
    BY <2>1, <2>2 DEF PP!vars
  <2>3. ASSUME NEW b \in Bookings,
               \/ /\ table[b].phase = "live"
                  /\ table' = [table EXCEPT ![b] = [phase |-> "deleted", total |-> 0]]
               \/ /\ table[b].phase = "none"
                  /\ \E t \in Totals : table' = [table EXCEPT ![b] = [phase |-> "live", total |-> t]]
        PROVE  PP!Next
    BY <2>1, <2>3 DEF PP!Next, PP!BookingDeleted, PP!BookingInserted
  <2>4. QED
    BY <2>1, <2>2, <2>3, TableStep
<1>2. CASE PaymentStep(P!OwnStep)
  BY <1>2, SamePayment DEF PaymentStep, PP!Next
<1>3. ASSUME NEW n \in Notice, Notify(n) PROVE UNCHANGED PP!vars
  BY <1>3 DEF Notify, PP!vars, table
<1>4. ASSUME NEW n \in Notice, NEW w \in Workers, Redeliver(w, n) PROVE PP!Next
  <2>1. n[1] \in Bookings /\ n[2] \in Statuses /\ PP!StartWebhook(w, n[1], n[2])
    BY <1>4, SamePayment DEF Notice, Redeliver
  <2>2. QED
    BY <2>1 DEF PP!Next
<1>5. ASSUME NEW w \in Workers, NEW answer \in P!Answer, Deliver(w, answer) PROVE PP!Next
  <2>1. UNCHANGED table
    BY <1>5, PostKnown, UpdateHidden DEF Deliver
  <2>2. PP!PostDelivered(w, answer) /\ answer \in PP!Answer
    BY <1>5, SamePayment DEF Deliver
  <2>3. QED
    BY <2>1, <2>2 DEF PP!Next
<1>6. ASSUME NEW w \in Workers, DeliverLate(w) PROVE PP!Next
  <2>1. UNCHANGED table
    BY <1>6, PostKnown, UpdateHidden DEF DeliverLate
  <2>2. PP!LateDelivered(w)
    BY <1>6, SamePayment DEF DeliverLate
  <2>3. QED
    BY <2>1, <2>2 DEF PP!Next
<1>7. ASSUME NEW w \in Workers, NEW b \in Bookings, NEW tx \in OtherNotices,
             WebhookByOthers(w, b, tx)
      PROVE  PP!Next
  <2>1. tx \in Statuses /\ PP!StartWebhook(w, b, tx)
    BY <1>7, OthersAssumption, SamePayment DEF WebhookByOthers
  <2>2. QED
    BY <2>1 DEF PP!Next
<1>8. CASE UNCHANGED vars
  BY <1>8 DEF vars, PP!vars, table
<1>9. QED
  BY <1>1, <1>2, <1>3, <1>4, <1>5, <1>6, <1>7, <1>8 DEF Next

(* The composition starts where each of the services does.                 *)
LEMMA InitSides == Init => BP!Init /\ PP!Init
<1>1. Init => BP!Init
  BY SameBooking DEF Init
<1>2. Init => table = [b \in Bookings |-> [phase |-> "none", total |-> 0]]
  BY DEF Init, B!Init, table
<1>3. Init => PP!Init
  BY <1>2 DEF Init, PP!Init, P!PaymentIds, PP!PaymentIds
<1>4. QED
  BY <1>1, <1>3

(* The invariants of both services hold of the composition.                *)
LEMMA SidesInvariant == Spec => [](BP!IInv /\ PP!IInv)
<1>1. Init => BP!IInv /\ PP!IInv
  BY InitSides, Sentinels, BP!InitOK, PP!InitOK
<1>2. BP!IInv /\ PP!IInv /\ [Next]_vars => BP!IInv' /\ PP!IInv'
  BY Sentinels, BookingSide, PaymentSide, BP!NextOK, PP!NextOK
<1>3. QED
  BY <1>1, <1>2, PTL DEF Spec

-----------------------------------------------------------------------------
(* What was reported of a booking, its payment and its history agree.      *)

(* A webhook in hand is the provider's, of a notice that it sent, or, when *)
(* it tells of a settlement, a claim of others.                            *)
InHand(w) ==
  /\ w \notin others => notices[<<jobs[w].id, jobs[w].tx>>] # "none"
  /\ w \in others /\ P!Settled(jobs[w].tx) => <<"webhook", jobs[w].id>> \in claims

(* Who called a booking paid.                                              *)
Vouched(b) ==
  \/ <<"internal", b>> \in claims
  \/ payments[b] # NoRow /\ Settlement(b) \in Notice /\ SettlementReported(b)

ReportsOK ==
  /\ notices \in [Notice -> {"none", "sent", "acked"}]
  /\ others \subseteq {w \in Workers : P!Busy(w)}
  /\ claims \subseteq Claim

Reported ==
  /\ ReportsOK
  /\ \A b \in Bookings, tx \in Statuses : notices[<<b, tx>>] # "none" => payments[b] # NoRow
  /\ \A w \in Workers : P!Busy(w) /\ jobs[w].op = "webhook" => InHand(w)
  /\ \A b \in Bookings : "PAID" \in attained[b] => Vouched(b)
  /\ AckedNoticeTookEffect

(* A booking with a payment was issued, so its history only grows, and a   *)
(* deleted one stays deleted.                                              *)
LEMMA PaidForKept ==
  ASSUME BP!IInv, PP!IInv, [BP!Next]_(BP!vars), NEW b \in Bookings, payments[b] # NoRow
  PROVE  /\ attained[b] \subseteq attained'[b]
         /\ bookings'[b] # NoRow => bookings[b] # NoRow
<1>1. table[b].phase # "none"
  BY DEF PP!IInv, PP!PaymentsBooked
<1>2. bookings[b] # NoRow \/ attained[b] # {}
  BY <1>1 DEF table
<1>3. CASE UNCHANGED BP!vars
  BY <1>3 DEF BP!vars
<1>4. CASE BP!Next
  BY <1>2, <1>4, Sentinels, BP!RowStep DEF BP!Issued, BP!Exists
<1>5. QED
  BY <1>3, <1>4

(* A webhook in hand is about a booking and a status of the provider's.    *)
LEMMA WebhookNames ==
  ASSUME PP!IInv, NEW w \in Workers, P!Busy(w), jobs[w].op = "webhook"
  PROVE  jobs[w].id \in Bookings /\ jobs[w].tx \in Statuses
<1>1. jobs[w] \in PP!Job /\ jobs[w].at # "ok" /\ PP!JobOK(jobs[w])
  BY DEF P!Busy, PP!IInv, PP!TypeOK, PP!JobsOK
<1>2. jobs[w].at \in {"total", "insert", "find", "record", "post", "persist", "mark", "late"}
  BY <1>1 DEF PP!Job
<1>3. QED
  BY <1>1, <1>2 DEF PP!JobOK

(* What was said of a booking is never unsaid.                             *)
LEMMA VouchedKept ==
  ASSUME NEW b \in Bookings, Vouched(b), payments[b] # NoRow => payments'[b] # NoRow,
         claims \subseteq claims', \A m \in Notice : notices[m] # "none" => notices'[m] # "none"
  PROVE  Vouched(b)'
BY DEF Vouched, SettlementReported, Settlement, Notice

(* Whom the end of a request is told to.                                   *)
LEMMA AcknowledgeEffect ==
  ASSUME ReportsOK, Acknowledge
  PROVE  /\ ReportsOK'
         /\ others' = {w \in others : P!Busy(w)'} /\ claims' = claims
         /\ \A m \in Notice :
              /\ notices'[m] = IF Answered2xx(m) THEN "acked" ELSE notices[m]
              /\ notices[m] # "none" => notices'[m] # "none"
BY DEF Acknowledge, ReportsOK, P!Busy

(* A webhook that goes on is in hand as before.                            *)
LEMMA InHandKept ==
  ASSUME PP!IInv, Reported, Acknowledge, NEW v \in Workers,
         jobs[v] # Idle, jobs[v].at # "ok", jobs[v].op = "webhook",
         jobs'[v] # Idle, jobs'[v].at # "ok",
         jobs'[v].id = jobs[v].id, jobs'[v].tx = jobs[v].tx
  PROVE  InHand(v)'
<1>1. P!Busy(v) /\ P!Busy(v)' /\ InHand(v)
  BY DEF P!Busy, Reported
<1>2. <<jobs[v].id, jobs[v].tx>> \in Notice
  BY <1>1, WebhookNames DEF Notice
<1>3. /\ v \in others' <=> v \in others
      /\ claims' = claims
      /\ \A m \in Notice : notices[m] # "none" => notices'[m] # "none"
  BY <1>1, AcknowledgeEffect DEF Reported
<1>4. QED
  BY <1>1, <1>2, <1>3 DEF InHand, P!Settled

LEMMA BookingStepReported ==
  ASSUME BP!IInv, PP!IInv, Reported, BookingStep
  PROVE  Reported'
<1>1. BP!Next /\ UNCHANGED <<payments, refunds, jobs, notices, others>>
  BY BookingStepAlone
<1>2. claims \subseteq claims' /\ claims' \subseteq Claim
  BY DEF BookingStep, PostByOthers, Claimed, Claim, Reported, ReportsOK
<1>3. ASSUME NEW b \in Bookings, "PAID" \in attained'[b], "PAID" \notin attained[b]
      PROVE  <<"internal", b>> \in claims'
  <2>1. ~BP!OwnStep
    BY <1>3, Sentinels, BP!OwnNeverPays
  <2>2. PICK c \in Bookings, posted \in OtherPosts : PostByOthers(c, posted)
    BY <2>1, SameBooking DEF BookingStep
  <2>3. BP!StatusOf(posted) \in BP!Status /\ BP!UpdateStatus(c, BP!StatusOf(posted)) /\ BP!TypeOK
    BY <2>2, OthersAssumption, SameBooking
       DEF PostByOthers, BP!PostInternalUpdateStatus, BP!StatusOf, BP!Posted, BP!Status, BP!IInv
  <2>4. b = c /\ BP!StatusOf(posted) = "PAID"
    BY <1>3, <2>3, Sentinels, BP!UpdateEffect DEF BP!dbVars
  <2>5. posted = "PAID"
    BY <2>4 DEF BP!StatusOf
  <2>6. QED
    BY <2>2, <2>4, <2>5 DEF PostByOthers, Claimed
<1>4. ASSUME NEW b \in Bookings, "PAID" \in attained'[b] PROVE Vouched(b)'
  <2>1. CASE "PAID" \in attained[b]
    BY <1>1, <1>2, <2>1, VouchedKept DEF Reported
  <2>2. CASE "PAID" \notin attained[b]
    BY <1>3, <1>4, <2>2 DEF Vouched
  <2>3. QED
    BY <2>1, <2>2
<1>5. \A b \in Bookings : payments[b] # NoRow =>
        attained[b] \subseteq attained'[b] /\ (bookings'[b] # NoRow => bookings[b] # NoRow)
  BY <1>1, PaidForKept
<1>6. AckedNoticeTookEffect'
  BY <1>1, <1>5 DEF Reported, AckedNoticeTookEffect, P!Settled, P!Expired
<1>7. ReportsOK'
  BY <1>1, <1>2 DEF Reported, ReportsOK, P!Busy
<1>8. \A w \in Workers : (P!Busy(w) /\ jobs[w].op = "webhook" => InHand(w))'
  BY <1>1, <1>2 DEF Reported, InHand, P!Busy, P!Settled
<1>9. QED
  BY <1>1, <1>4, <1>6, <1>7, <1>8 DEF Reported

(* On its own the payment service acknowledges only what asks for nothing. *)
LEMMA PaymentStepReported ==
  ASSUME BP!IInv, PP!IInv, Reported, PaymentStep(P!OwnStep)
  PROVE  Reported'
<1>1. PP!OwnStep /\ PP!Next /\ UNCHANGED bookingVars /\ Acknowledge
  BY SamePayment DEF PaymentStep, PP!Next
<1>2. \A b \in Bookings : payments[b] # NoRow => payments'[b] # NoRow
  BY <1>1, Sentinels, PP!KeptStep
<1>3. ASSUME NEW v \in Workers, jobs'[v] # Idle,
             \/ jobs'[v].op = "webhook"
             \/ jobs[v] # Idle /\ jobs[v].at # "ok" /\ jobs[v].op = "webhook"
      PROVE  /\ jobs[v] # Idle /\ jobs[v].op = "webhook"
             /\ jobs'[v].id = jobs[v].id /\ jobs'[v].tx = jobs[v].tx
             /\ jobs'[v].at # "ok" => jobs[v].at # "ok"
             /\ jobs'[v].at = "ok" /\ jobs[v].at # "ok" =>
                  ~P!Settled(jobs[v].tx) /\ ~P!Expired(jobs[v].tx)
  <2>1. /\ jobs[v] # Idle /\ jobs[v].op = "webhook"
        /\ jobs'[v].id = jobs[v].id /\ jobs'[v].tx = jobs[v].tx
        /\ jobs'[v].at # "ok" => jobs[v].at # "ok"
        /\ jobs'[v].at = "ok" /\ jobs[v].at # "ok" =>
             ~PP!Settled(jobs[v].tx) /\ ~PP!Expired(jobs[v].tx)
    <3>1. CASE jobs'[v].op = "webhook"
      BY <1>1, <1>3, <3>1, Sentinels, PP!WebhookStep
    <3>2. CASE jobs[v] # Idle /\ jobs[v].at # "ok" /\ jobs[v].op = "webhook"
      BY <1>1, <1>3, <3>2, Sentinels, PP!WebhookStep DEF PP!Busy
    <3>3. QED
      BY <1>3, <3>1, <3>2
  <2>2. QED
    BY <2>1, SamePayment
<1>4. ASSUME NEW b \in Bookings, NEW tx \in Statuses, Answered2xx(<<b, tx>>)
      PROVE  notices[<<b, tx>>] # "none" /\ ~P!Settled(tx) /\ ~P!Expired(tx)
  <2>1. PICK w \in Workers \ others :
          /\ P!Busy(w) /\ jobs[w].op = "webhook" /\ b = jobs[w].id /\ tx = jobs[w].tx
          /\ jobs'[w] # Idle /\ jobs'[w].at = "ok"
    BY <1>4 DEF Answered2xx
  <2>2. jobs[w] # Idle /\ jobs[w].at # "ok"
    BY <2>1 DEF P!Busy
  <2>3. ~P!Settled(jobs[w].tx) /\ ~P!Expired(jobs[w].tx)
    BY <1>3, <2>1, <2>2
  <2>4. QED
    BY <2>1, <2>3 DEF Reported, InHand
<1>5. \A b \in Bookings, tx \in Statuses : <<b, tx>> \in Notice
  BY DEF Notice
<1>6. ReportsOK' /\ claims' = claims /\ \A m \in Notice : notices[m] # "none" => notices'[m] # "none"
  BY <1>1, AcknowledgeEffect DEF Reported
<1>7. \A b \in Bookings, tx \in Statuses :
        /\ notices'[<<b, tx>>] # "none" <=> notices[<<b, tx>>] # "none"
        /\ notices'[<<b, tx>>] = "acked" /\ (P!Settled(tx) \/ P!Expired(tx)) =>
             notices[<<b, tx>>] = "acked"
  BY <1>1, <1>4, <1>5, AcknowledgeEffect DEF Reported
<1>8. AckedNoticeTookEffect'
  BY <1>1, <1>7 DEF Reported, AckedNoticeTookEffect, bookingVars
<1>9. ASSUME NEW b \in Bookings, "PAID" \in attained'[b] PROVE Vouched(b)'
  BY <1>1, <1>2, <1>6, <1>9, VouchedKept DEF Reported, bookingVars
<1>10. ASSUME NEW v \in Workers, jobs'[v] # Idle, jobs'[v].at # "ok", jobs'[v].op = "webhook"
       PROVE  InHand(v)'
  BY <1>1, <1>3, <1>10, InHandKept
<1>11. QED
  BY <1>2, <1>6, <1>7, <1>8, <1>9, <1>10 DEF Reported, P!Busy

LEMMA NotifyReported ==
  ASSUME PP!IInv, Reported, NEW n \in Notice, Notify(n)
  PROVE  Reported'
<1>1. PICK b \in Bookings, tx \in Statuses : n = <<b, tx>>
  BY DEF Notice
<1>2. /\ payments[b] # NoRow
      /\ notices' = [notices EXCEPT ![n] = "sent"]
      /\ UNCHANGED <<bookings, attained, payments, jobs, others, claims>>
  BY <1>1 DEF Notify
<1>3. \A m \in Notice : notices'[m] = IF m = n THEN "sent" ELSE notices[m]
  BY <1>2 DEF Reported, ReportsOK
<1>4. \A c \in Bookings, t \in Statuses : <<c, t>> \in Notice
  BY DEF Notice
<1>5. ReportsOK'
  BY <1>2 DEF Reported, ReportsOK, P!Busy
<1>6. \A c \in Bookings, t \in Statuses : notices'[<<c, t>>] # "none" => payments'[c] # NoRow
  BY <1>1, <1>2, <1>3, <1>4 DEF Reported
<1>7. ASSUME NEW v \in Workers, jobs[v] # Idle, jobs[v].at # "ok", jobs[v].op = "webhook"
      PROVE  InHand(v)'
  <2>1. P!Busy(v)
    BY <1>7 DEF P!Busy
  <2>2. <<jobs[v].id, jobs[v].tx>> \in Notice
    BY <1>7, <2>1, WebhookNames DEF Notice
  <2>3. QED
    BY <1>2, <1>3, <1>7, <2>1, <2>2 DEF Reported, InHand, P!Settled
<1>8. \A c \in Bookings : "PAID" \in attained'[c] => Vouched(c)'
  BY <1>2, <1>3, VouchedKept DEF Reported
<1>9. AckedNoticeTookEffect'
  BY <1>2, <1>3, <1>4 DEF Reported, AckedNoticeTookEffect
<1>10. QED
  BY <1>2, <1>5, <1>6, <1>7, <1>8, <1>9 DEF Reported, P!Busy

(* A new webhook is the provider's or one of others, by the set it is in.  *)
LEMMA StartReported ==
  ASSUME PP!IInv, Reported, NEW w \in Workers, NEW b \in Bookings, NEW tx \in Statuses,
         P!StartWebhook(w, b, tx), UNCHANGED <<bookings, attained, notices>>,
         \/ notices[<<b, tx>>] # "none" /\ UNCHANGED <<others, claims>>
         \/ others' = others \cup {w} /\ claims \subseteq claims' /\ claims' \subseteq Claim
            /\ (P!Settled(tx) => <<"webhook", b>> \in claims')
  PROVE  Reported'
<1> DEFINE job == [op |-> "webhook", id |-> b, amount |-> 0, tx |-> tx, at |-> "find"]
<1>1. ~P!Busy(w) /\ jobs' = [jobs EXCEPT ![w] = job] /\ UNCHANGED payments
  BY DEF P!StartWebhook, P!Begin
<1>2. \A v \in Workers : jobs'[v] = IF v = w THEN job ELSE jobs[v]
  BY <1>1 DEF PP!IInv, PP!TypeOK
<1>3. job \in PP!Job /\ job # Idle
  BY Sentinels DEF PP!Job, PP!PaymentIds
<1>4. w \notin others /\ claims \subseteq claims' /\ claims' \subseteq Claim
  BY <1>1 DEF Reported, ReportsOK
<1>5. ReportsOK'
  BY <1>2, <1>3, <1>4 DEF Reported, ReportsOK, P!Busy
<1>6. ASSUME NEW v \in Workers, jobs'[v] # Idle, jobs'[v].at # "ok", jobs'[v].op = "webhook"
      PROVE  InHand(v)'
  <2>1. CASE v = w
    BY <1>2, <1>4, <2>1 DEF InHand, P!Settled
  <2>2. CASE v # w
    <3>1. InHand(v) /\ jobs'[v] = jobs[v] /\ (v \in others' <=> v \in others)
      BY <1>2, <1>6, <2>2 DEF Reported, P!Busy
    <3>2. QED
      BY <1>4, <3>1 DEF InHand, P!Settled
  <2>3. QED
    BY <2>1, <2>2
<1>7. \A c \in Bookings : "PAID" \in attained'[c] => Vouched(c)'
  BY <1>1, <1>4, VouchedKept DEF Reported
<1>8. AckedNoticeTookEffect'
  BY DEF Reported, AckedNoticeTookEffect
<1>9. QED
  BY <1>1, <1>5, <1>6, <1>7, <1>8 DEF Reported, P!Busy

LEMMA RedeliverReported ==
  ASSUME PP!IInv, Reported, NEW n \in Notice, NEW w \in Workers, Redeliver(w, n)
  PROVE  Reported'
<1>1. PICK b \in Bookings, tx \in Statuses : n = <<b, tx>>
  BY DEF Notice
<1>2. /\ notices[<<b, tx>>] # "none" /\ P!StartWebhook(w, b, tx)
      /\ UNCHANGED <<bookings, attained, notices, others, claims>>
  BY <1>1 DEF Redeliver
<1>3. QED
  BY <1>2, StartReported

LEMMA WebhookByOthersReported ==
  ASSUME PP!IInv, Reported, NEW w \in Workers, NEW b \in Bookings, NEW tx \in OtherNotices,
         WebhookByOthers(w, b, tx)
  PROVE  Reported'
<1>1. /\ tx \in Statuses /\ P!StartWebhook(w, b, tx)
      /\ UNCHANGED <<bookings, attained, notices>> /\ others' = others \cup {w}
  BY OthersAssumption DEF WebhookByOthers
<1>2. /\ claims \subseteq claims' /\ claims' \subseteq Claim
      /\ P!Settled(tx) => <<"webhook", b>> \in claims'
  BY DEF WebhookByOthers, Claimed, Claim, Reported, ReportsOK
<1>3. QED
  BY <1>1, <1>2, StartReported

(* What a post does to the bookings agrees with the webhook it stems from. *)
LEMMA PostReported ==
  ASSUME BP!IInv, PP!IInv, Reported, NEW w \in Workers, P!At(w, "post") \/ P!At(w, "late"),
         NEW b \in Bookings, NEW tx \in Statuses, b = jobs[w].id, tx = jobs[w].tx,
         B!PostInternalUpdateStatus(b, P!PostedStatus(tx)), UNCHANGED <<payments, claims>>,
         \A m \in Notice : notices[m] # "none" => notices'[m] # "none",
         \A m \in Notice : notices'[m] = "acked" => notices[m] = "acked" \/ m = <<b, tx>>
  PROVE  /\ \A c \in Bookings : "PAID" \in attained'[c] => Vouched(c)'
         /\ AckedNoticeTookEffect'
<1> DEFINE s == B!StatusOf(P!PostedStatus(tx))
<1>1. /\ s \in BP!Status /\ BP!UpdateStatus(b, s) /\ BP!TypeOK
      /\ s = "PAID" => tx = "settlement"
  BY SameBooking DEF BP!PostInternalUpdateStatus, BP!StatusOf, BP!Posted, BP!Status, BP!IInv,
     P!PostedStatus, P!Settled
<1>2. /\ \A c \in Bookings :
           /\ bookings'[c] # NoRow <=> bookings[c] # NoRow
           /\ c # b => attained'[c] = attained[c]
      /\ bookings[b] # NoRow => attained'[b] = attained[b] \cup {s}
      /\ bookings[b] = NoRow => UNCHANGED attained
  BY <1>1, Sentinels, BP!UpdateEffect DEF BP!Exists, BP!dbVars
<1>3. tx = "settlement" => Vouched(b)
  <2>1. P!Busy(w) /\ jobs[w].op = "webhook" /\ payments[b] # NoRow
    BY PostKnown DEF P!At, P!Busy
  <2>2. InHand(w) /\ <<b, tx>> \in Notice
    BY <2>1 DEF Reported, Notice
  <2>3. QED
    BY <2>1, <2>2 DEF InHand, Vouched, SettlementReported, Settlement, P!Settled
<1>4. ASSUME NEW c \in Bookings, "PAID" \in attained'[c] PROVE Vouched(c)'
  <2>1. Vouched(c)
    <3>1. CASE "PAID" \in attained[c]
      BY <3>1 DEF Reported
    <3>2. CASE "PAID" \notin attained[c]
      <4>1. c = b /\ s = "PAID"
        BY <1>2, <1>4, <3>2
      <4>2. QED
        BY <1>1, <1>3, <4>1
    <3>3. QED
      BY <3>1, <3>2
  <2>2. QED
    BY <2>1, VouchedKept
<1>5. ASSUME NEW c \in Bookings, NEW t \in Statuses, notices'[<<c, t>>] = "acked",
             bookings'[c] # NoRow, P!Settled(t) \/ P!Expired(t)
      PROVE  B!StatusOf(P!PostedStatus(t)) \in attained'[c]
  <2>1. <<c, t>> \in Notice
    BY DEF Notice
  <2>2. attained[c] \subseteq attained'[c]
    BY <1>2
  <2>3. CASE <<c, t>> = <<b, tx>>
    BY <1>2, <1>5, <2>3
  <2>4. CASE notices[<<c, t>>] = "acked"
    BY <1>2, <1>5, <2>2, <2>4 DEF Reported, AckedNoticeTookEffect
  <2>5. QED
    BY <1>5, <2>1, <2>3, <2>4
<1>6. QED
  BY <1>4, <1>5 DEF AckedNoticeTookEffect, P!Settled, P!Expired, P!PostedStatus, B!StatusOf

(* A request that posts moves on with its webhook, or is over.             *)
LEMMA DeliverReported ==
  ASSUME BP!IInv, PP!IInv, Reported, NEW w \in Workers,
         DeliverLate(w) \/ \E answer \in P!Answer : Deliver(w, answer)
  PROVE  Reported'
<1>1. PICK b \in Bookings, tx \in Statuses :
        /\ b = jobs[w].id /\ tx = jobs[w].tx
        /\ B!PostInternalUpdateStatus(b, P!PostedStatus(tx))
  BY PostKnown DEF Deliver, DeliverLate
<1>2. PICK at \in {"ok", "failed"} : PP!Step(w, at)
  BY DEF Deliver, DeliverLate, P!PostDelivered, P!LateDelivered, P!Step, PP!Step, P!Answer
<1>3. /\ P!At(w, "post") \/ P!At(w, "late")
      /\ P!Busy(w) /\ PP!Busy(w) /\ UNCHANGED payments /\ Acknowledge
  BY DEF Deliver, DeliverLate, P!PostDelivered, P!LateDelivered, P!At, P!Busy, PP!Busy
<1>4. ASSUME NEW v \in Workers, jobs'[v] # Idle
      PROVE  /\ jobs[v] # Idle /\ jobs'[v].op = jobs[v].op
             /\ jobs'[v].id = jobs[v].id /\ jobs'[v].tx = jobs[v].tx
             /\ jobs'[v].at # "ok" => jobs[v].at # "ok"
             /\ jobs'[v].at = "ok" /\ jobs[v].at # "ok" => v = w
  BY <1>2, <1>3, <1>4, Sentinels, PP!OneJob
<1>5. ASSUME NEW n \in Notice, Answered2xx(n)
      PROVE  n = <<b, tx>> /\ notices[n] # "none"
  <2>1. PICK v \in Workers \ others :
          /\ P!Busy(v) /\ jobs[v].op = "webhook" /\ n = <<jobs[v].id, jobs[v].tx>>
          /\ jobs'[v] # Idle /\ jobs'[v].at = "ok"
    BY <1>5 DEF Answered2xx
  <2>2. jobs[v].at # "ok"
    BY <2>1 DEF P!Busy
  <2>3. v = w
    BY <1>4, <2>1, <2>2
  <2>4. QED
    BY <1>1, <2>1, <2>3 DEF Reported, InHand
<1>6. /\ ReportsOK' /\ claims' = claims
      /\ \A m \in Notice : /\ notices'[m] # "none" <=> notices[m] # "none"
                           /\ notices'[m] = "acked" => notices[m] = "acked" \/ m = <<b, tx>>
  BY <1>3, <1>5, AcknowledgeEffect DEF Reported
<1>7. /\ \A c \in Bookings : "PAID" \in attained'[c] => Vouched(c)'
      /\ AckedNoticeTookEffect'
  BY <1>1, <1>3, <1>6, PostReported
<1>8. \A c \in Bookings, t \in Statuses : notices'[<<c, t>>] # "none" => payments'[c] # NoRow
  BY <1>3, <1>6 DEF Reported, Notice
<1>9. ASSUME NEW v \in Workers, jobs'[v] # Idle, jobs'[v].at # "ok", jobs'[v].op = "webhook"
      PROVE  InHand(v)'
  BY <1>3, <1>4, <1>9, InHandKept
<1>10. QED
  BY <1>6, <1>7, <1>8, <1>9 DEF Reported, P!Busy

LEMMA ReportedKept ==
  ASSUME BP!IInv, PP!IInv, Reported, [Next]_vars
  PROVE  Reported'
<1>1. CASE BookingStep
  BY <1>1, BookingStepReported
<1>2. CASE PaymentStep(P!OwnStep)
  BY <1>2, PaymentStepReported
<1>3. ASSUME NEW n \in Notice, Notify(n) \/ \E w \in Workers : Redeliver(w, n)
      PROVE  Reported'
  BY <1>3, NotifyReported, RedeliverReported
<1>4. ASSUME NEW w \in Workers, DeliverLate(w) \/ \E answer \in P!Answer : Deliver(w, answer)
      PROVE  Reported'
  BY <1>4, DeliverReported
<1>5. ASSUME NEW w \in Workers, NEW b \in Bookings, NEW tx \in OtherNotices,
             WebhookByOthers(w, b, tx)
      PROVE  Reported'
  BY <1>5, WebhookByOthersReported
<1>6. CASE UNCHANGED vars
  BY <1>6 DEF vars, Reported, ReportsOK, InHand, Vouched, SettlementReported, Settlement,
              AckedNoticeTookEffect, P!Busy, P!Settled
<1>7. QED
  BY <1>1, <1>2, <1>3, <1>4, <1>5, <1>6 DEF Next

(* The inductive invariant of the composition: that of each service, and   *)
(* what relates them.                                                      *)
IInv == BP!IInv /\ PP!IInv /\ Reported

THEOREM Invariant == Spec => []IInv
<1>1. Init => Reported
  <2> SUFFICES ASSUME Init PROVE Reported
    OBVIOUS
  <2>1. \A b \in Bookings, tx \in Statuses : notices[<<b, tx>>] = "none"
    BY DEF Init, Notice
  <2>2. \A b \in Bookings : attained[b] = {}
    BY DEF Init, B!Init
  <2>3. \A w \in Workers : ~P!Busy(w)
    BY DEF Init, P!Busy
  <2>4. ReportsOK
    BY DEF Init, ReportsOK
  <2>5. QED
    BY <2>1, <2>2, <2>3, <2>4 DEF Reported, AckedNoticeTookEffect
<1>2. BP!IInv /\ PP!IInv /\ Reported /\ [Next]_vars => Reported'
  BY ReportedKept
<1>3. QED
  BY <1>1, <1>2, SidesInvariant, PTL DEF Spec, IInv

(* Every variable of the composition keeps its type.                       *)
THEOREM TypeCorrect == Spec => []TypeOK
<1>1. IInv => TypeOK
  BY SameBooking, SamePayment DEF IInv, BP!IInv, PP!IInv, Reported, ReportsOK, TypeOK
<1>2. QED
  BY <1>1, Invariant, PTL

(* A booking that is paid, or where a guest stays or stayed, has a payment *)
(* of its whole total of which a settlement was reported, unless PAID was  *)
(* posted for it past the payment service; whoever else posts and reports  *)
(* whatever else.                                                          *)
THEOREM NoStayWithoutSettlementAlways == Spec => []NoStayWithoutSettlement
<1>1. IInv => NoStayWithoutSettlement
  <2> SUFFICES ASSUME IInv, NEW b \in Bookings,
                      attained[b] \cap {"PAID", "CHECKED_IN", "CHECKED_OUT"} # {},
                      <<"internal", b>> \notin claims
               PROVE  /\ payments[b] # NoRow
                      /\ SettlementReported(b)
                      /\ bookings[b] # NoRow => payments[b].amount = bookings[b].total
    BY DEF NoStayWithoutSettlement
  <2>1. "PAID" \in attained[b]
    BY DEF IInv, BP!IInv, BP!StayWasPaid
  <2>2. payments[b] # NoRow /\ SettlementReported(b)
    BY <2>1 DEF IInv, Reported, Vouched
  <2>3. bookings[b] # NoRow => payments[b].amount = bookings[b].total
    BY <2>2 DEF IInv, PP!IInv, PP!PaidInFull, table
  <2>4. QED
    BY <2>2, <2>3
<1>2. QED
  BY <1>1, Invariant, PTL

(* What the provider was told ok about has reached the booking.            *)
THEOREM AckedNoticeTookEffectAlways == Spec => []AckedNoticeTookEffect
<1>1. IInv => AckedNoticeTookEffect
  BY DEF IInv, Reported
<1>2. QED
  BY <1>1, Invariant, PTL

-----------------------------------------------------------------------------
(* Refinement.                                                             *)

(* Seen from its own variables, the booking service in the composition is  *)
(* the booking service on its own.                                         *)
THEOREM BookingServiceRefined == Spec => ImplementsBookingService
<1>1. Init => B!Init
  BY DEF Init
<1>2. BP!IInv /\ PP!IInv /\ [Next]_vars => [B!Next]_(B!vars)
  BY BookingSide, SameBooking DEF B!vars, BP!vars
<1>3. QED
  BY <1>1, <1>2, SidesInvariant, PTL DEF Spec, B!Spec, ImplementsBookingService

(* Seen from its own variables and the booking table, so is the payment    *)
(* service.                                                                *)
THEOREM PaymentServiceRefined == Spec => ImplementsPaymentService
<1>1. Init => P!Init
  BY InitSides, SamePayment
<1>2. BP!IInv /\ PP!IInv /\ [Next]_vars => [P!Next]_(P!vars)
  BY PaymentSide, SamePayment DEF P!vars, PP!vars
<1>3. QED
  BY <1>1, <1>2, SidesInvariant, PTL DEF Spec, P!Spec, ImplementsPaymentService

(* So the tables of the two services together keep the payment ledger: a   *)
(* payment is made once, of the total of a booking that stands in the      *)
(* booking service's own table, or stood there.                            *)
THEOREM LedgerKept == Spec => PP!ImplementsLedger
<1>1. Init => PP!Init
  BY InitSides
<1>2. BP!IInv /\ PP!IInv /\ [Next]_vars => [PP!Next]_(PP!vars)
  BY PaymentSide
<1>3. PP!Spec => PP!ImplementsLedger
  BY Sentinels, PP!Refinement
<1>4. QED
  BY <1>1, <1>2, <1>3, SidesInvariant, PTL DEF Spec, PP!Spec

(* What the booking service promises on its own it keeps here, where the   *)
(* posts are the payment service's and others'.                            *)
THEOREM BookingPromisesKept ==
  Spec => /\ [](BP!StayWasPaid /\ BP!Entitled /\ BP!OkMeansDone /\ BP!DeleteAnsweredOnce)
          /\ BP!DeletedStaysDeleted /\ BP!OnlyOwnerDeletes /\ BP!ImplementsLifecycle
<1>1. BP!IInv => BP!StayWasPaid /\ BP!Entitled /\ BP!OkMeansDone /\ BP!DeleteAnsweredOnce
  BY DEF BP!IInv
<1>2. Init => BP!Init
  BY SameBooking DEF Init
<1>3. BP!IInv /\ PP!IInv /\ [Next]_vars => [BP!Next]_(BP!vars)
  BY BookingSide
<1>4. BP!Spec => BP!DeletedStaysDeleted
  BY Sentinels, BP!DeletedForGood
<1>5. BP!Spec => BP!OnlyOwnerDeletes
  BY Sentinels, BP!OnlyOwner
<1>6. BP!Spec => BP!ImplementsLifecycle
  BY Sentinels, BP!Refinement
<1>7. QED
  BY <1>1, <1>2, <1>3, <1>4, <1>5, <1>6, SidesInvariant, PTL DEF Spec, BP!Spec

(* And the payment service what it promises, where every total is the one  *)
(* that the booking service wrote.                                         *)
THEOREM PaymentPromisesKept ==
  Spec => /\ [](PP!PaidInFull /\ PP!RefundRecorded /\ PP!RefundAnswerHonest /\ PP!PaidOnce)
          /\ PP!OutcomeKept
<1>1. PP!IInv => PP!PaidInFull /\ PP!RefundRecorded /\ PP!RefundAnswerHonest /\ PP!PaidOnce
  BY DEF PP!IInv, PP!JobsOK, PP!JobOK, PP!RefundAnswerHonest, PP!At
<1>2. Init => PP!Init
  BY InitSides
<1>3. BP!IInv /\ PP!IInv /\ [Next]_vars => [PP!Next]_(PP!vars)
  BY PaymentSide
<1>4. PP!Spec => PP!OutcomeKept
  BY Sentinels, PP!OutcomeKeptAlways
<1>5. QED
  BY <1>1, <1>2, <1>3, <1>4, SidesInvariant, PTL DEF Spec, PP!Spec
=============================================================================
