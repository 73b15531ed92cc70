----------------------- MODULE PaymentService_proofs -----------------------
(***************************************************************************)
(* Theorems about PaymentService, for any number of bookings, requests at  *)
(* a time, amounts and refunds.                                            *)
(***************************************************************************)
EXTENDS PaymentService, TLAPS

(* What is known of a request at each of its calls: what the calls before  *)
(* it have found or written.  The booking that a payment is inserted for   *)
(* was seen with this total, or is deleted by now.                         *)
JobOK(j) ==
  /\ j.at \in {"total", "insert"} => j.op = "pay" /\ j.amount \in Amounts /\ j.amount > 0
  /\ j.at \in {"find", "record", "post", "late"} => j.op = "webhook" /\ j.tx \in Statuses
  /\ j.at \in {"persist", "mark"} => j.op = "refund"
  /\ j.op \in {"pay", "webhook"} => j.id \in Bookings
  /\ j.op = "refund" => Known(j.id) \/ j.id = Unknown
  /\ j.at = "insert" => /\ totals[j.id].phase # "none"
                        /\ totals[j.id].phase = "live" => j.amount = totals[j.id].total
  /\ j.at \in {"record", "post", "late"} => payments[j.id] # NoRow
  /\ j.op = "pay" /\ j.at = "ok" => payments[j.id] # NoRow
  /\ j.at = "mark" => refunds[j.id] > 0
  /\ j.op = "refund" /\ j.at = "ok" => Known(j.id) /\ refunds[j.id] > 0

JobsOK == \A w \in Workers : jobs[w] # Idle => JobOK(jobs[w])

(* A payment is made only for a booking that was there.                    *)
PaymentsBooked == \A b \in Bookings : payments[b] # NoRow => totals[b].phase # "none"

(* The inductive invariant.                                                *)
IInv ==
  /\ TypeOK
  /\ JobsOK
  /\ PaymentsBooked
  /\ PaidInFull
  /\ RefundRecorded
  /\ PaidOnce

-----------------------------------------------------------------------------
(* A request slot that takes a step keeps its request and moves on, or is  *)
(* freed; no other slot is touched.                                        *)
LEMMA StepEffect ==
  ASSUME TypeOK, NEW w \in Workers, jobs[w] # Idle,
         NEW at \in {"insert", "record", "post", "mark", "late", "ok", "failed"}, Step(w, at)
  PROVE  /\ jobs[w] \in Job
         /\ jobs' \in [Workers -> Job \cup {Idle}]
         /\ \A v \in Workers : v # w => jobs'[v] = jobs[v]
         /\ at = "failed" => jobs'[w] = Idle
         /\ at # "failed" =>
              /\ jobs'[w] # Idle
              /\ jobs'[w] \in Job
              /\ jobs'[w].op = jobs[w].op
              /\ jobs'[w].id = jobs[w].id
              /\ jobs'[w].amount = jobs[w].amount
              /\ jobs'[w].tx = jobs[w].tx
              /\ jobs'[w].at = at
<1>1. jobs[w] \in Job /\ jobs \in [Workers -> Job \cup {Idle}]
  BY DEF TypeOK
<1>2. [jobs[w] EXCEPT !.at = at] \in Job \/ at = "failed"
  BY <1>1 DEF Job
<1>3. QED
  BY <1>1, <1>2, SentinelAssumption DEF Step, Job

(* The tables only grow towards a request: a payment stays, refund rows    *)
(* stay, and a booking that was seen is still live with its total, or      *)
(* gone.                                                                   *)
Grows ==
  /\ \A b \in Bookings : payments[b] # NoRow => payments'[b] # NoRow
  /\ \A p \in PaymentIds : refunds[p] > 0 => refunds'[p] > 0
  /\ \A b \in Bookings : totals[b].phase # "none" =>
       /\ totals'[b].phase # "none"
       /\ totals'[b].phase = "live" => totals[b].phase = "live" /\ totals'[b] = totals[b]

(* What is known of a request stays known while the tables grow.           *)
LEMMA JobKept ==
  ASSUME Grows, NEW j \in Job, JobOK(j)
  PROVE  JobOK(j)'
BY DEF Grows, JobOK, Known, PaymentIds, Job

(* Leaving the tables alone grows them.                                    *)
LEMMA SameGrows == ASSUME UNCHANGED <<totals, payments, refunds>> PROVE Grows
BY DEF Grows

(* A request that moves on, or ends, with nothing written.                 *)
LEMMA MoveOK ==
  ASSUME IInv, NEW w \in Workers, jobs[w] # Idle,
         NEW at \in {"insert", "record", "post", "mark", "late", "ok", "failed"}, Step(w, at),
         UNCHANGED <<totals, payments, refunds>>,
         jobs[w].op = "pay" => at # "ok",
         at # "failed" => JobOK([jobs[w] EXCEPT !.at = at])
  PROVE  IInv'
<1> USE DEF IInv
<1>1. TypeOK'
  BY StepEffect DEF TypeOK
<1>2. JobsOK'
  <2> SUFFICES ASSUME NEW v \in Workers, jobs'[v] # Idle PROVE JobOK(jobs[v])'
    BY DEF JobsOK
  <2>1. CASE v = w
    <3>1. at # "failed" /\ jobs'[w] = [jobs[w] EXCEPT !.at = at]
      BY <2>1, StepEffect DEF Step, TypeOK
    <3>2. JobOK(jobs'[w])
      BY <3>1
    <3>3. QED
      BY <2>1, <3>2 DEF JobOK, Known
  <2>2. CASE v # w
    <3>1. jobs'[v] = jobs[v] /\ JobOK(jobs[v])
      BY <2>2, StepEffect DEF JobsOK
    <3>2. QED
      BY <3>1 DEF JobOK, Known
  <2>3. QED
    BY <2>1, <2>2
<1>3. PaymentsBooked' /\ PaidInFull' /\ RefundRecorded'
  BY DEF PaymentsBooked, PaidInFull, RefundRecorded
<1>4. PaidOnce'
  <2>1. \A v \in Workers : jobs'[v] # Idle /\ jobs'[v].at = "ok" /\ jobs'[v].op = "pay" =>
          jobs[v] # Idle /\ jobs[v].at = "ok" /\ jobs[v].op = "pay" /\ jobs'[v].id = jobs[v].id
    BY StepEffect
  <2>2. QED
    BY <2>1 DEF PaidOnce, At
<1>5. QED
  BY <1>1, <1>2, <1>3, <1>4

-----------------------------------------------------------------------------
(* Each action keeps the invariant.                                        *)

LEMMA InitOK == Init => IInv
BY SentinelAssumption DEF Init, IInv, TypeOK, BookingTable, JobsOK, PaymentsBooked, PaidInFull,
   RefundRecorded, PaidOnce, At

(* A request begins with nothing known but what its client gave.           *)
LEMMA BeginOK ==
  ASSUME IInv, NEW w \in Workers, NEW j \in Job, JobOK(j), j.at # "ok",
         jobs' = [jobs EXCEPT ![w] = j], UNCHANGED <<totals, payments, refunds>>
  PROVE  IInv'
<1> USE DEF IInv
<1>1. TypeOK'
  BY DEF TypeOK
<1>2. jobs'[w] = j /\ \A v \in Workers : v # w => jobs'[v] = jobs[v]
  BY DEF TypeOK
<1>3. JobsOK'
  BY <1>2 DEF JobsOK, JobOK, Known
<1>4. PaymentsBooked' /\ PaidInFull' /\ RefundRecorded'
  BY DEF PaymentsBooked, PaidInFull, RefundRecorded
<1>5. PaidOnce'
  BY <1>2 DEF PaidOnce, At
<1>6. QED
  BY <1>1, <1>3, <1>4, <1>5

LEMMA StartPayOK ==
  ASSUME IInv, NEW w \in Workers, NEW b \in Bookings, NEW amount \in Amounts,
         StartPay(w, b, amount)
  PROVE  IInv'
<1> DEFINE j == [op |-> "pay", id |-> b, amount |-> amount, tx |-> "none", at |-> "total"]
<1>1. j \in Job /\ JobOK(j) /\ j.at # "ok"
  BY DEF Job, JobOK, PaymentIds, StartPay
<1>2. QED
  BY <1>1, BeginOK DEF StartPay, Begin

LEMMA StartWebhookOK ==
  ASSUME IInv, NEW w \in Workers, NEW b \in Bookings, NEW tx \in Statuses, StartWebhook(w, b, tx)
  PROVE  IInv'
<1> DEFINE j == [op |-> "webhook", id |-> b, amount |-> 0, tx |-> tx, at |-> "find"]
<1>1. j \in Job /\ JobOK(j) /\ j.at # "ok"
  BY DEF Job, JobOK, PaymentIds
<1>2. QED
  BY <1>1, BeginOK DEF StartWebhook, Begin

LEMMA StartRefundOK ==
  ASSUME IInv, NEW w \in Workers, NEW p \in PaymentIds, StartRefund(w, p)
  PROVE  IInv'
<1> DEFINE j == [op |-> "refund", id |-> p, amount |-> 0, tx |-> "none", at |-> "persist"]
<1>1. j \in Job /\ JobOK(j) /\ j.at # "ok"
  BY DEF Job, JobOK, StartRefund
<1>2. QED
  BY <1>1, BeginOK DEF StartRefund, Begin

(* The total that was read is the booking's, and the booking is live: an   *)
(* amount above 0 never equals what the query makes of a missing row.      *)
LEMMA CheckTotalOK ==
  ASSUME IInv, NEW w \in Workers, CheckTotal(w)
  PROVE  IInv'
<1> USE DEF IInv
<1>1. /\ jobs[w] # Idle /\ jobs[w] \in Job /\ JobOK(jobs[w]) /\ jobs[w].at = "total"
      /\ UNCHANGED <<totals, payments, refunds>>
  BY DEF CheckTotal, At, TypeOK, JobsOK
<1>2. CASE Step(w, "failed")
  BY <1>1, <1>2, MoveOK
<1>3. CASE Step(w, "insert") /\ MatchesTotal(jobs[w].amount, jobs[w].id)
  <2>1. /\ jobs[w].op = "pay" /\ jobs[w].id \in Bookings /\ jobs[w].amount > 0
        /\ jobs[w].amount \in Amounts
    BY <1>1 DEF JobOK
  <2>2. totals[jobs[w].id].phase = "live" /\ jobs[w].amount = totals[jobs[w].id].total
    BY <1>3, <2>1 DEF MatchesTotal, GetBookingTotal
  <2>3. JobOK([jobs[w] EXCEPT !.at = "insert"])
    BY <1>1, <2>1, <2>2 DEF JobOK, Job
  <2>4. QED
    BY <1>1, <1>3, <2>1, <2>3, MoveOK
<1>4. QED
  BY <1>2, <1>3 DEF CheckTotal

LEMMA FindPaymentOK ==
  ASSUME IInv, NEW w \in Workers, FindPayment(w)
  PROVE  IInv'
<1> USE DEF IInv
<1>1. /\ jobs[w] # Idle /\ jobs[w] \in Job /\ JobOK(jobs[w]) /\ jobs[w].at = "find"
      /\ UNCHANGED <<totals, payments, refunds>>
  BY DEF FindPayment, At, TypeOK, JobsOK
<1>2. jobs[w].op = "webhook" /\ jobs[w].id \in Bookings
  BY <1>1 DEF JobOK
<1>3. CASE Step(w, "failed")
  BY <1>1, <1>3, MoveOK
<1>4. CASE Step(w, "record") /\ payments[jobs[w].id] # NoRow
  <2>1. JobOK([jobs[w] EXCEPT !.at = "record"])
    BY <1>1, <1>2, <1>4 DEF JobOK, Job
  <2>2. QED
    BY <1>1, <1>2, <1>4, <2>1, MoveOK
<1>5. CASE Step(w, "ok")
  <2>1. JobOK([jobs[w] EXCEPT !.at = "ok"])
    BY <1>1, <1>2 DEF JobOK, Job
  <2>2. QED
    BY <1>1, <1>2, <1>5, <2>1, MoveOK
<1>6. QED
  BY <1>3, <1>4, <1>5 DEF FindPayment

(* The ends of a post change nothing on this side.                         *)
LEMMA PostOK ==
  ASSUME IInv, NEW w \in Workers, NEW at \in {"late", "ok", "failed"},
         At(w, "post") \/ At(w, "late"), Step(w, at), UNCHANGED <<totals, payments, refunds>>
  PROVE  IInv'
<1> USE DEF IInv
<1>1. /\ jobs[w] # Idle /\ jobs[w] \in Job /\ JobOK(jobs[w]) /\ jobs[w].at \in {"post", "late"}
  BY DEF At, TypeOK, JobsOK
<1>2. jobs[w].op = "webhook" /\ jobs[w].id \in Bookings
  BY <1>1 DEF JobOK
<1>3. JobOK([jobs[w] EXCEPT !.at = at])
  BY <1>1, <1>2 DEF JobOK, Job
<1>4. QED
  BY <1>1, <1>2, <1>3, MoveOK

LEMMA FailOK == ASSUME IInv, NEW w \in Workers, Fail(w) PROVE IInv'
<1>1. jobs[w] # Idle /\ Step(w, "failed") /\ UNCHANGED <<totals, payments, refunds>>
  BY DEF Fail, Running
<1>2. jobs[w].op = "pay" => "failed" # "ok"
  OBVIOUS
<1>3. QED
  BY <1>1, <1>2, MoveOK

(* A crash leaves only the posts that were sent.                           *)
LEMMA CrashOK == ASSUME IInv, Crash PROVE IInv'
<1> USE DEF IInv
<1>1. \A w \in Workers : jobs'[w] # Idle =>
        /\ jobs[w] # Idle /\ jobs[w] \in Job /\ jobs[w].at \in {"post", "late"}
        /\ jobs'[w] = [jobs[w] EXCEPT !.at = "late"]
  BY DEF Crash, At, TypeOK
<1>2. \A w \in Workers : jobs'[w] # Idle => jobs'[w] \in Job /\ jobs'[w].at = "late"
  BY <1>1 DEF Job
<1>3. UNCHANGED <<totals, payments, refunds>>
  BY DEF Crash
<1>4. TypeOK'
  BY <1>2, <1>3 DEF TypeOK, Crash
<1>5. JobsOK'
  <2> SUFFICES ASSUME NEW w \in Workers, jobs'[w] # Idle PROVE JobOK(jobs[w])'
    BY DEF JobsOK
  <2>1. JobOK(jobs[w])
    BY <1>1 DEF JobsOK
  <2>2. QED
    BY <1>1, <1>3, <2>1 DEF JobOK, Known, Job
<1>6. PaymentsBooked' /\ PaidInFull' /\ RefundRecorded'
  BY <1>3 DEF PaymentsBooked, PaidInFull, RefundRecorded
<1>7. PaidOnce'
  BY <1>2 DEF PaidOnce, At
<1>8. QED
  BY <1>4, <1>5, <1>6, <1>7

(* A write that lets the tables grow keeps what is known of all requests.  *)
LEMMA WriteKeepsJobs ==
  ASSUME IInv, NEW w \in Workers, jobs[w] # Idle, NEW at \in {"post", "mark", "ok", "failed"},
         Step(w, at), Grows,
         NEW j \in Job, at # "failed" => j = [jobs[w] EXCEPT !.at = at] /\ JobOK(j)'
  PROVE  JobsOK' /\ jobs' \in [Workers -> Job \cup {Idle}]
<1> USE DEF IInv
<1>1. \A v \in Workers : v # w => jobs'[v] = jobs[v]
  BY StepEffect
<1>2. jobs'[w] = IF at = "failed" THEN Idle ELSE j
  BY DEF Step, TypeOK
<1>3. ASSUME NEW v \in Workers, NEW i \in Job, jobs'[v] = i, jobs'[v] # Idle
      PROVE  JobOK(i)'
  <2>1. CASE v = w
    BY <1>2, <1>3, <2>1
  <2>2. CASE v # w
    <3>1. JobOK(i)
      BY <1>1, <1>3, <2>2 DEF JobsOK
    <3>2. QED
      BY <3>1, JobKept
  <2>3. QED
    BY <2>1, <2>2
<1>4. jobs' \in [Workers -> Job \cup {Idle}]
  BY StepEffect
<1>5. ASSUME NEW v \in Workers, jobs'[v] # Idle
      PROVE  JobOK(jobs[v])'
  <2>1. PICK i \in Job : jobs'[v] = i
    BY <1>4, <1>5
  <2>2. JobOK(i)'
    BY <1>3, <1>5, <2>1
  <2>3. QED
    BY <2>1, <2>2 DEF JobOK, Known
<1>6. QED
  BY <1>4, <1>5 DEF JobsOK

(* Paying: what the total check found still holds, or the booking is gone. *)
LEMMA InsertPaymentOK ==
  ASSUME IInv, NEW w \in Workers, NEW answer \in Answer, InsertPayment(w, answer)
  PROVE  IInv'
<1> USE DEF IInv
<1>0. PICK j \in Job : j = jobs[w] /\ JobOK(j) /\ jobs[w] # Idle /\ j.at = "insert"
  BY DEF InsertPayment, At, TypeOK, JobsOK
<1>1. j.op = "pay" /\ j.id \in Bookings /\ j.amount \in Amounts /\ j.amount > 0
  BY <1>0 DEF JobOK
<1>2. answer \in {"ok", "failed"} /\ UNCHANGED <<totals, refunds>>
  BY DEF Answer, InsertPayment
<1>3. CASE payments[j.id] # NoRow
  <2>1. Step(w, "failed") /\ UNCHANGED <<totals, payments, refunds>>
    BY <1>0, <1>2, <1>3 DEF InsertPayment
  <2>2. QED
    BY <1>0, <2>1, MoveOK
<1>4. CASE payments[j.id] = NoRow
  <2> DEFINE row == [amount |-> j.amount, status |-> "PENDING"]
  <2>1. row \in Row /\ row # NoRow
    BY <1>1, SentinelAssumption DEF Row, PaymentStatus
  <2>2. /\ payments' = [payments EXCEPT ![j.id] = row]
        /\ Step(w, answer)
    BY <1>0, <1>4 DEF InsertPayment
  <2>3. /\ payments'[j.id] = row
        /\ \A b \in Bookings : b # j.id => payments'[b] = payments[b]
        /\ payments' \in [Bookings -> Row \cup {NoRow}]
    BY <1>1, <2>1, <2>2 DEF TypeOK
  <2>4. Grows
    BY <1>2, <2>1, <2>3 DEF Grows
  <2>5. PICK i \in Job : i = [jobs[w] EXCEPT !.at = "ok"]
    BY <1>0 DEF Job
  <2>6. i.op = "pay" /\ i.id = j.id /\ i.at = "ok"
    BY <1>0, <1>1, <2>5 DEF Job
  <2>7. JobOK(i)'
    BY <1>1, <1>2, <2>1, <2>3, <2>6 DEF JobOK
  <2>8. JobsOK' /\ jobs' \in [Workers -> Job \cup {Idle}]
    BY <1>0, <1>2, <2>2, <2>4, <2>5, <2>7, WriteKeepsJobs
  <2>9. TypeOK'
    BY <1>2, <2>3, <2>8 DEF TypeOK
  <2>10. PaymentsBooked' /\ PaidInFull' /\ RefundRecorded'
    BY <1>0, <1>1, <1>2, <2>1, <2>3 DEF PaymentsBooked, PaidInFull, RefundRecorded, JobOK
  <2>11. \A v \in Workers : jobs[v] # Idle /\ jobs[v].op = "pay" /\ jobs[v].at = "ok"
                             => jobs[v].id # j.id
    BY <1>4 DEF JobsOK, JobOK
  <2>12. PaidOnce'
    <3> SUFFICES ASSUME NEW u \in Workers, NEW v \in Workers,
                        jobs'[u] # Idle, jobs'[u].at = "ok", jobs'[u].op = "pay",
                        jobs'[v] # Idle, jobs'[v].at = "ok", jobs'[v].op = "pay",
                        jobs'[u].id = jobs'[v].id
                 PROVE  u = v
      BY DEF PaidOnce, At
    <3>1. CASE u # w /\ v # w
      BY <1>0, <1>2, <2>2, <3>1, StepEffect DEF PaidOnce, At
    <3>2. CASE u = w \/ v = w
      BY <1>0, <1>2, <2>2, <2>11, <3>2, StepEffect
    <3>3. QED
      BY <3>1, <3>2
  <2>13. QED
    BY <2>8, <2>9, <2>10, <2>12
<1>5. QED
  BY <1>3, <1>4

(* Only a pay request is answered ok for having paid.                      *)
LEMMA PaidOnceKept ==
  ASSUME IInv, NEW w \in Workers, jobs[w] # Idle, jobs[w].op # "pay",
         NEW at \in {"post", "mark", "ok", "failed"}, Step(w, at)
  PROVE  PaidOnce'
<1> USE DEF IInv
<1>1. \A v \in Workers : jobs'[v] # Idle /\ jobs'[v].op = "pay" => v # w /\ jobs'[v] = jobs[v]
  BY StepEffect
<1>2. QED
  BY <1>1 DEF PaidOnce, At

(* A webhook records an outcome on a payment that is there.                *)
LEMMA RecordOutcomeOK ==
  ASSUME IInv, NEW w \in Workers, NEW next \in {"post", "failed"}, RecordOutcome(w, next)
  PROVE  IInv'
<1> USE DEF IInv
<1>1. PICK j \in Job : j = jobs[w] /\ JobOK(j) /\ jobs[w] # Idle /\ j.at = "record"
  BY DEF RecordOutcome, At, TypeOK, JobsOK
<1>2. /\ j.op = "webhook" /\ j.id \in Bookings /\ j.tx \in Statuses
      /\ payments[j.id] \in Row /\ payments[j.id] # NoRow
  BY <1>1 DEF JobOK, TypeOK
<1> DEFINE row == [payments[j.id] EXCEPT !.status = RecordedStatus(j.tx)]
<1>3. /\ row \in Row /\ row # NoRow /\ row.amount = payments[j.id].amount
      /\ row.status \in {"SETTLEMENT", "EXPIRE"}
  BY <1>2, SentinelAssumption DEF Row, PaymentStatus, RecordedStatus
<1>4. /\ payments' = [payments EXCEPT ![j.id] = row]
      /\ Step(w, next) /\ UNCHANGED <<totals, refunds>>
  BY <1>1, <1>2 DEF RecordOutcome
<1>5. /\ payments'[j.id] = row /\ \A b \in Bookings : b # j.id => payments'[b] = payments[b]
      /\ payments' \in [Bookings -> Row \cup {NoRow}]
  BY <1>2, <1>3, <1>4 DEF TypeOK
<1> HIDE DEF row
<1>6. Grows
  BY <1>3, <1>4, <1>5 DEF Grows
<1>7. PICK i \in Job : i = [jobs[w] EXCEPT !.at = "post"]
  BY <1>1 DEF Job
<1>8. i.op = "webhook" /\ i.id = j.id /\ i.at = "post" /\ i.tx = j.tx
  BY <1>1, <1>2, <1>7 DEF Job
<1>9. JobOK(i)'
  BY <1>2, <1>3, <1>5, <1>8 DEF JobOK
<1>10. JobsOK' /\ jobs' \in [Workers -> Job \cup {Idle}]
  BY <1>1, <1>4, <1>6, <1>7, <1>9, WriteKeepsJobs
<1>11. TypeOK'
  BY <1>4, <1>5, <1>10 DEF TypeOK
<1>12. PaymentsBooked' /\ PaidInFull' /\ RefundRecorded'
  BY <1>2, <1>3, <1>4, <1>5 DEF PaymentsBooked, PaidInFull, RefundRecorded
<1>13. PaidOnce'
  BY <1>1, <1>2, <1>4, PaidOnceKept
<1>14. QED
  BY <1>10, <1>11, <1>12, <1>13

(* A refund row is written before anything else is done.                   *)
LEMMA PersistRefundOK ==
  ASSUME IInv, NEW w \in Workers, NEW next \in {"mark", "failed"}, PersistRefund(w, next)
  PROVE  IInv'
<1> USE DEF IInv
<1>1. PICK j \in Job : j = jobs[w] /\ JobOK(j) /\ jobs[w] # Idle /\ j.at = "persist"
  BY DEF PersistRefund, At, TypeOK, JobsOK
<1>2. j.op = "refund" /\ j.id \in PaymentIds /\ (Known(j.id) \/ j.id = Unknown)
  BY <1>1 DEF JobOK, Job
<1>3. /\ refunds' = [refunds EXCEPT ![j.id] = @ + 1] /\ refunds[j.id] < MaxRefunds
      /\ Step(w, next) /\ UNCHANGED <<totals, payments>>
  BY <1>1 DEF PersistRefund
<1>4. /\ refunds'[j.id] > 0
      /\ \A p \in PaymentIds : p # j.id => refunds'[p] = refunds[p]
      /\ refunds' \in [PaymentIds -> 0..MaxRefunds]
  BY <1>2, <1>3, SentinelAssumption DEF TypeOK
<1>5. Grows
  BY <1>3, <1>4 DEF Grows
<1>6. PICK i \in Job : i = [jobs[w] EXCEPT !.at = "mark"]
  BY <1>1 DEF Job
<1>7. i.op = "refund" /\ i.id = j.id /\ i.at = "mark"
  BY <1>1, <1>2, <1>6 DEF Job
<1>8. JobOK(i)'
  BY <1>2, <1>3, <1>4, <1>7 DEF JobOK, Known
<1>9. JobsOK' /\ jobs' \in [Workers -> Job \cup {Idle}]
  BY <1>1, <1>3, <1>5, <1>6, <1>8, WriteKeepsJobs
<1>10. TypeOK'
  BY <1>3, <1>4, <1>9 DEF TypeOK
<1>11. PaymentsBooked' /\ PaidInFull' /\ RefundRecorded'
  BY <1>3, <1>4 DEF PaymentsBooked, PaidInFull, RefundRecorded, PaymentIds
<1>12. PaidOnce'
  BY <1>1, <1>2, <1>3, PaidOnceKept
<1>13. QED
  BY <1>9, <1>10, <1>11, <1>12

(* A payment is marked only by a request that has written its refund row.  *)
LEMMA MarkRefundedOK ==
  ASSUME IInv, NEW w \in Workers, NEW answer \in Answer, MarkRefunded(w, answer)
  PROVE  IInv'
<1> USE DEF IInv
<1>1. PICK j \in Job : j = jobs[w] /\ JobOK(j) /\ jobs[w] # Idle /\ j.at = "mark"
  BY DEF MarkRefunded, At, TypeOK, JobsOK
<1>2. /\ j.op = "refund" /\ j.id \in PaymentIds /\ refunds[j.id] > 0
      /\ answer \in {"ok", "failed"}
  BY <1>1 DEF JobOK, Job, Answer
<1>3. CASE ~Known(j.id)
  <2>1. Step(w, "failed") /\ UNCHANGED <<totals, payments, refunds>>
    BY <1>1, <1>3 DEF MarkRefunded
  <2>2. QED
    BY <1>1, <1>2, <2>1, MoveOK
<1>4. CASE Known(j.id)
  <2>1. j.id \in Bookings /\ payments[j.id] \in Row /\ payments[j.id] # NoRow
    BY <1>4 DEF Known, TypeOK
  <2> DEFINE row == [payments[j.id] EXCEPT !.status = "REFUNDED"]
  <2>2. row \in Row /\ row # NoRow /\ row.amount = payments[j.id].amount
    BY <2>1, SentinelAssumption DEF Row, PaymentStatus
  <2>3. /\ payments' = [payments EXCEPT ![j.id] = row]
        /\ Step(w, answer) /\ UNCHANGED <<totals, refunds>>
    BY <1>1, <1>4, <2>1 DEF MarkRefunded
  <2>4. /\ payments'[j.id] = row /\ \A b \in Bookings : b # j.id => payments'[b] = payments[b]
        /\ payments' \in [Bookings -> Row \cup {NoRow}]
    BY <2>1, <2>2, <2>3 DEF TypeOK
  <2> HIDE DEF row
  <2>5. Grows
    BY <2>2, <2>3, <2>4 DEF Grows
  <2>6. PICK i \in Job : i = [jobs[w] EXCEPT !.at = "ok"]
    BY <1>1 DEF Job
  <2>7. i.op = "refund" /\ i.id = j.id /\ i.at = "ok"
    BY <1>1, <1>2, <2>6 DEF Job
  <2>8. JobOK(i)'
    BY <1>2, <2>1, <2>2, <2>3, <2>4, <2>7 DEF JobOK, Known
  <2>9. JobsOK' /\ jobs' \in [Workers -> Job \cup {Idle}]
    BY <1>1, <1>2, <2>3, <2>5, <2>6, <2>8, WriteKeepsJobs
  <2>10. TypeOK'
    BY <2>3, <2>4, <2>9 DEF TypeOK
  <2>11. PaymentsBooked' /\ PaidInFull' /\ RefundRecorded'
    BY <1>2, <2>1, <2>2, <2>3, <2>4 DEF PaymentsBooked, PaidInFull, RefundRecorded
  <2>12. PaidOnce'
    BY <1>1, <1>2, <2>3, PaidOnceKept
  <2>13. QED
    BY <2>9, <2>10, <2>11, <2>12
<1>5. QED
  BY <1>3, <1>4

(* A booking appears before anything is paid for it and goes at any time.  *)
LEMMA BookingsOK ==
  ASSUME IInv, NEW b \in Bookings,
         BookingDeleted(b) \/ \E t \in Totals : BookingInserted(b, t)
  PROVE  IInv'
<1> USE DEF IInv
<1>1. UNCHANGED <<payments, refunds, jobs>>
  BY DEF BookingDeleted, BookingInserted
<1>2. PICK row \in [phase : {"none", "live", "deleted"}, total : Totals \cup {0}] :
        /\ totals' = [totals EXCEPT ![b] = row]
        /\ \/ totals[b].phase = "none" /\ row.phase = "live"
           \/ totals[b].phase = "live" /\ row.phase = "deleted"
  <2>1. CASE BookingDeleted(b)
    <3> WITNESS [phase |-> "deleted", total |-> 0]
                  \in [phase : {"none", "live", "deleted"}, total : Totals \cup {0}]
    <3> QED
      BY <2>1 DEF BookingDeleted
  <2>2. ASSUME NEW t \in Totals, BookingInserted(b, t)
        PROVE  \E row \in [phase : {"none", "live", "deleted"}, total : Totals \cup {0}] :
                 /\ totals' = [totals EXCEPT ![b] = row]
                 /\ totals[b].phase = "none" /\ row.phase = "live"
    <3> WITNESS [phase |-> "live", total |-> t]
                  \in [phase : {"none", "live", "deleted"}, total : Totals \cup {0}]
    <3> QED
      BY <2>2 DEF BookingInserted
  <2>3. QED
    BY <2>1, <2>2
<1>4. totals'[b] = row /\ \A c \in Bookings : c # b => totals'[c] = totals[c]
  BY <1>2 DEF TypeOK, BookingTable
<1>5. Grows
  BY <1>1, <1>2, <1>4 DEF Grows
<1>6. TypeOK'
  BY <1>1, <1>2 DEF TypeOK, BookingTable
<1>7. JobsOK'
  <2> SUFFICES ASSUME NEW w \in Workers, jobs[w] # Idle PROVE JobOK(jobs[w])'
    BY <1>1 DEF JobsOK
  <2>1. PICK j \in Job : j = jobs[w] /\ j = jobs'[w]
    BY <1>1 DEF TypeOK
  <2>2. JobOK(j)'
    BY <1>5, <2>1, JobKept DEF JobsOK
  <2>3. QED
    BY <2>1, <2>2 DEF JobOK, Known
<1>8. PaymentsBooked' /\ PaidInFull'
  BY <1>1, <1>2, <1>4 DEF PaymentsBooked, PaidInFull
<1>9. RefundRecorded' /\ PaidOnce'
  BY <1>1 DEF RefundRecorded, PaidOnce, At
<1>10. QED
  BY <1>6, <1>7, <1>8, <1>9

LEMMA HandlerStepOK ==
  ASSUME IInv, NEW w \in Workers, HandlerStep(w)
  PROVE  IInv'
BY CheckTotalOK, FindPaymentOK, InsertPaymentOK, MarkRefundedOK, RecordOutcomeOK,
   PersistRefundOK, FailOK DEF HandlerStep

(* Every step keeps the invariant.                                         *)
LEMMA NextOK == IInv /\ [Next]_vars => IInv'
<1> SUFFICES ASSUME IInv, [Next]_vars PROVE IInv'
  OBVIOUS
<1>1. ASSUME NEW w \in Workers,
             \/ \E b \in Bookings, amount \in Amounts : StartPay(w, b, amount)
             \/ \E p \in PaymentIds : StartRefund(w, p)
             \/ \E b \in Bookings, tx \in Statuses : StartWebhook(w, b, tx)
      PROVE  IInv'
  BY <1>1, StartPayOK, StartRefundOK, StartWebhookOK
<1>2. ASSUME NEW w \in Workers, PostLost(w) \/ PostTimeout(w) \/ LateLost(w)
      PROVE  IInv'
  BY <1>2, PostOK DEF PostLost, PostTimeout, LateLost
<1>3. ASSUME NEW w \in Workers, NEW answer \in Answer, PostDelivered(w, answer), UNCHANGED totals
      PROVE  IInv'
  BY <1>3, PostOK DEF PostDelivered, Answer
<1>4. ASSUME NEW w \in Workers, LateDelivered(w), UNCHANGED totals
      PROVE  IInv'
  BY <1>4, PostOK DEF LateDelivered
<1>5. CASE UNCHANGED vars
  BY <1>5 DEF vars, IInv, TypeOK, JobsOK, JobOK, Known, PaymentsBooked, PaidInFull,
     RefundRecorded, PaidOnce, At
<1>6. CASE OwnStep
  BY <1>1, <1>2, <1>6, HandlerStepOK, CrashOK DEF OwnStep
<1>7. QED
  BY <1>1, <1>3, <1>4, <1>5, <1>6, BookingsOK DEF Next

-----------------------------------------------------------------------------
(* What a step does to payments and webhooks.                              *)

(* A step never removes a payment or makes one with an outcome pending.    *)
LEMMA KeptStep ==
  ASSUME IInv, Next
  PROVE  \A b \in Bookings : payments[b] # NoRow =>
           /\ payments'[b] # NoRow
           /\ payments'[b].status = "PENDING" => payments[b].status = "PENDING"
<1> DEFINE Kept == \A b \in Bookings : payments[b] # NoRow =>
                     /\ payments'[b] # NoRow
                     /\ payments'[b].status = "PENDING" => payments[b].status = "PENDING"
<1> SUFFICES Kept
  OBVIOUS
<1> USE DEF IInv
<1>1. UNCHANGED payments => Kept
  OBVIOUS
<1>2. ASSUME NEW w \in Workers, NEW b \in Bookings, NEW s \in {"SETTLEMENT", "EXPIRE", "REFUNDED"},
             payments[b] # NoRow, payments' = [payments EXCEPT ![b].status = s]
      PROVE  Kept
  <2>1. payments[b] \in Row
    BY <1>2 DEF TypeOK
  <2>2. [payments[b] EXCEPT !.status = s] \in Row /\ [payments[b] EXCEPT !.status = s].status = s
    BY <2>1 DEF Row, PaymentStatus
  <2>3. payments' = [payments EXCEPT ![b] = [payments[b] EXCEPT !.status = s]]
    BY <1>2
  <2>4. QED
    BY <2>2, <2>3, SentinelAssumption DEF TypeOK
<1>3. ASSUME NEW w \in Workers, NEW answer \in Answer, InsertPayment(w, answer) PROVE Kept
  <2>1. jobs[w].id \in Bookings
    BY <1>3 DEF InsertPayment, At, JobsOK, JobOK
  <2>2. QED
    BY <1>3, <2>1 DEF InsertPayment, TypeOK
<1>4. ASSUME NEW w \in Workers, NEW next \in {"post", "failed"}, RecordOutcome(w, next) PROVE Kept
  <2>1. jobs[w].id \in Bookings /\ payments[jobs[w].id] # NoRow
    BY <1>4 DEF RecordOutcome, At, JobsOK, JobOK
  <2>2. RecordedStatus(jobs[w].tx) \in {"SETTLEMENT", "EXPIRE", "REFUNDED"}
    BY DEF RecordedStatus
  <2>3. QED
    BY <1>2, <1>4, <2>1, <2>2 DEF RecordOutcome
<1>5. ASSUME NEW w \in Workers, NEW answer \in Answer, MarkRefunded(w, answer) PROVE Kept
  BY <1>1, <1>2, <1>5 DEF MarkRefunded, Known
<1>6. ASSUME NEW w \in Workers, HandlerStep(w) PROVE Kept
  <2> HIDE DEF Kept
  <2>1. CheckTotal(w) \/ FindPayment(w) \/ Fail(w)
          \/ (\E next \in {"mark", "failed"} : PersistRefund(w, next)) => UNCHANGED payments
    BY DEF CheckTotal, FindPayment, Fail, PersistRefund
  <2>2. QED
    BY <1>1, <1>3, <1>4, <1>5, <1>6, <2>1 DEF HandlerStep
<1> HIDE DEF Kept
<1>7. CASE OwnStep
  <2>1. ASSUME NEW w \in Workers,
               \/ \E b \in Bookings, amount \in Amounts : StartPay(w, b, amount)
               \/ \E p \in PaymentIds : StartRefund(w, p)
               \/ PostLost(w) \/ PostTimeout(w) \/ LateLost(w)
        PROVE  UNCHANGED payments
    BY <2>1 DEF StartPay, StartRefund, Begin, PostLost, PostTimeout, LateLost
  <2>2. Crash => UNCHANGED payments
    BY DEF Crash
  <2>3. QED
    BY <1>1, <1>6, <1>7, <2>1, <2>2 DEF OwnStep
<1>8. CASE ~OwnStep
  <2>1. UNCHANGED payments
    BY <1>8 DEF Next, StartWebhook, Begin, PostDelivered, LateDelivered, BookingDeleted,
       BookingInserted
  <2>2. QED
    BY <1>1, <2>1
<1>9. QED
  BY <1>7, <1>8

(* Each call that writes is a step of the ledger: what the calls before it *)
(* found out about the payment, the booking or the refund still holds.     *)
LEMMA WriteIsLedgerStep ==
  ASSUME IInv, NEW w \in Workers, HandlerStep(w)
  PROVE  Ledger!Next \/ UNCHANGED <<totals, payments, refunds>>
<1> USE DEF IInv
<1>1. ASSUME NEW answer \in Answer, InsertPayment(w, answer), ~UNCHANGED payments
      PROVE  Ledger!Next
  <2>1. PICK j \in Job : j = jobs[w] /\ JobOK(j) /\ j.at = "insert"
    BY <1>1 DEF InsertPayment, At, TypeOK, JobsOK
  <2>2. j.id \in Bookings /\ j.amount \in Amounts /\ Ledger!Owed(j.id, j.amount)
    BY <2>1 DEF JobOK, Ledger!Owed
  <2>3. Ledger!Pay(j.id, j.amount)
    BY <1>1, <2>1, <2>2 DEF InsertPayment, Ledger!Pay, Ledger!Paid
  <2>4. QED
    BY <2>2, <2>3 DEF Ledger!Next
<1>2. ASSUME NEW b \in Bookings, NEW s \in {"SETTLEMENT", "EXPIRE", "REFUNDED"},
             payments[b] # NoRow, Ledger!Earned(b, s),
             payments' = [payments EXCEPT ![b].status = s], UNCHANGED <<totals, refunds>>
      PROVE  Ledger!Next
  <2>1. Ledger!Move(b, s)
    BY <1>2 DEF Ledger!Move, Ledger!Paid
  <2>2. QED
    BY <2>1 DEF Ledger!Next
<1>3. ASSUME NEW next \in {"post", "failed"}, RecordOutcome(w, next)
      PROVE  Ledger!Next
  <2>1. PICK j \in Job : j = jobs[w] /\ JobOK(j) /\ j.at = "record"
    BY <1>3 DEF RecordOutcome, At, TypeOK, JobsOK
  <2>2. j.id \in Bookings /\ payments[j.id] # NoRow
    BY <2>1 DEF JobOK
  <2>3. RecordedStatus(j.tx) \in {"SETTLEMENT", "EXPIRE"}
    BY DEF RecordedStatus
  <2>4. QED
    BY <1>2, <1>3, <2>1, <2>2, <2>3 DEF RecordOutcome, Ledger!Earned
<1>4. ASSUME NEW answer \in Answer, MarkRefunded(w, answer), ~UNCHANGED payments
      PROVE  Ledger!Next
  <2>1. PICK j \in Job : j = jobs[w] /\ JobOK(j) /\ j.at = "mark"
    BY <1>4 DEF MarkRefunded, At, TypeOK, JobsOK
  <2>2. Known(j.id) /\ refunds[j.id] > 0
    BY <1>4, <2>1 DEF MarkRefunded, JobOK
  <2>3. QED
    BY <1>2, <1>4, <2>1, <2>2 DEF MarkRefunded, Known, Ledger!Earned
<1>5. ASSUME NEW next \in {"mark", "failed"}, PersistRefund(w, next)
      PROVE  Ledger!Next
  <2>1. PICK j \in Job : j = jobs[w] /\ JobOK(j) /\ j.at = "persist"
    BY <1>5 DEF PersistRefund, At, TypeOK, JobsOK
  <2>2. j.id \in Bookings \cup {Unknown} /\ (Known(j.id) \/ j.id = Unknown)
    BY <2>1 DEF JobOK, Job, PaymentIds
  <2>3. Ledger!AddRefund(j.id)
    BY <1>5, <2>1, <2>2, SentinelAssumption DEF PersistRefund, Known, Ledger!AddRefund, Ledger!Paid
  <2>4. QED
    BY <2>2, <2>3 DEF Ledger!Next
<1>6. CASE CheckTotal(w) \/ FindPayment(w) \/ Fail(w)
  BY <1>6 DEF CheckTotal, FindPayment, Fail
<1>7. ASSUME NEW answer \in Answer, InsertPayment(w, answer) \/ MarkRefunded(w, answer)
      PROVE  Ledger!Next \/ UNCHANGED <<totals, payments, refunds>>
  <2>1. UNCHANGED <<totals, refunds>>
    BY <1>7 DEF InsertPayment, MarkRefunded
  <2>2. QED
    BY <1>1, <1>4, <1>7, <2>1
<1>8. QED
  BY <1>3, <1>5, <1>6, <1>7 DEF HandlerStep

(* And every other step is one of the bookings' or leaves the tables.      *)
LEMMA StepIsLedgerStep ==
  ASSUME IInv, Next
  PROVE  Ledger!Next \/ UNCHANGED <<totals, payments, refunds>>
<1>1. ASSUME NEW b \in Bookings, BookingDeleted(b) \/ \E t \in Totals : BookingInserted(b, t)
      PROVE  Ledger!Next
  <2>1. Ledger!Unbook(b) \/ \E t \in Totals : Ledger!Book(b, t)
    BY <1>1 DEF BookingDeleted, BookingInserted, Ledger!Unbook, Ledger!Book
  <2>2. QED
    BY <2>1 DEF Ledger!Next
<1>2. ASSUME NEW w \in Workers,
             \/ \E b \in Bookings, amount \in Amounts : StartPay(w, b, amount)
             \/ \E p \in PaymentIds : StartRefund(w, p)
             \/ \E b \in Bookings, tx \in Statuses : StartWebhook(w, b, tx)
             \/ PostLost(w) \/ PostTimeout(w) \/ LateLost(w)
             \/ \E answer \in Answer : PostDelivered(w, answer) /\ UNCHANGED totals
             \/ LateDelivered(w) /\ UNCHANGED totals
      PROVE  UNCHANGED <<totals, payments, refunds>>
  BY <1>2 DEF StartPay, StartRefund, StartWebhook, Begin, PostLost, PostTimeout, LateLost,
     PostDelivered, LateDelivered
<1>3. Crash => UNCHANGED <<totals, payments, refunds>>
  BY DEF Crash
<1>4. CASE OwnStep
  BY <1>2, <1>3, <1>4, WriteIsLedgerStep DEF OwnStep
<1>5. CASE ~OwnStep
  BY <1>1, <1>2, <1>5 DEF Next
<1>6. QED
  BY <1>4, <1>5

(* A step of a request leaves the others alone, and does not make another  *)
(* request of it.                                                          *)
LEMMA OneJob ==
  ASSUME IInv, NEW w \in Workers, Busy(w),
         NEW at \in {"insert", "record", "post", "mark", "late", "ok", "failed"}, Step(w, at),
         NEW v \in Workers, jobs'[v] # Idle
  PROVE  /\ jobs[v] # Idle /\ jobs'[v].op = jobs[v].op
         /\ jobs'[v].id = jobs[v].id /\ jobs'[v].tx = jobs[v].tx
         /\ jobs'[v].at # "ok" => jobs[v].at # "ok"
         /\ jobs'[v].at = "ok" /\ jobs[v].at # "ok" => v = w /\ at = "ok"
BY StepEffect DEF IInv, Busy

(* A webhook in hand is one that was begun as it is; and the service on    *)
(* its own answers ok only to a webhook that asks for nothing.             *)
LEMMA WebhookStep ==
  ASSUME IInv, OwnStep, NEW v \in Workers, jobs'[v] # Idle,
         jobs'[v].op = "webhook" \/ (Busy(v) /\ jobs[v].op = "webhook")
  PROVE  /\ jobs[v] # Idle /\ jobs[v].op = "webhook"
         /\ jobs'[v].id = jobs[v].id /\ jobs'[v].tx = jobs[v].tx
         /\ jobs'[v].at # "ok" => jobs[v].at # "ok"
         /\ jobs'[v].at = "ok" /\ jobs[v].at # "ok" =>
              ~Settled(jobs[v].tx) /\ ~Expired(jobs[v].tx)
<1> DEFINE Goal == /\ jobs[v] # Idle /\ jobs[v].op = "webhook"
                   /\ jobs'[v].id = jobs[v].id /\ jobs'[v].tx = jobs[v].tx
                   /\ jobs'[v].at # "ok" => jobs[v].at # "ok"
                   /\ jobs'[v].at = "ok" /\ jobs[v].at # "ok" =>
                        ~Settled(jobs[v].tx) /\ ~Expired(jobs[v].tx)
<1> SUFFICES Goal
  OBVIOUS
<1> USE DEF IInv
<1>1. ASSUME NEW w \in Workers, ~Busy(w),
             NEW j, j.op # "webhook", jobs' = [jobs EXCEPT ![w] = j]
      PROVE  Goal
  BY <1>1 DEF TypeOK
<1>2. ASSUME NEW w \in Workers, Busy(w),
             NEW at \in {"insert", "record", "post", "mark", "late", "ok", "failed"}, Step(w, at),
             at = "ok" /\ jobs[w].op = "webhook" => ~Settled(jobs[w].tx) /\ ~Expired(jobs[w].tx)
      PROVE  Goal
  BY <1>2, OneJob
<1> HIDE DEF Goal
<1>3. ASSUME NEW w \in Workers, NEW b \in Bookings, NEW amount \in Amounts, StartPay(w, b, amount)
      PROVE  Goal
  BY <1>1, <1>3 DEF StartPay, Begin
<1>4. ASSUME NEW w \in Workers, NEW p \in PaymentIds, StartRefund(w, p)
      PROVE  Goal
  BY <1>1, <1>4 DEF StartRefund, Begin
<1>5. ASSUME NEW w \in Workers, CheckTotal(w) \/ Fail(w) \/ PostLost(w) \/ PostTimeout(w) \/ LateLost(w)
      PROVE  Goal
  BY <1>2, <1>5 DEF CheckTotal, Fail, PostLost, PostTimeout, LateLost, At, Busy, Running
<1>6. ASSUME NEW w \in Workers, FindPayment(w) PROVE Goal
  BY <1>2, <1>6 DEF FindPayment, At, Busy
<1>7. ASSUME NEW w \in Workers, NEW answer \in Answer,
             InsertPayment(w, answer) \/ MarkRefunded(w, answer)
      PROVE  Goal
  <2>1. Busy(w) /\ jobs[w].op # "webhook"
    BY <1>7 DEF InsertPayment, MarkRefunded, At, Busy, JobsOK, JobOK
  <2>2. Step(w, answer) \/ Step(w, "failed")
    BY <1>7 DEF InsertPayment, MarkRefunded
  <2>3. QED
    BY <1>2, <2>1, <2>2 DEF Answer
<1>8. ASSUME NEW w \in Workers,
             \/ \E next \in {"post", "failed"} : RecordOutcome(w, next)
             \/ \E next \in {"mark", "failed"} : PersistRefund(w, next)
      PROVE  Goal
  BY <1>2, <1>8 DEF RecordOutcome, PersistRefund, At, Busy
<1>9. CASE Crash
  <2>1. /\ jobs[v] # Idle /\ jobs[v] \in Job /\ jobs[v].at \in {"post", "late"}
        /\ jobs'[v] = [jobs[v] EXCEPT !.at = "late"]
    BY <1>9 DEF Crash, At, TypeOK
  <2>2. QED
    BY <2>1 DEF Goal, Job
<1>10. QED
  BY <1>3, <1>4, <1>5, <1>6, <1>7, <1>8, <1>9 DEF OwnStep, HandlerStep

-----------------------------------------------------------------------------
(* The theorems.                                                           *)

(* The inductive invariant holds in every reachable state.                 *)
THEOREM Invariant == Spec => []IInv
BY InitOK, NextOK, PTL DEF Spec

(* Every variable keeps its type.                                          *)
THEOREM TypeCorrect == Spec => []TypeOK
<1>1. IInv => TypeOK
  BY DEF IInv
<1>2. QED
  BY <1>1, Invariant, PTL

(* A payment is for the total of its booking, although the total is read   *)
(* and the payment inserted in two calls.                                  *)
THEOREM PaidInFullAlways == Spec => []PaidInFull
<1>1. IInv => PaidInFull
  BY DEF IInv
<1>2. QED
  BY <1>1, Invariant, PTL

(* A payment on record as refunded has a refund row.                       *)
THEOREM RefundRecordedAlways == Spec => []RefundRecorded
<1>1. IInv => RefundRecorded
  BY DEF IInv
<1>2. QED
  BY <1>1, Invariant, PTL

(* A refund answered ok refunded a payment that exists.                    *)
THEOREM RefundAnswerHonestAlways == Spec => []RefundAnswerHonest
<1>1. IInv => RefundAnswerHonest
  BY DEF IInv, JobsOK, JobOK, RefundAnswerHonest, At
<1>2. QED
  BY <1>1, Invariant, PTL

(* Of any number of overlapping payments of a booking one is answered ok.  *)
THEOREM PaidOnceAlways == Spec => []PaidOnce
<1>1. IInv => PaidOnce
  BY DEF IInv
<1>2. QED
  BY <1>1, Invariant, PTL

(* A payment stays, and its outcome is never undone to PENDING: not by a   *)
(* second payment, which the unique order id refuses.                      *)
THEOREM OutcomeKeptAlways == Spec => OutcomeKept
<1>1. IInv /\ [Next]_vars =>
        [\A b \in Bookings : payments[b] # NoRow =>
           /\ payments'[b] # NoRow
           /\ payments'[b].status = "PENDING" => payments[b].status = "PENDING"]_vars
  BY KeptStep
<1>2. QED
  BY <1>1, Invariant, PTL DEF Spec, OutcomeKept

(* Every behaviour of the service, each request call by call, is one of    *)
(* the ledger, where paying, an outcome and a refund are one step each.    *)
THEOREM Refinement == Spec => ImplementsLedger
<1>1. Init => Ledger!Init
  BY DEF Init, Ledger!Init, PaymentIds
<1>2. IInv /\ [Next]_vars => [Ledger!Next]_(Ledger!vars)
  <2>1. UNCHANGED vars => UNCHANGED Ledger!vars
    BY DEF vars, Ledger!vars
  <2>2. IInv /\ Next => Ledger!Next \/ UNCHANGED Ledger!vars
    BY StepIsLedgerStep DEF Ledger!vars
  <2>3. QED
    BY <2>1, <2>2
<1>3. QED
  BY <1>1, <1>2, Invariant, PTL DEF Spec, Ledger!Spec, ImplementsLedger

-----------------------------------------------------------------------------
(* Why requests are answered: what of Answered is not a matter of fairness. *)

(* The calls a request still has to make before its answer.                *)
CallsLeft(j) ==
  IF j = Idle \/ j.at \in {"late", "ok"} THEN 0
  ELSE IF j.at \in {"insert", "post", "mark"} THEN 1
  ELSE IF j.at \in {"total", "record", "persist"} THEN 2 ELSE 3

(* Whatever happens to a request under way, a call of its own or a crash,  *)
(* brings it nearer to its answer: none is set back, and none goes round.  *)
CallsCount ==
  [][\A w \in Workers : Running(w) /\ jobs'[w] # jobs[w] =>
       CallsLeft(jobs'[w]) < CallsLeft(jobs[w])]_vars

(* A request makes three calls at most, whatever the other services and    *)
(* requests do.                                                            *)
THEOREM CallsRunOut == Spec => CallsCount
<1> DEFINE Nearer(w) == Running(w) /\ jobs'[w] # jobs[w] =>
                          CallsLeft(jobs'[w]) < CallsLeft(jobs[w])
<1>1. ASSUME TypeOK, Next PROVE \A w \in Workers : Nearer(w)
  <2>0. jobs \in [Workers -> Job \cup {Idle}]
    BY <1>1 DEF TypeOK
  <2>1. ASSUME NEW w \in Workers, Running(w) PROVE CallsLeft(jobs[w]) > 0 /\ CallsLeft(Idle) = 0
    BY <2>0, <2>1 DEF CallsLeft, Running
  <2>2. ASSUME NEW w \in Workers, NEW at, Step(w, at), jobs[w] # Idle,
               \/ at \in {"failed", "late", "ok"}
               \/ at \in {"insert", "post", "mark"} /\ jobs[w].at \in {"total", "record", "persist"}
               \/ at = "record" /\ jobs[w].at = "find"
        PROVE  \A v \in Workers : Nearer(v)
    <3>1. \A v \in Workers : v # w => jobs'[v] = jobs[v]
      BY <2>0, <2>2 DEF Step
    <3>2. CASE at = "failed"
      <4>1. jobs'[w] = Idle
        BY <2>0, <2>2, <3>2 DEF Step
      <4>2. QED
        BY <2>1, <3>1, <4>1
    <3>3. CASE at # "failed"
      <4>1. jobs'[w] = [jobs[w] EXCEPT !.at = at] /\ jobs[w] \in Job
        BY <2>0, <2>2, <3>3 DEF Step
      <4>2. jobs'[w].at = at
        BY <4>1 DEF Job
      <4>3. Nearer(w)
        BY <2>2, <3>3, <4>2 DEF CallsLeft, Running
      <4>4. QED
        BY <3>1, <4>3
    <3>4. QED
      BY <3>2, <3>3
  <2>3. ASSUME NEW w \in Workers, HandlerStep(w) \/ PostLost(w) \/ PostTimeout(w)
                                   \/ LateLost(w) \/ LateDelivered(w)
        PROVE  \A v \in Workers : Nearer(v)
    <3>1. ASSUME Step(w, "failed") \/ Step(w, "late") \/ Step(w, "ok"), jobs[w] # Idle
          PROVE  \A v \in Workers : Nearer(v)
      BY <2>2, <3>1
    <3>2. CASE CheckTotal(w) \/ FindPayment(w)
      BY <2>2, <3>2 DEF CheckTotal, FindPayment, At
    <3>3. ASSUME NEW answer \in Answer, InsertPayment(w, answer) \/ MarkRefunded(w, answer)
          PROVE  \A v \in Workers : Nearer(v)
      BY <3>1, <3>3 DEF InsertPayment, MarkRefunded, At, Answer
    <3>4. ASSUME NEW next \in {"post", "failed"}, RecordOutcome(w, next)
          PROVE  \A v \in Workers : Nearer(v)
      BY <2>2, <3>4 DEF RecordOutcome, At
    <3>5. ASSUME NEW next \in {"mark", "failed"}, PersistRefund(w, next)
          PROVE  \A v \in Workers : Nearer(v)
      BY <2>2, <3>5 DEF PersistRefund, At
    <3>6. CASE Fail(w) \/ PostLost(w) \/ PostTimeout(w) \/ LateLost(w) \/ LateDelivered(w)
      BY <3>1, <3>6 DEF Fail, PostLost, PostTimeout, LateLost, LateDelivered, At, Running
    <3>7. QED
      BY <2>3, <3>2, <3>3, <3>4, <3>5, <3>6 DEF HandlerStep
  <2>4. ASSUME NEW w \in Workers, NEW answer \in Answer, PostDelivered(w, answer)
        PROVE  \A v \in Workers : Nearer(v)
    BY <2>2, <2>4 DEF PostDelivered, At, Answer
  <2>5. CASE Crash
    <3> SUFFICES ASSUME NEW w \in Workers, Running(w)
                 PROVE  CallsLeft(jobs'[w]) < CallsLeft(jobs[w])
      OBVIOUS
    <3>1. CASE At(w, "post")
      <4>1. jobs'[w] = [jobs[w] EXCEPT !.at = "late"] /\ jobs[w] \in Job
        BY <2>0, <2>5, <3>1 DEF Crash, At
      <4>2. jobs'[w].at = "late"
        BY <4>1 DEF Job
      <4>3. CallsLeft(jobs'[w]) = 0
        BY <4>2 DEF CallsLeft
      <4>4. QED
        BY <2>0, <3>1, <4>3 DEF CallsLeft, At
    <3>2. CASE ~At(w, "post")
      <4>1. jobs'[w] = Idle
        BY <2>5, <3>2 DEF Crash, At, Running
      <4>2. QED
        BY <2>1, <4>1
    <3>3. QED
      BY <3>1, <3>2
  <2>6. ASSUME NEW w \in Workers, NEW op, NEW id, NEW amount, NEW tx, NEW at,
               Begin(w, op, id, amount, tx, at)
        PROVE  \A v \in Workers : Nearer(v)
    BY <2>0, <2>6 DEF Begin, Busy, Running
  <2>7. CASE UNCHANGED jobs
    BY <2>7
  <2> HIDE DEF Nearer
  <2>8. QED
    BY <1>1, <2>3, <2>4, <2>5, <2>6, <2>7 DEF Next, OwnStep, StartPay, StartRefund,
       StartWebhook, BookingInserted, BookingDeleted
<1>2. ASSUME UNCHANGED vars PROVE \A w \in Workers : Nearer(w)
  BY <1>2 DEF vars
<1>3. QED
  BY <1>1, <1>2, TypeCorrect, PTL DEF Spec, CallsCount
=============================================================================
