----------------------- MODULE BookingService_proofs -----------------------
(***************************************************************************)
(* Theorems about BookingService, for any number of bookings, users and    *)
(* concurrent requests.                                                    *)
(***************************************************************************)
EXTENDS BookingService, TLAPS

(* The table and its history agree on the status of a row.                 *)
HistoryOK ==
  \A b \in Bookings : Exists(b) => bookings[b].status \in attained[b]

(* A request is about a booking that was created before it started.        *)
RequestsIssued == \A r \in Requests : req[r] # Idle => Issued(req[r].id)

(* The inductive invariant.  Entitled is what is left of a guard when its  *)
(* row has changed; RequestsIssued keeps a request from meeting a booking  *)
(* that is created after it started; OkMeansDone is why of two deletes     *)
(* past their guard only one finds the row.                                *)
IInv ==
  /\ TypeOK
  /\ HistoryOK
  /\ RequestsIssued
  /\ StayWasPaid
  /\ Entitled
  /\ OkMeansDone
  /\ DeleteAnsweredOnce

-----------------------------------------------------------------------------
(* The effects of the building blocks.                                     *)

(* A request slot that takes a step keeps its request and moves on, or is  *)
(* freed; no other slot is touched.                                        *)
LEMMA StepEffect ==
  ASSUME TypeOK, NEW r \in Requests, Running(r),
         NEW at \in {"write", "ok", "failed"}, Step(r, at)
  PROVE  /\ req' \in [Requests -> Handler \cup {Idle}]
         /\ \A q \in Requests : q # r => req'[q] = req[q]
         /\ at = "failed" => req'[r] = Idle
         /\ at # "failed" =>
              /\ req'[r] # Idle
              /\ req'[r].op = req[r].op
              /\ req'[r].id = req[r].id
              /\ req'[r].user = req[r].user
              /\ req'[r].at = at
<1>1. req[r] \in Handler /\ req \in [Requests -> Handler \cup {Idle}]
  BY DEF TypeOK, Running
<1>2. [req[r] EXCEPT !.at = at] \in Handler \/ at = "failed"
  BY <1>1 DEF Handler
<1>3. QED
  BY <1>1, <1>2, SentinelAssumption DEF Step, Handler

(* repo.UpdateStatus keeps every row but for one status, and adds that     *)
(* status to the history of a row that exists.                             *)
LEMMA UpdateEffect ==
  ASSUME TypeOK, NEW b \in Bookings, NEW s \in Status, UpdateStatus(b, s)
  PROVE  /\ bookings' \in [Bookings -> Row \cup {NoRow}]
         /\ attained' \in [Bookings -> SUBSET Status]
         /\ \A c \in Bookings :
              /\ Exists(c)' <=> Exists(c)
              /\ Exists(c) => /\ bookings'[c].user = bookings[c].user
                              /\ bookings'[c].total = bookings[c].total
              /\ c # b => bookings'[c] = bookings[c] /\ attained'[c] = attained[c]
         /\ Exists(b) => bookings'[b].status = s /\ attained'[b] = attained[b] \cup {s}
         /\ ~Exists(b) => UNCHANGED dbVars
<1>1. CASE Exists(b)
  <2>1. bookings[b] \in Row
    BY <1>1 DEF TypeOK, Exists
  <2>2. [bookings[b] EXCEPT !.status = s] \in Row
    BY <2>1 DEF Row
  <2>3. bookings' = [bookings EXCEPT ![b] = [bookings[b] EXCEPT !.status = s]]
    BY <1>1 DEF UpdateStatus, TypeOK
  <2>4. attained' = [attained EXCEPT ![b] = @ \cup {s}]
    BY <1>1 DEF UpdateStatus
  <2>5. attained[b] \cup {s} \in SUBSET Status
    BY DEF TypeOK
  <2>6. /\ [bookings[b] EXCEPT !.status = s].user = bookings[b].user
        /\ [bookings[b] EXCEPT !.status = s].total = bookings[b].total
        /\ [bookings[b] EXCEPT !.status = s].status = s
    BY <2>1 DEF Row
  <2>7. QED
    BY <1>1, <2>2, <2>3, <2>4, <2>5, <2>6, SentinelAssumption DEF TypeOK, Exists
<1>2. CASE ~Exists(b)
  BY <1>2 DEF UpdateStatus, TypeOK, dbVars, Exists
<1>3. QED
  BY <1>1, <1>2
-----------------------------------------------------------------------------
(* What each kind of step keeps.                                           *)

(* A status write with its cause keeps what is said of the tables, and     *)
(* leaves every request what it was entitled to.                           *)
LEMMA UpdateKeeps ==
  ASSUME IInv, NEW b \in Bookings, NEW s \in Status, UpdateStatus(b, s),
         s = "CHECKED_IN"  => "PAID" \in attained[b],
         s = "CHECKED_OUT" => "CHECKED_IN" \in attained[b]
  PROVE  /\ HistoryOK' /\ StayWasPaid'
         /\ \A c \in Bookings : attained[c] \subseteq attained'[c]
<1> USE DEF IInv
<1>1. \A c \in Bookings : attained[c] \subseteq attained'[c]
  BY UpdateEffect DEF dbVars
<1>2. HistoryOK'
  <2> SUFFICES ASSUME NEW c \in Bookings, Exists(c)'
               PROVE  bookings'[c].status \in attained'[c]
    BY DEF HistoryOK, Exists
  <2>1. Exists(c)
    BY UpdateEffect
  <2>2. CASE c = b
    BY <2>1, <2>2, UpdateEffect
  <2>3. CASE c # b
    BY <2>1, <2>3, UpdateEffect DEF HistoryOK, Exists
  <2>4. QED
    BY <2>2, <2>3
<1>3. StayWasPaid'
  <2> SUFFICES ASSUME NEW c \in Bookings
               PROVE  /\ "CHECKED_IN"  \in attained'[c] => "PAID" \in attained'[c]
                      /\ "CHECKED_OUT" \in attained'[c] => "CHECKED_IN" \in attained'[c]
    BY DEF StayWasPaid
  <2>1. CASE c = b /\ Exists(b)
    BY <2>1, UpdateEffect DEF StayWasPaid
  <2>2. CASE c # b \/ ~Exists(b)
    BY <2>2, UpdateEffect DEF StayWasPaid, dbVars
  <2>3. QED
    BY <2>1, <2>2
<1>4. QED
  BY <1>1, <1>2, <1>3

(* The initial states satisfy the invariant.                               *)
LEMMA InitOK == Init => IInv
BY DEF Init, IInv, TypeOK, HistoryOK, RequestsIssued, StayWasPaid, Entitled,
       OkMeansDone, DeleteAnsweredOnce, Exists, Issued

(* A new booking: no request is about it, no history contradicts it.       *)
LEMMA PostBookingOK ==
  ASSUME IInv, NEW b \in Bookings, NEW u \in Users, NEW t \in Totals, PostBooking(b, u, t)
  PROVE  IInv'
<1> USE DEF IInv, PostBooking
<1>1. [user |-> u, total |-> t, status |-> "UNPAID"] \in Row
  BY DEF Row, Status
<1>2. TypeOK'
  BY <1>1 DEF TypeOK, Status
<1>3. /\ bookings'[b] = [user |-> u, total |-> t, status |-> "UNPAID"]
      /\ attained'[b] = {"UNPAID"}
      /\ \A c \in Bookings : c # b => bookings'[c] = bookings[c] /\ attained'[c] = attained[c]
  BY DEF TypeOK
<1>4. HistoryOK' /\ StayWasPaid'
  BY <1>3 DEF HistoryOK, StayWasPaid, Exists
<1>5. \A r \in Requests : req[r] # Idle => req[r].id \in Bookings /\ req[r].id # b
  BY DEF RequestsIssued, TypeOK, Handler
<1>6. RequestsIssued' /\ Entitled' /\ OkMeansDone' /\ DeleteAnsweredOnce'
  BY <1>3, <1>5 DEF RequestsIssued, Entitled, OkMeansDone, DeleteAnsweredOnce, Exists, Issued
<1>7. QED
  BY <1>2, <1>4, <1>6

(* A request starts with nothing decided yet.                              *)
LEMMA StartOK ==
  ASSUME IInv, NEW r \in Requests, NEW op \in Ops, NEW b \in Bookings, NEW u \in Users,
         Start(r, op, b, u)
  PROVE  IInv'
<1> USE DEF IInv, Start
<1>1. [op |-> op, id |-> b, user |-> u, at |-> "load"] \in Handler
  BY DEF Handler
<1>2. TypeOK'
  BY <1>1 DEF TypeOK, dbVars
<1>3. /\ req'[r] = [op |-> op, id |-> b, user |-> u, at |-> "load"]
      /\ \A q \in Requests : q # r => req'[q] = req[q]
  BY DEF TypeOK
<1>4. UNCHANGED dbVars
  OBVIOUS
<1>5. QED
  BY <1>2, <1>3, <1>4 DEF HistoryOK, RequestsIssued, StayWasPaid, Entitled, OkMeansDone,
     DeleteAnsweredOnce, Exists, Issued, dbVars

(* A request that is answered an error leaves everything else as it is.    *)
LEMMA FailedOK ==
  ASSUME IInv, NEW r \in Requests, Running(r), Step(r, "failed"), UNCHANGED dbVars
  PROVE  IInv'
<1> USE DEF IInv
<1>1. TypeOK'
  BY StepEffect DEF TypeOK, dbVars
<1>2. QED
  BY <1>1, StepEffect DEF HistoryOK, RequestsIssued, StayWasPaid, Entitled, OkMeansDone,
     DeleteAnsweredOnce, Exists, Issued, dbVars

(* The guards establish what a request is entitled to.                     *)
LEMMA LoadOK ==
  ASSUME IInv, NEW r \in Requests, Load(r)
  PROVE  IInv'
<1> USE DEF IInv
<1>1. UNCHANGED dbVars /\ Running(r) /\ req[r] \in Handler /\ req[r] # Idle
  BY DEF Load, Running, TypeOK
<1>2. CASE Step(r, "failed")
  BY <1>1, <1>2, FailedOK
<1>3. CASE Step(r, "write") /\ Exists(req[r].id) /\ Allowed(req[r], bookings[req[r].id])
  <2>1. TypeOK'
    BY <1>1, <1>3, StepEffect DEF TypeOK, dbVars
  <2>2. req[r].id \in Bookings
    BY <1>1 DEF Handler
  <2>3. IF req[r].op = "delete" THEN bookings[req[r].id].user = req[r].user
        ELSE Required(req[r].op) \in attained[req[r].id]
    BY <1>3, <2>2 DEF Allowed, MayCheckIn, MayCheckOut, MayRefund, MayDelete, Required, HistoryOK
  <2>4. Entitled'
    BY <1>1, <1>3, <2>3, StepEffect DEF Entitled, Exists, dbVars
  <2>5. QED
    BY <1>1, <1>3, <2>1, <2>4, StepEffect DEF HistoryOK, RequestsIssued, StayWasPaid,
       OkMeansDone, DeleteAnsweredOnce, Exists, Issued, dbVars
<1>4. QED
  BY <1>2, <1>3 DEF Load, Exists

(* Only a request past its guard writes a status, and the guard's reason   *)
(* is still in the history.                                                *)
LEMMA WriteStatusOK ==
  ASSUME IInv, NEW r \in Requests, NEW answer \in Answer, WriteStatus(r, answer)
  PROVE  IInv'
<1> USE DEF IInv
<1> DEFINE b == req[r].id
           s == Target(req[r].op)
<1>1. /\ Running(r) /\ req[r] \in Handler /\ req[r] # Idle /\ b \in Bookings
      /\ req[r].op \in {"checkin", "checkout", "refund"} /\ req[r].at = "write"
  BY DEF WriteStatus, Running, TypeOK, Handler, Ops
<1>2. s \in Status /\ UpdateStatus(b, s) /\ Step(r, answer)
  BY <1>1 DEF WriteStatus, Target, Status
<1>3. Required(req[r].op) \in attained[b]
  BY <1>1 DEF Entitled
<1>4. /\ s = "CHECKED_IN"  => "PAID" \in attained[b]
      /\ s = "CHECKED_OUT" => "CHECKED_IN" \in attained[b]
  BY <1>1, <1>3 DEF Target, Required
<1> HIDE DEF b, s
<1>5. HistoryOK' /\ StayWasPaid' /\ \A c \in Bookings : attained[c] \subseteq attained'[c]
  BY <1>1, <1>2, <1>4, UpdateKeeps
<1>6. answer \in {"ok", "failed"}
  BY DEF Answer
<1>7. TypeOK'
  BY <1>1, <1>2, <1>6, UpdateEffect, StepEffect DEF TypeOK
<1>8. \A c \in Bookings : /\ Exists(c)' <=> Exists(c)
                          /\ Exists(c) => bookings'[c].user = bookings[c].user
  BY <1>1, <1>2, UpdateEffect
<1>9. \A q \in Requests : req'[q] # Idle =>
        /\ req[q] # Idle /\ req'[q].op = req[q].op /\ req'[q].id = req[q].id
        /\ req'[q].user = req[q].user /\ req[q].id \in Bookings
        /\ q # r => req'[q].at = req[q].at
        /\ q = r => req'[q].at = "ok"
  BY <1>1, <1>2, <1>6, StepEffect DEF TypeOK, Handler
<1>10. RequestsIssued'
  BY <1>5, <1>9 DEF RequestsIssued, Issued
<1>11. Entitled'
  BY <1>1, <1>5, <1>8, <1>9 DEF Entitled
<1>12. Exists(b) => s \in attained'[b]
  BY <1>1, <1>2, UpdateEffect
<1>13. OkMeansDone'
  BY <1>1, <1>5, <1>8, <1>9, <1>12 DEF OkMeansDone, b, s
<1>14. DeleteAnsweredOnce'
  BY <1>1, <1>9 DEF DeleteAnsweredOnce
<1>15. QED
  BY <1>5, <1>7, <1>10, <1>11, <1>13, <1>14

(* A delete takes the row of its own user; the ok of an earlier delete of  *)
(* the booking is impossible, since the row is still there.                *)
LEMMA DeleteRowOK ==
  ASSUME IInv, NEW r \in Requests, NEW answer \in Answer, DeleteRow(r, answer)
  PROVE  IInv'
<1> USE DEF IInv
<1>0. PICK b \in Bookings : b = req[r].id
  BY DEF DeleteRow, Running, TypeOK, Handler
<1>1. /\ Running(r) /\ req[r] \in Handler /\ req[r] # Idle /\ b = req[r].id
      /\ req[r].op = "delete" /\ answer \in {"ok", "failed"}
  BY <1>0 DEF DeleteRow, Running, TypeOK, Handler, Answer
<1>2. CASE Exists(b) /\ Delete(b) /\ Step(r, answer)
  <2>1. /\ ~Exists(b)' /\ attained' = attained
        /\ \A c \in Bookings : c # b => bookings'[c] = bookings[c]
    BY <1>1, <1>2 DEF Delete, TypeOK, Exists
  <2>2. TypeOK'
    BY <1>1, <1>2, <2>1, StepEffect DEF Delete, TypeOK
  <2>3. \A q \in Requests : req'[q] # Idle =>
          /\ req[q] # Idle /\ req'[q].op = req[q].op /\ req'[q].id = req[q].id
          /\ req'[q].user = req[q].user /\ req[q].id \in Bookings
          /\ q # r => req'[q].at = req[q].at
    BY <1>1, <1>2, StepEffect DEF TypeOK, Handler
  <2>4. HistoryOK' /\ StayWasPaid' /\ RequestsIssued'
    BY <2>1, <2>3 DEF HistoryOK, StayWasPaid, RequestsIssued, Exists, Issued
  <2>5. \A c \in Bookings : Exists(c)' => Exists(c) /\ bookings'[c] = bookings[c]
    BY <2>1 DEF Exists
  <2>6. Entitled' /\ OkMeansDone'
    BY <1>1, <2>1, <2>3, <2>5 DEF Entitled, OkMeansDone
  <2>7. \A q \in Requests : req[q] # Idle /\ req[q].op = "delete" /\ req[q].id = b
                           => req[q].at # "ok"
    BY <1>2 DEF OkMeansDone
  <2>8. DeleteAnsweredOnce'
    <3> SUFFICES ASSUME NEW p \in Requests, NEW q \in Requests,
                        req'[p] # Idle, req'[p].op = "delete", req'[p].at = "ok",
                        req'[q] # Idle, req'[q].op = "delete", req'[q].at = "ok",
                        req'[p].id = req'[q].id
                 PROVE  p = q
      BY DEF DeleteAnsweredOnce
    <3>1. CASE p # r /\ q # r
      BY <2>3, <3>1 DEF DeleteAnsweredOnce
    <3>2. CASE p = r \/ q = r
      BY <1>1, <2>3, <2>7, <3>2
    <3>3. QED
      BY <3>1, <3>2
  <2>9. QED
    BY <2>2, <2>4, <2>6, <2>8
<1>3. CASE UNCHANGED dbVars /\ Step(r, "failed")
  BY <1>1, <1>3, FailedOK
<1>4. QED
  BY <1>1, <1>2, <1>3 DEF DeleteRow

(* An error frees the slot and nothing else.                               *)
LEMMA FailOK == ASSUME IInv, NEW r \in Requests, Fail(r) PROVE IInv'
BY FailedOK DEF Fail

(* A crash frees every slot and nothing else.                              *)
LEMMA CrashOK == ASSUME IInv, Crash PROVE IInv'
BY DEF IInv, Crash, TypeOK, HistoryOK, RequestsIssued, StayWasPaid, Entitled,
       OkMeansDone, DeleteAnsweredOnce, Exists, Issued, dbVars

(* A post from the payment service writes none of the statuses a guest has *)
(* to earn.                                                                *)
LEMMA PostInternalOK ==
  ASSUME IInv, NEW b \in Bookings, NEW posted \in Posted, PostInternalUpdateStatus(b, posted)
  PROVE  IInv'
<1> USE DEF IInv
<1> DEFINE s == StatusOf(posted)
<1>1. s \in {"PAID", "REFUNDED", "CANCELLED"} /\ UpdateStatus(b, s) /\ req' = req
  BY DEF PostInternalUpdateStatus, StatusOf, Posted
<1> HIDE DEF s
<1>2. s \in Status
  BY <1>1 DEF Status
<1>3. HistoryOK' /\ StayWasPaid' /\ \A c \in Bookings : attained[c] \subseteq attained'[c]
  BY <1>1, <1>2, UpdateKeeps
<1>4. TypeOK'
  BY <1>1, <1>2, UpdateEffect DEF TypeOK
<1>5. \A c \in Bookings : /\ Exists(c)' <=> Exists(c)
                          /\ Exists(c) => bookings'[c].user = bookings[c].user
  BY <1>1, <1>2, UpdateEffect
<1>6. \A r \in Requests : req[r] # Idle => req[r].id \in Bookings
  BY DEF TypeOK, Handler
<1>7. RequestsIssued' /\ Entitled' /\ OkMeansDone' /\ DeleteAnsweredOnce'
  BY <1>1, <1>3, <1>5, <1>6 DEF RequestsIssued, Entitled, OkMeansDone, DeleteAnsweredOnce, Issued
<1>8. QED
  BY <1>3, <1>4, <1>7

(* Every step keeps the invariant.                                         *)
LEMMA NextOK == IInv /\ [Next]_vars => IInv'
<1> SUFFICES ASSUME IInv, [Next]_vars PROVE IInv'
  OBVIOUS
<1>1. ASSUME NEW b \in Bookings, NEW u \in Users, NEW t \in Totals, PostBooking(b, u, t)
      PROVE  IInv'
  BY <1>1, PostBookingOK
<1>2. ASSUME NEW r \in Requests, NEW op \in Ops, NEW b \in Bookings, NEW u \in Users,
             Start(r, op, b, u)
      PROVE  IInv'
  BY <1>2, StartOK
<1>3. ASSUME NEW r \in Requests, RequestStep(r) PROVE IInv'
  BY <1>3, LoadOK, WriteStatusOK, DeleteRowOK, FailOK DEF RequestStep
<1>4. CASE Crash
  BY <1>4, CrashOK
<1>5. ASSUME NEW b \in Bookings, NEW posted \in Posted, PostInternalUpdateStatus(b, posted)
      PROVE  IInv'
  BY <1>5, PostInternalOK
<1>6. CASE UNCHANGED vars
  BY <1>6 DEF vars, IInv, TypeOK, HistoryOK, RequestsIssued, StayWasPaid, Entitled,
     OkMeansDone, DeleteAnsweredOnce, Exists, Issued
<1>7. QED
  BY <1>1, <1>2, <1>3, <1>4, <1>5, <1>6 DEF Next, OwnStep

-----------------------------------------------------------------------------
(* The theorems.                                                           *)

(* The inductive invariant holds in every reachable state.                 *)
THEOREM Invariant == Spec => []IInv
BY InitOK, NextOK, PTL DEF Spec

(* Every variable keeps its type.                                          *)
THEOREM TypeCorrect == Spec => []TypeOK
<1>1. IInv => TypeOK
  BY DEF IInv
<1>2. QED
  BY <1>1, Invariant, PTL

(* No stay without payment and no departure without arrival, whatever      *)
(* happens between the read and the write of a request.                    *)
THEOREM StayWasPaidAlways == Spec => []StayWasPaid
<1>1. IInv => StayWasPaid
  BY DEF IInv
<1>2. QED
  BY <1>1, Invariant, PTL

(* Requests past their guard, and those answered ok, were entitled to      *)
(* their effect.                                                           *)
THEOREM EntitledAlways == Spec => []Entitled
<1>1. IInv => Entitled
  BY DEF IInv
<1>2. QED
  BY <1>1, Invariant, PTL

(* An answer ok means that the request had its effect.                     *)
THEOREM OkMeansDoneAlways == Spec => []OkMeansDone
<1>1. IInv => OkMeansDone
  BY DEF IInv
<1>2. QED
  BY <1>1, Invariant, PTL

(* Of any number of overlapping deletes of a booking one is answered ok.   *)
THEOREM DeleteAnsweredOnceAlways == Spec => []DeleteAnsweredOnce
<1>1. IInv => DeleteAnsweredOnce
  BY DEF IInv
<1>2. QED
  BY <1>1, Invariant, PTL

-----------------------------------------------------------------------------
(* What one step does to one row.                                          *)

(* The rows a step leaves, changes or removes, and why.                    *)
LEMMA RowStep ==
  ASSUME IInv, Next, NEW b \in Bookings
  PROVE  \/ bookings'[b] = bookings[b] /\ attained'[b] = attained[b]
         \/ /\ ~Issued(b) /\ ~Exists(b) /\ bookings'[b] \in Row
            /\ bookings'[b].status = "UNPAID" /\ attained'[b] = {"UNPAID"}
         \/ /\ Exists(b) /\ bookings'[b] = NoRow /\ attained'[b] = attained[b]
            /\ \E r \in Requests : /\ req[r] # Idle /\ req[r].op = "delete"
                                   /\ req[r].id = b /\ req[r].user = bookings[b].user
         \/ /\ Exists(b) /\ bookings'[b] \in Row
            /\ bookings'[b].user = bookings[b].user /\ bookings'[b].total = bookings[b].total
            /\ bookings'[b].status \in Status
            /\ attained'[b] = attained[b] \cup {bookings'[b].status}
            /\ \/ bookings'[b].status \in {"PAID", "REFUNDED", "CANCELLED"}
               \/ bookings'[b].status = "CHECKED_IN"  /\ "PAID" \in attained[b]
               \/ bookings'[b].status = "CHECKED_OUT" /\ "CHECKED_IN" \in attained[b]
<1> USE DEF IInv
<1>1. ASSUME NEW c \in Bookings, NEW s \in Status, UpdateStatus(c, s),
             \/ s \in {"PAID", "REFUNDED", "CANCELLED"}
             \/ s = "CHECKED_IN"  /\ "PAID" \in attained[c]
             \/ s = "CHECKED_OUT" /\ "CHECKED_IN" \in attained[c]
      PROVE  \/ bookings'[b] = bookings[b] /\ attained'[b] = attained[b]
             \/ /\ Exists(b) /\ bookings'[b] \in Row
                /\ bookings'[b].user = bookings[b].user /\ bookings'[b].total = bookings[b].total
                /\ bookings'[b].status \in Status
                /\ attained'[b] = attained[b] \cup {bookings'[b].status}
                /\ \/ bookings'[b].status \in {"PAID", "REFUNDED", "CANCELLED"}
                   \/ bookings'[b].status = "CHECKED_IN"  /\ "PAID" \in attained[b]
                   \/ bookings'[b].status = "CHECKED_OUT" /\ "CHECKED_IN" \in attained[b]
  <2>1. CASE c = b /\ Exists(b)
    <3>1. bookings'[b].status = s /\ attained'[b] = attained[b] \cup {s}
      BY <1>1, <2>1, UpdateEffect
    <3>2. bookings'[b] \in Row
      BY <1>1, <2>1, UpdateEffect DEF Exists
    <3>3. QED
      BY <1>1, <2>1, <3>1, <3>2, UpdateEffect
  <2>2. CASE c # b \/ ~Exists(b)
    BY <1>1, <2>2, UpdateEffect DEF dbVars
  <2>3. QED
    BY <2>1, <2>2
<1>2. ASSUME NEW c \in Bookings, NEW u \in Users, NEW t \in Totals, PostBooking(c, u, t)
      PROVE  \/ bookings'[b] = bookings[b] /\ attained'[b] = attained[b]
             \/ /\ ~Issued(b) /\ ~Exists(b) /\ bookings'[b] \in Row
                /\ bookings'[b].status = "UNPAID" /\ attained'[b] = {"UNPAID"}
  <2>1. [user |-> u, total |-> t, status |-> "UNPAID"] \in Row
    BY DEF Row, Status
  <2>2. QED
    BY <1>2, <2>1 DEF PostBooking, TypeOK, HistoryOK, Issued
<1>3. ASSUME NEW r \in Requests, NEW answer \in Answer, WriteStatus(r, answer)
      PROVE  \E c \in Bookings, s \in Status :
               /\ UpdateStatus(c, s)
               /\ \/ s \in {"PAID", "REFUNDED", "CANCELLED"}
                  \/ s = "CHECKED_IN"  /\ "PAID" \in attained[c]
                  \/ s = "CHECKED_OUT" /\ "CHECKED_IN" \in attained[c]
  <2>1. /\ req[r] # Idle /\ req[r] \in Handler /\ req[r].at = "write"
        /\ req[r].op \in {"checkin", "checkout", "refund"} /\ req[r].id \in Bookings
    BY <1>3 DEF WriteStatus, Running, TypeOK, Handler, Ops
  <2>2. Required(req[r].op) \in attained[req[r].id]
    BY <2>1 DEF Entitled
  <2>3. /\ Target(req[r].op) \in Status
        /\ \/ Target(req[r].op) \in {"PAID", "REFUNDED", "CANCELLED"}
           \/ Target(req[r].op) = "CHECKED_IN"  /\ "PAID" \in attained[req[r].id]
           \/ Target(req[r].op) = "CHECKED_OUT" /\ "CHECKED_IN" \in attained[req[r].id]
    BY <2>1, <2>2 DEF Target, Required, Status
  <2>4. QED
    BY <1>3, <2>1, <2>3 DEF WriteStatus
<1>4. ASSUME NEW r \in Requests, NEW answer \in Answer, DeleteRow(r, answer)
      PROVE  \/ bookings'[b] = bookings[b] /\ attained'[b] = attained[b]
             \/ /\ Exists(b) /\ bookings'[b] = NoRow /\ attained'[b] = attained[b]
                /\ req[r] # Idle /\ req[r].op = "delete"
                /\ req[r].id = b /\ req[r].user = bookings[b].user
  <2>1. /\ req[r] # Idle /\ req[r] \in Handler /\ req[r].at = "write"
        /\ req[r].op = "delete" /\ req[r].id \in Bookings
    BY <1>4 DEF DeleteRow, Running, TypeOK, Handler
  <2>2. Exists(req[r].id) => bookings[req[r].id].user = req[r].user
    BY <2>1 DEF Entitled
  <2>3. QED
    BY <1>4, <2>1, <2>2 DEF DeleteRow, Delete, dbVars, TypeOK
<1>5. ASSUME NEW c \in Bookings, NEW posted \in Posted, PostInternalUpdateStatus(c, posted)
      PROVE  \E s \in {"PAID", "REFUNDED", "CANCELLED"} : UpdateStatus(c, s)
  BY <1>5 DEF PostInternalUpdateStatus, StatusOf, Posted
<1>6. {"PAID", "REFUNDED", "CANCELLED"} \subseteq Status
  BY DEF Status
<1>7. ASSUME UNCHANGED dbVars
      PROVE  bookings'[b] = bookings[b] /\ attained'[b] = attained[b]
  BY <1>7 DEF dbVars
<1>8. ASSUME NEW r \in Requests, NEW op \in Ops, NEW c \in Bookings, NEW u \in Users,
             Start(r, op, c, u)
      PROVE  UNCHANGED dbVars
  BY <1>8 DEF Start
<1>9. ASSUME NEW r \in Requests, Load(r) \/ Fail(r)
      PROVE  UNCHANGED dbVars
  BY <1>9 DEF Load, Fail
<1>10. CASE \E r \in Requests : RequestStep(r)
  BY <1>1, <1>3, <1>4, <1>7, <1>9, <1>10 DEF RequestStep
<1>11. CASE Crash
  BY <1>7, <1>11 DEF Crash
<1>12. QED
  BY <1>1, <1>2, <1>5, <1>6, <1>7, <1>8, <1>10, <1>11 DEF Next, OwnStep

(* The service's own steps never mark a booking paid: that takes a post.   *)
LEMMA OwnNeverPays ==
  ASSUME IInv, OwnStep, NEW b \in Bookings, "PAID" \in attained'[b]
  PROVE  "PAID" \in attained[b]
<1> USE DEF IInv
<1>1. UNCHANGED attained => "PAID" \in attained[b]
  OBVIOUS
<1>2. ASSUME NEW c \in Bookings, NEW u \in Users, NEW t \in Totals, PostBooking(c, u, t)
      PROVE  "PAID" \in attained[b]
  BY <1>2 DEF PostBooking, TypeOK
<1>3. ASSUME NEW r \in Requests, NEW answer \in Answer, WriteStatus(r, answer)
      PROVE  "PAID" \in attained[b]
  <2>1. req[r] \in Handler /\ req[r].op \in {"checkin", "checkout", "refund"}
    BY <1>3 DEF WriteStatus, Running, TypeOK, Handler, Ops
  <2>2. Target(req[r].op) # "PAID"
    BY <2>1 DEF Target
  <2>3. QED
    BY <1>3, <2>1, <2>2 DEF WriteStatus, UpdateStatus, TypeOK, dbVars, Handler
<1>4. ASSUME NEW r \in Requests, NEW answer \in Answer, DeleteRow(r, answer)
      PROVE  UNCHANGED attained
  BY <1>4 DEF DeleteRow, Delete, dbVars
<1>5. ASSUME NEW r \in Requests, RequestStep(r)
      PROVE  "PAID" \in attained[b]
  BY <1>1, <1>3, <1>4, <1>5 DEF RequestStep, Load, Fail, dbVars
<1>6. QED
  BY <1>1, <1>2, <1>5 DEF OwnStep, Start, Crash, dbVars

-----------------------------------------------------------------------------
(* Theorems about steps.                                                   *)

(* A deleted booking never comes back: not by a write decided before the   *)
(* delete, not by a late post, not by a new booking.                       *)
THEOREM DeletedForGood == Spec => DeletedStaysDeleted
<1>1. IInv /\ [Next]_vars => [\A b \in Bookings : Issued(b) /\ ~Exists(b) => ~Exists(b)']_vars
  <2> SUFFICES ASSUME IInv, Next, NEW b \in Bookings, Issued(b), ~Exists(b)
               PROVE  ~Exists(b)'
    OBVIOUS
  <2>1. bookings'[b] = bookings[b]
    BY RowStep
  <2>2. QED
    BY <2>1 DEF Exists
<1>2. QED
  BY <1>1, Invariant, PTL DEF Spec, DeletedStaysDeleted

(* A row is removed only by a delete of its owner, and its owner and total *)
(* never change.                                                           *)
THEOREM OnlyOwner == Spec => OnlyOwnerDeletes
<1>1. IInv /\ [Next]_vars =>
        [\A b \in Bookings : Exists(b) =>
           IF Exists(b)'
           THEN /\ bookings'[b].user  = bookings[b].user
                /\ bookings'[b].total = bookings[b].total
           ELSE \E r \in Requests :
                  /\ req[r] # Idle /\ req[r].op = "delete"
                  /\ req[r].id = b /\ req[r].user = bookings[b].user]_vars
  <2> SUFFICES ASSUME IInv, Next, NEW b \in Bookings, Exists(b)
               PROVE  IF Exists(b)'
                      THEN /\ bookings'[b].user  = bookings[b].user
                           /\ bookings'[b].total = bookings[b].total
                      ELSE \E r \in Requests :
                             /\ req[r] # Idle /\ req[r].op = "delete"
                             /\ req[r].id = b /\ req[r].user = bookings[b].user
    OBVIOUS
  <2>1. QED
    BY RowStep, SentinelAssumption DEF Exists
<1>2. QED
  BY <1>1, Invariant, PTL DEF Spec, OnlyOwnerDeletes

-----------------------------------------------------------------------------
(* The service implements the abstract life of a booking.                  *)

(* A row's step is a step of its life, or leaves it alone.                 *)
LEMMA PhaseStep ==
  ASSUME IInv, Next, NEW b \in Bookings
  PROVE  \/ phase'[b] = phase[b] /\ attained'[b] = attained[b]
         \/ phase[b] = "NONE" /\ phase'[b] = "UNPAID" /\ attained'[b] = {"UNPAID"}
         \/ phase[b] \in Status /\ phase'[b] = "DELETED" /\ attained'[b] = attained[b]
         \/ /\ phase[b] \in Status /\ phase'[b] \in Status /\ Lifecycle!Earned(b, phase'[b])
            /\ attained'[b] = attained[b] \cup {phase'[b]}
<1>1. phase[b] = IF Exists(b) THEN bookings[b].status
                 ELSE IF Issued(b) THEN "DELETED" ELSE "NONE"
  BY DEF phase
<1>2. phase'[b] = IF bookings'[b] # NoRow THEN bookings'[b].status
                  ELSE IF attained'[b] # {} THEN "DELETED" ELSE "NONE"
  BY DEF phase, Exists, Issued
<1>3. Exists(b) => bookings[b].status \in Status /\ attained[b] # {}
  BY DEF IInv, TypeOK, HistoryOK, Exists, Row
<1>4. \A x \in Row : x # NoRow /\ x.status \in Status
  BY SentinelAssumption DEF Row
<1>5. QED
  BY <1>1, <1>2, <1>3, <1>4, RowStep DEF Exists, Issued, Lifecycle!Earned

(* One step touches the row and the history of one booking at most.        *)
LEMMA OneRow ==
  ASSUME IInv, Next
  PROVE  \/ UNCHANGED dbVars
         \/ \E c \in Bookings : \A b \in Bookings :
              b # c => bookings'[b] = bookings[b] /\ attained'[b] = attained[b]
<1> USE DEF IInv
<1> DEFINE Only(c) == \A b \in Bookings :
                        b # c => bookings'[b] = bookings[b] /\ attained'[b] = attained[b]
<1>1. ASSUME NEW c \in Bookings, NEW u \in Users, NEW t \in Totals, PostBooking(c, u, t)
      PROVE  Only(c)
  BY <1>1 DEF PostBooking, TypeOK
<1>2. ASSUME NEW c \in Bookings, NEW s, UpdateStatus(c, s)
      PROVE  Only(c)
  BY <1>2 DEF UpdateStatus, TypeOK, dbVars
<1>3. ASSUME NEW r \in Requests, NEW answer \in Answer,
             WriteStatus(r, answer) \/ DeleteRow(r, answer)
      PROVE  req[r].id \in Bookings /\ Only(req[r].id)
  <2>1. req[r] \in Handler
    BY <1>3 DEF WriteStatus, DeleteRow, Running, TypeOK
  <2>2. req[r].id \in Bookings
    BY <2>1 DEF Handler
  <2>3. CASE WriteStatus(r, answer)
    BY <1>2, <2>2, <2>3 DEF WriteStatus
  <2>4. CASE DeleteRow(r, answer)
    BY <2>2, <2>4 DEF DeleteRow, Delete, dbVars, TypeOK
  <2>5. QED
    BY <1>3, <2>2, <2>3, <2>4
<1>4. ASSUME NEW c \in Bookings, NEW posted \in Posted, PostInternalUpdateStatus(c, posted)
      PROVE  Only(c)
  BY <1>2, <1>4 DEF PostInternalUpdateStatus
<1>5. ASSUME NEW r \in Requests, RequestStep(r)
      PROVE  UNCHANGED dbVars \/ \E c \in Bookings : Only(c)
  BY <1>3, <1>5 DEF RequestStep, Load, Fail
<1> HIDE DEF Only
<1>6. UNCHANGED dbVars \/ \E c \in Bookings : Only(c)
  BY <1>1, <1>4, <1>5 DEF Next, OwnStep, Start, Crash
<1>7. QED
  BY <1>6 DEF Only

(* Every behaviour of the service is one the abstract specification        *)
(* allows: ids issued once, deletes final, stays paid for.                 *)
THEOREM Refinement == Spec => ImplementsLifecycle
<1>1. Init => Lifecycle!Init
  BY DEF Init, Lifecycle!Init, phase, Exists, Issued
<1>2. IInv /\ [Next]_vars => [Lifecycle!Next]_(Lifecycle!vars)
  <2> SUFFICES ASSUME IInv, [Next]_vars
               PROVE  Lifecycle!Next \/ UNCHANGED <<phase, attained>>
    BY DEF Lifecycle!vars
  <2>1. CASE UNCHANGED dbVars
    BY <2>1 DEF dbVars, phase, Exists, Issued
  <2>2. CASE UNCHANGED vars
    BY <2>2 DEF vars, phase, Exists, Issued
  <2>3. ASSUME Next, NEW c \in Bookings,
               \A b \in Bookings :
                 b # c => bookings'[b] = bookings[b] /\ attained'[b] = attained[b]
        PROVE  Lifecycle!Next \/ UNCHANGED <<phase, attained>>
    <3>1. attained \in [Bookings -> SUBSET Status] /\ attained' \in [Bookings -> SUBSET Status]
      BY <2>3, NextOK DEF IInv, TypeOK
    <3>2. phase = [b \in Bookings |-> phase[b]] /\ phase' = [b \in Bookings |-> phase'[b]]
      BY DEF phase, Exists, Issued
    <3>3. \A b \in Bookings : b # c => phase'[b] = phase[b]
      BY <2>3 DEF phase, Exists, Issued
    <3>4. phase' = [phase EXCEPT ![c] = phase'[c]]
      BY <3>2, <3>3
    <3>5. attained' = [attained EXCEPT ![c] = attained'[c]]
      BY <2>3, <3>1
    <3> HIDE DEF phase
    <3>6. CASE phase'[c] = phase[c] /\ attained'[c] = attained[c]
      BY <3>1, <3>2, <3>4, <3>5, <3>6
    <3>7. CASE phase[c] = "NONE" /\ phase'[c] = "UNPAID" /\ attained'[c] = {"UNPAID"}
      <4>1. Lifecycle!Create(c)
        BY <3>4, <3>5, <3>7 DEF Lifecycle!Create
      <4>2. QED
        BY <4>1 DEF Lifecycle!Next
    <3>8. CASE phase[c] \in Status /\ phase'[c] = "DELETED" /\ attained'[c] = attained[c]
      <4>1. Lifecycle!Delete(c)
        BY <3>1, <3>4, <3>5, <3>8 DEF Lifecycle!Delete, Lifecycle!Live, Lifecycle!Status, Status
      <4>2. QED
        BY <4>1 DEF Lifecycle!Next
    <3>9. CASE /\ phase[c] \in Status /\ phase'[c] \in Status /\ Lifecycle!Earned(c, phase'[c])
               /\ attained'[c] = attained[c] \cup {phase'[c]}
      <4>1. Lifecycle!Move(c, phase'[c])
        BY <3>4, <3>5, <3>9 DEF Lifecycle!Move, Lifecycle!Live, Lifecycle!Status, Status
      <4>2. phase'[c] \in Lifecycle!Status
        BY <3>9 DEF Lifecycle!Status, Status
      <4>3. QED
        BY <4>1, <4>2 DEF Lifecycle!Next
    <3>10. QED
      BY <2>3, <3>6, <3>7, <3>8, <3>9, PhaseStep
  <2>4. QED
    BY <2>1, <2>2, <2>3, OneRow
<1>3. QED
  BY <1>1, <1>2, Invariant, PTL DEF Spec, Lifecycle!Spec, ImplementsLifecycle

-----------------------------------------------------------------------------
(* What the service asks of its repository: that a booking is created,     *)
(* changed and deleted as a whole.  Items are left out of this module; here *)
(* they stand for one thing that a booking has.                            *)
asked(b) ==
  IF Exists(b) THEN [phase |-> "live", status |-> bookings[b].status, lines |-> {"items"}]
  ELSE [phase |-> IF Issued(b) THEN "deleted" ELSE "none", status |-> "NONE", lines |-> {}]
askedStore == [b \in Bookings |-> asked(b)]

Asked == INSTANCE BookingStore WITH
  Statuses <- Status, Unpaid <- "UNPAID", Lines <- {"items"}, NoRow <- "NONE",
  store <- askedStore

(* Whatever its requests do to each other, the service does nothing to its *)
(* table but what BookingStore has: BookingRepository, which implements    *)
(* that, is all it needs.                                                  *)
THEOREM AsksBookingStore == Spec => Asked!Spec
<1>1. Init => Asked!Init
  BY DEF Init, Asked!Init, Asked!None, askedStore, asked, Exists, Issued
<1>2. IInv /\ [Next]_vars => [Asked!Next]_(Asked!vars)
  <2> SUFFICES ASSUME IInv, [Next]_vars PROVE Asked!Next \/ UNCHANGED askedStore
    BY DEF Asked!vars
  <2>1. CASE UNCHANGED dbVars
    BY <2>1 DEF dbVars, askedStore, asked, Exists, Issued
  <2>2. CASE UNCHANGED vars
    BY <2>2 DEF vars, askedStore, asked, Exists, Issued
  <2>3. ASSUME Next, NEW c \in Bookings,
               \A b \in Bookings :
                 b # c => bookings'[b] = bookings[b] /\ attained'[b] = attained[b]
        PROVE  Asked!Next \/ UNCHANGED askedStore
    <3>1. askedStore' = [askedStore EXCEPT ![c] = asked(c)']
      BY <2>3 DEF askedStore, asked, Exists, Issued
    <3>2. /\ Exists(c) => bookings[c].status \in Status /\ attained[c] # {}
          /\ \A x \in Row : x # NoRow /\ x.status \in Status
      <4>1. Exists(c) => bookings[c].status \in Status /\ attained[c] # {}
        BY DEF IInv, TypeOK, HistoryOK, Exists, Row
      <4>2. \A x \in Row : x # NoRow /\ x.status \in Status
        BY SentinelAssumption DEF Row
      <4>3. QED
        BY <4>1, <4>2
    <3> DEFINE now == asked(c)'
    <3>3. now = IF bookings'[c] # NoRow
                THEN [phase |-> "live", status |-> bookings'[c].status, lines |-> {"items"}]
                ELSE [phase |-> IF attained'[c] # {} THEN "deleted" ELSE "none",
                      status |-> "NONE", lines |-> {}]
      BY DEF asked, Exists, Issued
    <3>4. askedStore' = [askedStore EXCEPT ![c] = now]
      BY <3>1
    <3> HIDE DEF now
    <3>5. CASE bookings'[c] = bookings[c] /\ attained'[c] = attained[c]
      <4>1. now = asked(c)
        BY <3>5, <3>3 DEF asked, Exists, Issued
      <4>2. QED
        BY <3>4, <4>1 DEF askedStore
    <3>6. CASE ~Issued(c) /\ ~Exists(c) /\ bookings'[c] \in Row /\ bookings'[c].status = "UNPAID"
      <4>1. asked(c) = Asked!None /\ askedStore[c] = asked(c)
        BY <3>6 DEF Asked!None, askedStore, asked
      <4>2. now = [phase |-> "live", status |-> "UNPAID", lines |-> {"items"}]
        BY <3>2, <3>6, <3>3
      <4>3. Asked!Create(c, {"items"})
        BY <3>4, <4>1, <4>2 DEF Asked!Create
      <4>4. QED
        BY <4>3 DEF Asked!Next
    <3>7. CASE Exists(c) /\ bookings'[c] = NoRow /\ attained'[c] = attained[c]
      <4>1. askedStore[c].phase = "live" /\ now = Asked!Deleted
        BY <3>2, <3>7, <3>3 DEF askedStore, asked, Exists, Asked!None, Asked!Deleted
      <4>2. Asked!Delete(c)
        BY <3>4, <4>1 DEF Asked!Delete
      <4>3. QED
        BY <4>2 DEF Asked!Next
    <3>8. CASE Exists(c) /\ bookings'[c] \in Row
      <4> DEFINE s == bookings'[c].status
      <4>1. s \in Status
        BY <3>2, <3>8
      <4>2. /\ askedStore[c] = [phase |-> "live", status |-> bookings[c].status, lines |-> {"items"}]
            /\ now = [askedStore[c] EXCEPT !.status = s]
        BY <3>2, <3>3, <3>8 DEF askedStore, asked
      <4> HIDE DEF s
      <4>3. Asked!Update(c, s)
        BY <3>4, <4>2 DEF Asked!Update
      <4>4. QED
        BY <4>1, <4>3 DEF Asked!Next
    <3>9. QED
      BY <2>3, <3>5, <3>6, <3>7, <3>8, RowStep
  <2>4. QED
    BY <2>1, <2>2, <2>3, OneRow
<1>3. QED
  BY <1>1, <1>2, Invariant, PTL DEF Spec, Asked!Spec
=============================================================================
