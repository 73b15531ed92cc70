--------------------------- MODULE BookingService ---------------------------
(***************************************************************************)
(* The booking service: services/booking/internal.                         *)
(*                                                                         *)
(* Every HTTP request is served by a goroutine of its own.  Check-in,      *)
(* check-out, refund and delete first read the booking (repo.GetByID),     *)
(* decide on what they read, and then write (repo.UpdateStatus,            *)
(* repo.Delete) in a second database call; no lock and no transaction      *)
(* spans the two, so requests interleave between them.  The two calls are  *)
(* the two steps of a request here.  Creating a booking and the internal   *)
(* status update write once and are single steps.                          *)
(***************************************************************************)
EXTENDS FiniteSets, Integers

CONSTANTS Bookings,     \* booking ids (uuids: each is issued at most once)
          Users,        \* user ids found in bearer tokens
          Totals,       \* booking totals
          Requests,     \* request slots: how many requests run at a time
          NoRow,        \* marks an id with no row in booking.bookings
          Idle          \* marks a request slot that serves nobody

(* entity.Status: the values of the status column.                         *)
Status == {"UNPAID", "PAID", "CANCELLED", "CHECKED_IN", "CHECKED_OUT", "REFUNDED"}

Row == [user : Users, total : Totals, status : Status]

Ops == {"checkin", "checkout", "refund", "delete"}

(* at: the database call the request makes next, or "ok" once answered so. *)
(* A request answered an error leaves nothing behind: its slot is Idle.    *)
Handler == [op : Ops, id : Bookings, user : Users, at : {"load", "write", "ok"}]

ASSUME SentinelAssumption == NoRow \notin Row /\ Idle \notin Handler

VARIABLES bookings,     \* the table booking.bookings
          attained,     \* history: the statuses each booking has had
          req           \* what each request slot is doing

dbVars == <<bookings, attained>>
vars   == <<bookings, attained, req>>

TypeOK ==
  /\ bookings \in [Bookings -> Row \cup {NoRow}]
  /\ attained \in [Bookings -> SUBSET Status]
  /\ req      \in [Requests -> Handler \cup {Idle}]

Init ==
  /\ bookings = [b \in Bookings |-> NoRow]
  /\ attained = [b \in Bookings |-> {}]
  /\ req      = [r \in Requests |-> Idle]

Exists(b) == bookings[b] # NoRow
Issued(b) == attained[b] # {}
Running(r) == req[r] # Idle /\ req[r].at # "ok"

-----------------------------------------------------------------------------
(* What the repository does to the table.                                  *)

(* An UPDATE that used gorm's Save would insert the row it does not find.  *)
UpsertStatus(b, s) ==
  /\ bookings' = [bookings EXCEPT ![b] =
       IF Exists(b) THEN [@ EXCEPT !.status = s]
       ELSE [user |-> CHOOSE u \in Users : TRUE,
             total |-> CHOOSE t \in Totals : TRUE, status |-> s]]
  /\ attained' = [attained EXCEPT ![b] = @ \cup {s}]

(* An UPDATE that spares ended bookings, and still does not look whether it *)
(* changed a row.                                                           *)
UpdateUnlessEnded(b, s) ==
  IF Exists(b) /\ bookings[b].status \notin {"CANCELLED", "REFUNDED", "CHECKED_OUT"}
  THEN /\ bookings' = [bookings EXCEPT ![b].status = s]
       /\ attained' = [attained EXCEPT ![b] = @ \cup {s}]
  ELSE UNCHANGED dbVars

(* repo.UpdateStatus: an UPDATE without a check of RowsAffected, so that a *)
(* missing row is no error.                                                *)
UpdateStatus(b, s) ==
  IF Exists(b)
  THEN /\ bookings' = [bookings EXCEPT ![b].status = s]
       /\ attained' = [attained EXCEPT ![b] = @ \cup {s}]
  ELSE UNCHANGED dbVars

Delete(b) ==
  /\ bookings' = [bookings EXCEPT ![b] = NoRow]
  /\ UNCHANGED attained

-----------------------------------------------------------------------------
(* What the service decides on the row it has read.                        *)

(* Each guard has beside it the weaker one that a change to the code might *)
(* leave; the mutated models use it.                                       *)
CheckInUnlessEnded(row) == row.status \notin {"CHECKED_IN", "CANCELLED", "REFUNDED"}
MayCheckIn(row)  == row.status = "PAID"

CheckOutAnyPaid(row) == row.status \in {"PAID", "CHECKED_IN"}
MayCheckOut(row) == row.status = "CHECKED_IN"

RefundUnlessCancelled(row) == row.status # "CANCELLED"
MayRefund(row)   == row.status = "PAID"

DeleteAny(row, u) == TRUE
MayDelete(row, u) == row.user = u

Allowed(h, row) ==
  \/ h.op = "checkin"  /\ MayCheckIn(row)
  \/ h.op = "checkout" /\ MayCheckOut(row)
  \/ h.op = "refund"   /\ MayRefund(row)
  \/ h.op = "delete"   /\ MayDelete(row, h.user)

(* The status that an allowed request writes.                              *)
Target(op) ==
  CASE op = "checkin"  -> "CHECKED_IN"
    [] op = "checkout" -> "CHECKED_OUT"
    [] op = "refund"   -> "CANCELLED"

(* The status it must have found.                                          *)
Required(op) == IF op = "checkout" THEN "CHECKED_IN" ELSE "PAID"

-----------------------------------------------------------------------------
(* Creating a booking.                                                     *)

(* Service.Create: the price of every item comes from the catalog, the     *)
(* row and its items are inserted in one transaction, and the request for  *)
(* payment is a no-op.  Nothing is written before the transaction, so      *)
(* every failure on the way leaves no trace.                               *)
PostBooking(b, u, t) ==
  /\ ~Issued(b)
  /\ bookings' = [bookings EXCEPT ![b] = [user |-> u, total |-> t, status |-> "UNPAID"]]
  /\ attained' = [attained EXCEPT ![b] = {"UNPAID"}]
  /\ UNCHANGED req

-----------------------------------------------------------------------------
(* The life of a check-in, check-out, refund or delete request.            *)

Step(r, at) ==
  req' = [req EXCEPT ![r] = IF at = "failed" THEN Idle ELSE [@ EXCEPT !.at = at]]

(* A client can only name an id that it was once given.                    *)
Start(r, op, b, u) ==
  /\ ~Running(r)
  /\ Issued(b)
  /\ req' = [req EXCEPT ![r] = [op |-> op, id |-> b, user |-> u, at |-> "load"]]
  /\ UNCHANGED dbVars

(* repo.GetByID and the guards on what it returns.                         *)
Load(r) ==
  /\ Running(r) /\ req[r].at = "load"
  /\ LET row == bookings[req[r].id]
     IN  IF row # NoRow /\ Allowed(req[r], row)
         THEN Step(r, "write")
         ELSE Step(r, "failed")
  /\ UNCHANGED dbVars

(* repo.UpdateStatus of check-in, check-out and refund.  The answer "failed" *)
(* is the commit whose acknowledgement the service never got.               *)
WriteStatus(r, answer) ==
  /\ Running(r) /\ req[r].at = "write" /\ req[r].op # "delete"
  /\ UpdateStatus(req[r].id, Target(req[r].op))
  /\ Step(r, answer)

DeleteRowUnchecked(r, answer) ==
  /\ Running(r) /\ req[r].at = "write" /\ req[r].op = "delete"
  /\ Delete(req[r].id)
  /\ Step(r, answer)

(* repo.Delete: the items and the row in one transaction, rolled back when *)
(* no row was deleted.                                                     *)
DeleteRow(r, answer) ==
  /\ Running(r) /\ req[r].at = "write" /\ req[r].op = "delete"
  /\ IF Exists(req[r].id)
     THEN Delete(req[r].id) /\ Step(r, answer)
     ELSE UNCHANGED dbVars /\ Step(r, "failed")

(* A database call that fails without effect.                              *)
Fail(r) ==
  /\ Running(r)
  /\ Step(r, "failed")
  /\ UNCHANGED dbVars

(* The process stops: requests are lost, the tables stay (AutoMigrate      *)
(* keeps them at the next start).                                          *)
Crash ==
  /\ \E r \in Requests : Running(r)
  /\ req' = [r \in Requests |-> Idle]
  /\ UNCHANGED dbVars

-----------------------------------------------------------------------------
(* The internal route the payment service posts to.                        *)

Posted == {"PAID", "REFUNDED", "CANCELLED", "EXPIRED"}

StatusVerbatim(posted) == posted
StatusOf(posted) == IF posted = "EXPIRED" THEN "CANCELLED" ELSE posted

PostInternalUpdateStatus(b, posted) ==
  /\ Issued(b)
  /\ UpdateStatus(b, StatusOf(posted))
  /\ UNCHANGED req

-----------------------------------------------------------------------------
Answer == {"ok", "failed"}

RequestStep(r) ==
  \/ Load(r)
  \/ \E answer \in Answer : WriteStatus(r, answer) \/ DeleteRow(r, answer)
  \/ Fail(r)

(* The steps the service takes for its own clients.                        *)
OwnStep ==
  \/ \E b \in Bookings, u \in Users, t \in Totals : PostBooking(b, u, t)
  \/ \E r \in Requests :
       \/ \E op \in Ops, b \in Bookings, u \in Users : Start(r, op, b, u)
       \/ RequestStep(r)
  \/ Crash

Next ==
  \/ OwnStep
  \/ \E b \in Bookings, posted \in Posted : PostInternalUpdateStatus(b, posted)

Spec == Init /\ [][Next]_vars

-----------------------------------------------------------------------------
(* Safety.                                                                 *)

(* Check-in and check-out are decided on a row that may be out of date     *)
(* when the status is written.  Still no guest stays in a booking that was *)
(* never paid, and none leaves who never arrived.                          *)
StayWasPaid ==
  \A b \in Bookings :
    /\ "CHECKED_IN"  \in attained[b] => "PAID" \in attained[b]
    /\ "CHECKED_OUT" \in attained[b] => "CHECKED_IN" \in attained[b]

(* A request that got past its guard, or was answered ok, was entitled to  *)
(* its effect: the status it needs was really attained, and a delete was   *)
(* asked for by the owner (whatever happened to the row meanwhile).        *)
Entitled ==
  \A r \in Requests :
    req[r] # Idle /\ req[r].at \in {"write", "ok"} =>
      LET h == req[r]
      IN  IF h.op = "delete"
          THEN Exists(h.id) => bookings[h.id].user = h.user
          ELSE Required(h.op) \in attained[h.id]

(* A request answered ok had its effect: the booking attained the status,  *)
(* or was deleted before the write (UpdateStatus does not notice); a       *)
(* booking whose delete was answered ok is gone.                           *)
OkMeansDone ==
  \A r \in Requests :
    req[r] # Idle /\ req[r].at = "ok" =>
      LET h == req[r]
      IN  IF h.op = "delete"
          THEN ~Exists(h.id)
          ELSE Exists(h.id) => Target(h.op) \in attained[h.id]

(* Two deletes of one booking are never both answered ok, even when both   *)
(* have read the row before either deletes it.                             *)
DeleteAnsweredOnce ==
  \A r, q \in Requests :
    /\ req[r] # Idle /\ req[r].op = "delete" /\ req[r].at = "ok"
    /\ req[q] # Idle /\ req[q].op = "delete" /\ req[q].at = "ok"
    /\ req[r].id = req[q].id
    => r = q

(* A delete is final: no write that was decided before it, and no late     *)
(* status post, brings the booking back.                                   *)
DeletedStaysDeleted ==
  [][\A b \in Bookings : Issued(b) /\ ~Exists(b) => ~Exists(b)']_vars

(* A row disappears only by a delete its owner asked for, and its owner    *)
(* and total never change while it exists.                                 *)
OnlyOwnerDeletes ==
  [][\A b \in Bookings : Exists(b) =>
       IF Exists(b)'
       THEN /\ bookings'[b].user  = bookings[b].user
            /\ bookings'[b].total = bookings[b].total
       ELSE \E r \in Requests :
              /\ req[r] # Idle /\ req[r].op = "delete"
              /\ req[r].id = b /\ req[r].user = bookings[b].user]_vars

(* README: "checkin -> mark as checked-in (requires PAID)".  Read as the   *)
(* promise that the booking is PAID when it is marked.                     *)
CheckInRequiresPaid ==
  [][\A b \in Bookings :
       Exists(b) /\ Exists(b)' /\ bookings[b].status # "CHECKED_IN"
       /\ bookings'[b].status = "CHECKED_IN"
       => bookings[b].status = "PAID"]_vars

-----------------------------------------------------------------------------
(* Refinement of the abstract life of a booking.                           *)

phase == [b \in Bookings |->
            IF Exists(b) THEN bookings[b].status
            ELSE IF Issued(b) THEN "DELETED" ELSE "NONE"]

Lifecycle == INSTANCE BookingLifecycle WITH status <- phase

(* Every interleaving of requests and posts is a life the abstract         *)
(* specification allows.                                                   *)
ImplementsLifecycle == Lifecycle!Spec
=============================================================================
