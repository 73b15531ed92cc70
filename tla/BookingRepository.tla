-------------------------- MODULE BookingRepository --------------------------
(***************************************************************************)
(* The repository of the booking service: repo/booking_repository.go, over *)
(* PostgreSQL at its default isolation, read committed.                    *)
(*                                                                         *)
(* A booking is a row of booking.bookings and its items in a table of      *)
(* their own.  Create and Delete write both in a transaction, statement by *)
(* statement; an update of the status is a transaction of one statement; a *)
(* read takes the row in one query and the items in another (Preload), and *)
(* no transaction spans the two.  A statement sees what was committed      *)
(* before it began.  One that meets a row which another transaction has    *)
(* changed waits for that transaction to end, and looks again.             *)
(***************************************************************************)
EXTENDS FiniteSets

CONSTANTS Bookings,     \* booking ids (uuids: each is issued at most once)
          Statuses,     \* the values of the status column
          Unpaid,       \* the one that a new booking has
          Lines,        \* the items that bookings can have
          Sessions,     \* database sessions: how many calls run at a time
          NoRow,        \* marks an id without a row
          Idle          \* marks a session without a call

VARIABLES rows,         \* committed: the status of each booking's row
          lines,        \* committed: the items of each booking
          created,      \* history: the items each booking was created with
          tx            \* what each session is doing

vars == <<rows, lines, created, tx>>

(* at: the statement that comes next.  lines: the items that a create      *)
(* inserts, a delete has removed, or a read has found.                     *)
Call ==
  [op : {"create", "delete", "update", "read"}, id : Bookings, status : Statuses,
   lines : SUBSET Lines, at : {"row", "items", "commit", "ok"}]

ASSUME StoreAssumption ==
  Unpaid \in Statuses /\ NoRow \notin Statuses /\ Idle \notin Call

(* Types, and no row is without its items, no item without its row.        *)
(* (booking_repository.go:18-39, 67-82)                                    *)
TypeOK ==
  /\ rows \in [Bookings -> Statuses \cup {NoRow}]
  /\ lines \in [Bookings -> SUBSET Lines] /\ created \in [Bookings -> SUBSET Lines]
  /\ tx \in [Sessions -> Call \cup {Idle}]
  /\ \A b \in Bookings : lines[b] = IF rows[b] = NoRow THEN {} ELSE created[b]
  /\ \A b \in Bookings : rows[b] # NoRow => created[b] # {}

Init ==
  /\ rows = [b \in Bookings |-> NoRow]
  /\ lines = [b \in Bookings |-> {}] /\ created = [b \in Bookings |-> {}]
  /\ tx = [t \in Sessions |-> Idle]

tables == <<rows, lines, created>>

At(t, op, at) == tx[t] # Idle /\ tx[t].op = op /\ tx[t].at = at
Running(t)    == tx[t] # Idle /\ tx[t].at # "ok"
Go(t, at)     == tx' = [tx EXCEPT ![t].at = at]
End(t)        == tx' = [tx EXCEPT ![t] = Idle]

(* What open transactions have changed, and so keep others away from.      *)
LinesLocked(b) == \E u \in Sessions :
  tx[u] # Idle /\ tx[u].op = "delete" /\ tx[u].id = b /\ tx[u].lines # {}
RowLocked(b) == \E u \in Sessions :
  tx[u] # Idle /\ tx[u].op \in {"update", "delete"} /\ tx[u].id = b /\ tx[u].at = "commit"

-----------------------------------------------------------------------------
(* A call of the service.  An id that is to be created is new, and one     *)
(* that is to be deleted was found before (DeleteMine reads it first).     *)
Begin(t, op, b, status, ls) ==
  /\ ~Running(t)
  /\ op = "create" =>
       /\ created[b] = {} /\ ls # {}
       /\ \A u \in Sessions : tx[u] # Idle => ~(tx[u].op = "create" /\ tx[u].id = b)
  /\ op # "create" => ls = {}
  /\ op = "delete" => created[b] # {}
  /\ tx' = [tx EXCEPT ![t] = [op |-> op, id |-> b, status |-> status, lines |-> ls,
                              at |-> IF op = "delete" THEN "items" ELSE "row"]]
  /\ UNCHANGED tables

InsertRowAtOnce(t) ==
  /\ At(t, "create", "row") /\ Go(t, "items")
  /\ rows' = [rows EXCEPT ![tx[t].id] = tx[t].status]
  /\ UNCHANGED <<lines, created>>

(* Create: the booking's row, which nobody else sees.                      *)
InsertRow(t) == At(t, "create", "row") /\ Go(t, "items") /\ UNCHANGED tables

(* ... its items, in one INSERT ...                                        *)
InsertItems(t) == At(t, "create", "items") /\ Go(t, "commit") /\ UNCHANGED tables

(* ... and the commit, whose acknowledgement may be lost.                  *)
CommitCreate(t) ==
  /\ At(t, "create", "commit") /\ End(t)
  /\ rows' = [rows EXCEPT ![tx[t].id] = tx[t].status]
  /\ lines' = [lines EXCEPT ![tx[t].id] = tx[t].lines]
  /\ created' = [created EXCEPT ![tx[t].id] = tx[t].lines]

-----------------------------------------------------------------------------
DeleteItemsAtOnce(t) ==
  /\ At(t, "delete", "items") /\ Go(t, "row")
  /\ lines' = [lines EXCEPT ![tx[t].id] = {}]
  /\ UNCHANGED <<rows, created>>

(* Delete: "DELETE ... WHERE booking_id = ?" ...                           *)
DeleteItems(t) ==
  /\ At(t, "delete", "items") /\ ~LinesLocked(tx[t].id)
  /\ tx' = [tx EXCEPT ![t].at = "row", ![t].lines = lines[tx[t].id]]
  /\ UNCHANGED tables

DeleteRowUnended(t) ==
  /\ At(t, "delete", "row") /\ ~RowLocked(tx[t].id)
  /\ rows[tx[t].id] # NoRow /\ Go(t, "commit")
  /\ UNCHANGED tables

(* ... "DELETE ... WHERE id = ?", and a rollback if that found no row ...  *)
DeleteRow(t) ==
  /\ At(t, "delete", "row") /\ ~RowLocked(tx[t].id)
  /\ IF rows[tx[t].id] = NoRow THEN End(t) ELSE Go(t, "commit")
  /\ UNCHANGED tables

(* ... and the commit.                                                     *)
CommitDelete(t) ==
  /\ At(t, "delete", "commit") /\ End(t)
  /\ rows' = [rows EXCEPT ![tx[t].id] = NoRow]
  /\ lines' = [lines EXCEPT ![tx[t].id] = @ \ tx[t].lines]
  /\ UNCHANGED created

-----------------------------------------------------------------------------
UpsertRow(t) ==
  /\ At(t, "update", "row") /\ ~RowLocked(tx[t].id) /\ Go(t, "commit")
  /\ UNCHANGED tables

(* UpdateStatus: an UPDATE that finds no row is no error.                  *)
UpdateRow(t) ==
  /\ At(t, "update", "row") /\ ~RowLocked(tx[t].id)
  /\ IF rows[tx[t].id] = NoRow THEN End(t) ELSE Go(t, "commit")
  /\ UNCHANGED tables

CommitUpdate(t) ==
  /\ At(t, "update", "commit") /\ End(t)
  /\ rows' = [rows EXCEPT ![tx[t].id] = tx[t].status]
  /\ UNCHANGED <<lines, created>>

-----------------------------------------------------------------------------
(* GetByID and, of each row it finds, ListByUser: the row ...              *)
ReadRow(t) ==
  /\ At(t, "read", "row")
  /\ IF rows[tx[t].id] = NoRow THEN End(t) ELSE Go(t, "items")
  /\ UNCHANGED tables

(* ... and then the items.                                                 *)
ReadItems(t) ==
  /\ At(t, "read", "items")
  /\ tx' = [tx EXCEPT ![t].at = "ok", ![t].lines = lines[tx[t].id]]
  /\ UNCHANGED tables

-----------------------------------------------------------------------------
(* A statement or a commit fails: the transaction is rolled back.          *)
Fail(t) == Running(t) /\ End(t) /\ UNCHANGED tables

(* The service stops; the database rolls its transactions back.            *)
Crash == tx' = [t \in Sessions |-> Idle] /\ UNCHANGED tables

Step(t) ==
  \/ InsertRow(t) \/ InsertItems(t) \/ CommitCreate(t)
  \/ DeleteItems(t) \/ DeleteRow(t) \/ CommitDelete(t)
  \/ UpdateRow(t) \/ CommitUpdate(t)
  \/ ReadRow(t) \/ ReadItems(t)

Next ==
  \/ \E t \in Sessions :
       \/ \E b \in Bookings, ls \in SUBSET Lines : Begin(t, "create", b, Unpaid, ls)
       \/ \E op \in {"delete", "update", "read"}, b \in Bookings, s \in Statuses :
            Begin(t, op, b, s, {})
       \/ Step(t) \/ Fail(t)
  \/ Crash

Spec == Init /\ [][Next]_vars

(* A goroutine goes on with its call; a session that waits for a row gets  *)
(* it in the end even if others come before it (PostgreSQL queues them).   *)
Fairness == \A t \in Sessions : SF_vars(Step(t))

FairSpec == Spec /\ Fairness

-----------------------------------------------------------------------------
(* A booking read while others create, change and delete it has all of its *)
(* items, although row and items are read apart; or the booking is gone by *)
(* then.  (booking_repository.go:57-65)                                    *)
DetailWhole ==
  \A t \in Sessions : At(t, "read", "ok") =>
    LET b == tx[t].id IN (tx[t].lines = created[b] /\ created[b] # {}) \/ rows[b] = NoRow

(* Calls that wait for each other's rows all end: no two of them wait in a *)
(* ring, and none that gives up leaves its locks.                          *)
(* (booking_repository.go:53-82)                                           *)
CallsEnd == \A t \in Sessions : Running(t) ~> ~Running(t)

(* Whatever the interleaving of statements, others see bookings appear,    *)
(* change and go as a whole.                                               *)
Store == INSTANCE BookingStore WITH
  store <- [b \in Bookings |->
    [phase |-> IF rows[b] # NoRow THEN "live" ELSE IF created[b] = {} THEN "none" ELSE "deleted",
     status |-> rows[b], lines |-> lines[b]]]

ImplementsBookingStore == Store!Spec
=============================================================================
