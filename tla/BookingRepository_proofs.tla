---------------------- MODULE BookingRepository_proofs ----------------------
(***************************************************************************)
(* Theorems about BookingRepository, for any number of bookings, items and *)
(* overlapping calls: statement by statement, it implements BookingStore.  *)
(***************************************************************************)
EXTENDS BookingRepository, Integers, TLAPS

Types ==
  /\ rows \in [Bookings -> Statuses \cup {NoRow}]
  /\ lines \in [Bookings -> SUBSET Lines] /\ created \in [Bookings -> SUBSET Lines]
  /\ tx \in [Sessions -> Call \cup {Idle}]

Whole ==
  \A b \in Bookings : /\ lines[b] = IF rows[b] = NoRow THEN {} ELSE created[b]
                      /\ rows[b] # NoRow => created[b] # {}

(* An id is being created by one call only, and has not been created yet.  *)
CreatesNew ==
  \A t \in Sessions : tx[t] # Idle /\ tx[t].op = "create" =>
    /\ created[tx[t].id] = {} /\ tx[t].lines # {} /\ tx[t].status = Unpaid
    /\ \A u \in Sessions : tx[u] # Idle /\ tx[u].op = "create" /\ tx[u].id = tx[t].id => u = t

(* A delete has removed all items of its booking, if that still exists;    *)
(* and while a call has changed a row, no other has, and the row is there. *)
LocksHold ==
  \A t \in Sessions : tx[t] # Idle =>
    /\ tx[t].op = "delete" => created[tx[t].id] # {}
    /\ tx[t].op = "delete" /\ tx[t].at \in {"row", "commit"} /\ rows[tx[t].id] # NoRow =>
         tx[t].lines = lines[tx[t].id]
    /\ tx[t].op \in {"update", "delete"} /\ tx[t].at = "commit" =>
         /\ rows[tx[t].id] # NoRow
         /\ \A u \in Sessions :
              /\ tx[u] # Idle /\ tx[u].id = tx[t].id
              /\ tx[u].op \in {"update", "delete"} /\ tx[u].at = "commit"
              => u = t

(* A read has found a booking that existed, and the items it had.          *)
ReadsWhole ==
  \A t \in Sessions : tx[t] # Idle /\ tx[t].op = "read" =>
    LET b == tx[t].id
    IN  /\ tx[t].at \in {"items", "ok"} => created[b] # {}
        /\ tx[t].at = "ok" => tx[t].lines = created[b] \/ rows[b] = NoRow

IInv == Types /\ Whole /\ CreatesNew /\ LocksHold /\ ReadsWhole

-----------------------------------------------------------------------------
LEMMA InitIInv == Init => IInv
BY DEF Init, IInv, Types, Whole, CreatesNew, LocksHold, ReadsWhole

(* A call that ends, or moves on to its next statement, while the tables   *)
(* stay as they are.                                                       *)
LEMMA Ended ==
  ASSUME IInv, UNCHANGED tables, tx' \in [Sessions -> Call \cup {Idle}],
         \A t \in Sessions : tx'[t] = tx[t] \/ tx'[t] = Idle
  PROVE  IInv'
<1>1. \A t \in Sessions : tx'[t] # Idle => tx'[t] = tx[t] /\ tx[t] # Idle
  OBVIOUS
<1>2. Types' /\ Whole'
  BY DEF IInv, tables, Types, Whole
<1>3. CreatesNew'
  BY <1>1 DEF IInv, tables, CreatesNew
<1>4. LocksHold'
  BY <1>1 DEF IInv, tables, LocksHold
<1>5. ReadsWhole'
  BY <1>1 DEF IInv, tables, ReadsWhole
<1>6. QED
  BY <1>2, <1>3, <1>4, <1>5 DEF IInv

LEMMA Known ==
  ASSUME IInv, NEW t \in Sessions, tx[t] # Idle
  PROVE  /\ tx[t] \in Call /\ tx[t].id \in Bookings
         /\ tx[t].status \in Statuses /\ tx[t].lines \in SUBSET Lines
         /\ \A at \in {"row", "items", "commit", "ok"} : [tx[t] EXCEPT !.at = at] \in Call
<1>1. tx[t] \in Call
  BY DEF IInv, Types
<1>2. QED
  BY <1>1 DEF Call

LEMMA BeginOK ==
  ASSUME IInv, NEW t \in Sessions, NEW op \in {"create", "delete", "update", "read"},
         NEW b \in Bookings, NEW s \in Statuses, NEW ls \in SUBSET Lines,
         Begin(t, op, b, s, ls), op = "create" => s = Unpaid
  PROVE  IInv'
<1> DEFINE c == [op |-> op, id |-> b, status |-> s, lines |-> ls,
                 at |-> IF op = "delete" THEN "items" ELSE "row"]
<1>1. c \in Call /\ c # Idle
  BY StoreAssumption DEF Call
<1>2. tx' = [tx EXCEPT ![t] = c] /\ UNCHANGED tables
  BY DEF Begin
<1>3. tx'[t] = c /\ \A u \in Sessions : u # t => tx'[u] = tx[u]
  BY <1>2 DEF IInv, Types
<1>4. Types' /\ Whole'
  BY <1>1, <1>2 DEF IInv, Types, Whole, tables
<1>5. CreatesNew'
  <2>1. op = "create" =>
          /\ created[b] = {} /\ ls # {} /\ s = Unpaid
          /\ \A u \in Sessions : tx[u] # Idle => ~(tx[u].op = "create" /\ tx[u].id = b)
    BY DEF Begin
  <2>2. c.op = op /\ c.id = b /\ c.lines = ls /\ c.status = s
    OBVIOUS
  <2> HIDE DEF c
  <2>3. QED
    BY <1>2, <1>3, <2>1, <2>2 DEF IInv, CreatesNew, tables
<1>6. LocksHold'
  <2>1. op = "delete" => created[b] # {}
    BY DEF Begin
  <2>2. c.op = op /\ c.id = b /\ c.at \notin {"commit", "ok"} /\ (op = "delete" => c.at = "items")
    OBVIOUS
  <2> HIDE DEF c
  <2>3. QED
    BY <1>2, <1>3, <2>1, <2>2 DEF IInv, LocksHold, tables
<1>7. ReadsWhole'
  <2>2. c.op = op /\ c.id = b /\ (op = "read" => c.at = "row")
    OBVIOUS
  <2> HIDE DEF c
  <2>3. QED
    BY <1>2, <1>3, <2>2 DEF IInv, ReadsWhole, tables
<1>8. QED
  BY <1>4, <1>5, <1>6, <1>7 DEF IInv

(* A call that goes on to a statement or a commit and no longer needs, or  *)
(* has just established, what the invariant says of it there.              *)
LEMMA GoOK ==
  ASSUME IInv, NEW t \in Sessions, tx[t] # Idle, UNCHANGED tables,
         NEW at \in {"row", "items", "commit", "ok"}, NEW ls \in SUBSET Lines,
         tx' = [tx EXCEPT ![t].at = at, ![t].lines = ls],
         tx[t].op = "create" => ls = tx[t].lines,
         tx[t].op = "delete" /\ at \in {"row", "commit"} /\ rows[tx[t].id] # NoRow =>
           ls = lines[tx[t].id],
         tx[t].op \in {"update", "delete"} /\ at = "commit" =>
           rows[tx[t].id] # NoRow /\ ~RowLocked(tx[t].id),
         tx[t].op = "read" => /\ at \in {"items", "ok"} => created[tx[t].id] # {}
                              /\ at = "ok" => ls = created[tx[t].id] \/ rows[tx[t].id] = NoRow
  PROVE  IInv'
<1> DEFINE c == [tx[t] EXCEPT !.at = at, !.lines = ls]
<1>1. tx[t] \in Call /\ tx[t].id \in Bookings
  BY Known
<1>2. /\ c \in Call /\ c # Idle
      /\ c.op = tx[t].op /\ c.id = tx[t].id /\ c.status = tx[t].status
      /\ c.at = at /\ c.lines = ls
  BY <1>1, StoreAssumption DEF Call
<1>3. /\ tx' \in [Sessions -> Call \cup {Idle}]
      /\ tx'[t] = c /\ \A u \in Sessions : u # t => tx'[u] = tx[u]
  BY <1>2 DEF IInv, Types
<1> HIDE DEF c
<1>4. Types' /\ Whole'
  BY <1>3 DEF IInv, Types, Whole, tables
<1>5. CreatesNew'
  BY <1>2, <1>3 DEF IInv, CreatesNew, tables
<1>6. LocksHold'
  BY <1>2, <1>3 DEF IInv, LocksHold, tables, RowLocked
<1>7. ReadsWhole'
  BY <1>2, <1>3 DEF IInv, ReadsWhole, tables
<1>8. QED
  BY <1>4, <1>5, <1>6, <1>7 DEF IInv

(* What the store holds under an id, and how it changes when one id does.  *)
Entry(r, l, c) ==
  [phase |-> IF r # NoRow THEN "live" ELSE IF c = {} THEN "none" ELSE "deleted",
   status |-> r, lines |-> l]

LEMMA ExceptOne ==
  ASSUME NEW S, NEW b \in S, NEW f, NEW g, f = [c \in S |-> f[c]], g = [c \in S |-> g[c]],
         \A c \in S : c # b => g[c] = f[c]
  PROVE  g = [f EXCEPT ![b] = g[b]]
OBVIOUS

LEMMA StoreChange ==
  ASSUME NEW b \in Bookings,
         \A c \in Bookings : c # b => /\ rows'[c] = rows[c] /\ lines'[c] = lines[c]
                                     /\ created'[c] = created[c]
  PROVE  [c \in Bookings |-> Entry(rows'[c], lines'[c], created'[c])] =
         [[c \in Bookings |-> Entry(rows[c], lines[c], created[c])]
            EXCEPT ![b] = Entry(rows'[b], lines'[b], created'[b])]
<1> DEFINE f == [c \in Bookings |-> Entry(rows[c], lines[c], created[c])]
           g == [c \in Bookings |-> Entry(rows'[c], lines'[c], created'[c])]
<1>1. f = [c \in Bookings |-> f[c]] /\ g = [c \in Bookings |-> g[c]]
  OBVIOUS
<1>2. g[b] = Entry(rows'[b], lines'[b], created'[b])
  OBVIOUS
<1>3. \A c \in Bookings : c # b => g[c] = f[c]
  OBVIOUS
<1> HIDE DEF f, g
<1>4. g = [f EXCEPT ![b] = g[b]]
  BY <1>1, <1>3, ExceptOne
<1>5. QED
  BY <1>2, <1>4 DEF f, g

(* Only the commits change a table; what each does to the store follows.   *)
LEMMA QuietStep ==
  ASSUME IInv, NEW t \in Sessions,
         \/ InsertRow(t) \/ InsertItems(t) \/ DeleteItems(t) \/ DeleteRow(t)
         \/ UpdateRow(t) \/ ReadRow(t) \/ ReadItems(t) \/ Fail(t)
  PROVE  IInv' /\ UNCHANGED tables
<1>0. tx[t] # Idle
  BY DEF InsertRow, InsertItems, DeleteItems, DeleteRow, UpdateRow, ReadRow, ReadItems,
         Fail, At, Running
<1>1. /\ tx[t] \in Call /\ tx[t].id \in Bookings /\ tx[t].lines \in SUBSET Lines
      /\ \A at : [tx EXCEPT ![t].at = at] = [tx EXCEPT ![t].at = at, ![t].lines = tx[t].lines]
  <2>1. tx[t] \in Call /\ tx[t].id \in Bookings /\ tx[t].lines \in SUBSET Lines
    BY <1>0, Known
  <2>2. \A at : [tx[t] EXCEPT !.at = at] = [tx[t] EXCEPT !.at = at, !.lines = tx[t].lines]
    BY <2>1 DEF Call
  <2>3. QED
    BY <2>1, <2>2 DEF IInv, Types
<1>2. End(t) /\ UNCHANGED tables => IInv'
  <2>1. End(t) => /\ tx' \in [Sessions -> Call \cup {Idle}]
                  /\ \A u \in Sessions : tx'[u] = tx[u] \/ tx'[u] = Idle
    BY DEF End, IInv, Types
  <2>2. QED
    BY <2>1, Ended
<1>3. CASE InsertRow(t)
  BY <1>0, <1>1, <1>3, GoOK DEF InsertRow, At, Go
<1>4. CASE InsertItems(t)
  BY <1>0, <1>1, <1>4, GoOK DEF InsertItems, At, Go
<1>5. CASE DeleteItems(t)
  <2>1. lines[tx[t].id] \in SUBSET Lines
    BY <1>1 DEF IInv, Types
  <2>2. QED
    BY <1>0, <1>5, <2>1, GoOK DEF DeleteItems, At
<1>6. CASE DeleteRow(t)
  <2>1. rows[tx[t].id] # NoRow => tx[t].lines = lines[tx[t].id]
    BY <1>0, <1>6 DEF DeleteRow, At, IInv, LocksHold
  <2>2. CASE rows[tx[t].id] # NoRow
    BY <1>0, <1>1, <1>6, <2>1, <2>2, GoOK DEF DeleteRow, At, Go
  <2>3. QED
    BY <1>2, <1>6, <2>2 DEF DeleteRow
<1>7. CASE UpdateRow(t)
  <2>1. CASE rows[tx[t].id] # NoRow
    BY <1>0, <1>1, <1>7, <2>1, GoOK DEF UpdateRow, At, Go
  <2>2. QED
    BY <1>2, <1>7, <2>1 DEF UpdateRow
<1>8. CASE ReadRow(t)
  <2>1. CASE rows[tx[t].id] # NoRow
    <3>1. created[tx[t].id] # {}
      BY <1>1, <2>1 DEF IInv, Whole
    <3>2. QED
      BY <1>0, <1>1, <1>8, <2>1, <3>1, GoOK DEF ReadRow, At, Go
  <2>2. QED
    BY <1>2, <1>8, <2>1 DEF ReadRow
<1>9. CASE ReadItems(t)
  <2>1. /\ lines[tx[t].id] \in SUBSET Lines
        /\ created[tx[t].id] # {}
        /\ lines[tx[t].id] = created[tx[t].id] \/ rows[tx[t].id] = NoRow
    BY <1>0, <1>1, <1>9 DEF ReadItems, At, IInv, Types, Whole, ReadsWhole
  <2>2. QED
    BY <1>0, <1>9, <2>1, GoOK DEF ReadItems, At
<1>10. CASE Fail(t)
  BY <1>2, <1>10 DEF Fail
<1>11. QED
  BY <1>3, <1>4, <1>5, <1>6, <1>7, <1>8, <1>9, <1>10
  DEF InsertRow, InsertItems, DeleteItems, DeleteRow, UpdateRow, ReadRow, ReadItems, Fail

LEMMA CommitCreateOK ==
  ASSUME IInv, NEW t \in Sessions, CommitCreate(t)
  PROVE  IInv' /\ \E b \in Bookings, ls \in SUBSET Lines : Store!Create(b, ls)
<1> DEFINE b  == tx[t].id
           ls == tx[t].lines
<1>1. /\ tx[t] # Idle /\ b \in Bookings /\ ls \in SUBSET Lines
      /\ tx[t].op = "create" /\ tx[t].status = Unpaid /\ created[b] = {} /\ ls # {}
      /\ \A u \in Sessions : tx[u] # Idle /\ tx[u].op = "create" /\ tx[u].id = b => u = t
  BY Known DEF CommitCreate, At, IInv, CreatesNew
<1>2. rows[b] = NoRow /\ lines[b] = {}
  BY <1>1 DEF IInv, Whole
<1>3. /\ rows' = [rows EXCEPT ![b] = Unpaid] /\ lines' = [lines EXCEPT ![b] = ls]
      /\ created' = [created EXCEPT ![b] = ls] /\ tx' = [tx EXCEPT ![t] = Idle]
  BY <1>1 DEF CommitCreate, End
<1> HIDE DEF b, ls
<1>4. /\ rows'[b] = Unpaid /\ lines'[b] = ls /\ created'[b] = ls /\ tx'[t] = Idle
      /\ \A c \in Bookings : c # b => /\ rows'[c] = rows[c] /\ lines'[c] = lines[c]
                                      /\ created'[c] = created[c]
      /\ \A u \in Sessions : u # t => tx'[u] = tx[u]
  BY <1>1, <1>3 DEF IInv, Types
<1>5. Types' /\ Whole'
  BY <1>1, <1>3, <1>4, StoreAssumption DEF IInv, Types, Whole
<1>6. \A u \in Sessions : tx'[u] # Idle => tx'[u] = tx[u] /\ tx[u].id \in Bookings
  BY <1>4, Known
<1>7. CreatesNew'
  BY <1>1, <1>4, <1>6 DEF IInv, CreatesNew
<1>8. LocksHold'
  BY <1>1, <1>2, <1>4, <1>6, StoreAssumption DEF IInv, LocksHold
<1>9. ReadsWhole'
  BY <1>1, <1>2, <1>4, <1>6 DEF IInv, ReadsWhole
<1>10. Store!Create(b, ls)
  <2>1. /\ Entry(rows[b], lines[b], created[b]) = Store!None
        /\ Entry(rows'[b], lines'[b], created'[b]) =
             [phase |-> "live", status |-> Unpaid, lines |-> ls]
    BY <1>1, <1>2, <1>4, StoreAssumption DEF Entry, Store!None
  <2>2. QED
    BY <1>1, <1>4, <2>1, StoreChange DEF Entry, Store!Create
<1>11. IInv'
  BY <1>5, <1>7, <1>8, <1>9 DEF IInv
<1>12. \E c \in Bookings, new \in SUBSET Lines : Store!Create(c, new)
  BY <1>1, <1>10 DEF Store!Create
<1>13. QED
  BY <1>11, <1>12

LEMMA CommitDeleteOK ==
  ASSUME IInv, NEW t \in Sessions, CommitDelete(t)
  PROVE  IInv' /\ \E b \in Bookings : Store!Delete(b)
<1> DEFINE b == tx[t].id
<1>1. /\ tx[t] # Idle /\ b \in Bookings /\ tx[t].op = "delete" /\ tx[t].at = "commit"
      /\ rows[b] # NoRow /\ tx[t].lines = lines[b]
      /\ \A u \in Sessions : /\ tx[u] # Idle /\ tx[u].id = b
                             /\ tx[u].op \in {"update", "delete"} /\ tx[u].at = "commit"
                             => u = t
  BY Known DEF CommitDelete, At, IInv, LocksHold
<1>2. created[b] # {}
  BY <1>1 DEF IInv, Whole
<1>3. /\ rows' = [rows EXCEPT ![b] = NoRow] /\ lines' = [lines EXCEPT ![b] = {}]
      /\ created' = created /\ tx' = [tx EXCEPT ![t] = Idle]
  BY <1>1 DEF CommitDelete, End, IInv, Types
<1> HIDE DEF b
<1>4. /\ rows'[b] = NoRow /\ lines'[b] = {} /\ tx'[t] = Idle
      /\ \A c \in Bookings : c # b => rows'[c] = rows[c] /\ lines'[c] = lines[c]
      /\ \A u \in Sessions : u # t => tx'[u] = tx[u]
  BY <1>1, <1>3 DEF IInv, Types
<1>5. Types' /\ Whole'
  BY <1>1, <1>3, <1>4 DEF IInv, Types, Whole
<1>6. \A u \in Sessions : tx'[u] # Idle => u # t /\ tx'[u] = tx[u] /\ tx[u].id \in Bookings
  BY <1>4, Known
<1>7. CreatesNew'
  BY <1>3, <1>6 DEF IInv, CreatesNew
<1>8. LocksHold'
  BY <1>1, <1>3, <1>4, <1>6 DEF IInv, LocksHold
<1>9. ReadsWhole'
  BY <1>3, <1>4, <1>6 DEF IInv, ReadsWhole
<1>10. Store!Delete(b)
  <2>1. /\ Entry(rows[b], lines[b], created[b]).phase = "live"
        /\ Entry(rows'[b], lines'[b], created'[b]) = Store!Deleted
    <3>1. Store!Deleted = [phase |-> "deleted", status |-> NoRow, lines |-> {}]
      BY DEF Store!Deleted, Store!None
    <3>2. Entry(rows[b], lines[b], created[b]).phase = "live"
      BY <1>1 DEF Entry
    <3>3. rows'[b] = NoRow /\ lines'[b] = {} /\ created'[b] # {}
      BY <1>2, <1>3, <1>4
    <3>4. Entry(rows'[b], lines'[b], created'[b]) =
            [phase |-> "deleted", status |-> NoRow, lines |-> {}]
      BY <3>3 DEF Entry
    <3>5. QED
      BY <3>1, <3>2, <3>4
  <2>2. QED
    BY <1>1, <1>3, <1>4, <2>1, StoreChange DEF Entry, Store!Delete
<1>11. IInv'
  BY <1>5, <1>7, <1>8, <1>9 DEF IInv
<1>12. \E c \in Bookings : Store!Delete(c)
  BY <1>1, <1>10 DEF Store!Delete
<1>13. QED
  BY <1>11, <1>12

LEMMA CommitUpdateOK ==
  ASSUME IInv, NEW t \in Sessions, CommitUpdate(t)
  PROVE  IInv' /\ \E b \in Bookings, s \in Statuses : Store!Update(b, s)
<1> DEFINE b == tx[t].id
           s == tx[t].status
<1>1. /\ tx[t] # Idle /\ b \in Bookings /\ s \in Statuses
      /\ tx[t].op = "update" /\ tx[t].at = "commit" /\ rows[b] # NoRow
  BY Known DEF CommitUpdate, At, IInv, LocksHold
<1>2. /\ rows' = [rows EXCEPT ![b] = s] /\ lines' = lines
      /\ created' = created /\ tx' = [tx EXCEPT ![t] = Idle]
  BY <1>1 DEF CommitUpdate, End
<1>3. s # NoRow
  BY <1>1, StoreAssumption
<1> HIDE DEF b, s
<1>4. /\ rows'[b] = s /\ tx'[t] = Idle
      /\ \A c \in Bookings : c # b => rows'[c] = rows[c]
      /\ \A u \in Sessions : u # t => tx'[u] = tx[u]
  BY <1>1, <1>2 DEF IInv, Types
<1>5. Types' /\ Whole'
  BY <1>1, <1>2, <1>3, <1>4 DEF IInv, Types, Whole
<1>6. \A u \in Sessions : tx'[u] # Idle => u # t /\ tx'[u] = tx[u] /\ tx[u].id \in Bookings
  BY <1>4, Known
<1>7. \A c \in Bookings : rows'[c] = NoRow <=> rows[c] = NoRow
  BY <1>1, <1>3, <1>4
<1>8. CreatesNew' /\ LocksHold' /\ ReadsWhole'
  <2>1. CreatesNew'
    BY <1>2, <1>6 DEF IInv, CreatesNew
  <2>2. LocksHold'
    BY <1>2, <1>6, <1>7 DEF IInv, LocksHold
  <2>3. ReadsWhole'
    BY <1>2, <1>6, <1>7 DEF IInv, ReadsWhole
  <2>4. QED
    BY <2>1, <2>2, <2>3
<1>9. Store!Update(b, s)
  <2>1. /\ Entry(rows[b], lines[b], created[b]).phase = "live"
        /\ Entry(rows'[b], lines'[b], created'[b]) =
             [Entry(rows[b], lines[b], created[b]) EXCEPT !.status = s]
    BY <1>1, <1>2, <1>3, <1>4 DEF Entry
  <2> DEFINE f == [c \in Bookings |-> Entry(rows[c], lines[c], created[c])]
             g == [c \in Bookings |-> Entry(rows'[c], lines'[c], created'[c])]
  <2>2. g = [f EXCEPT ![b] = Entry(rows'[b], lines'[b], created'[b])]
    BY <1>1, <1>2, <1>4, StoreChange
  <2>3. f[b] = Entry(rows[b], lines[b], created[b])
    BY <1>1
  <2>4. f[b].phase = "live" /\ g = [f EXCEPT ![b].status = s]
    <3> HIDE DEF f, g
    <3>1. QED
      BY <2>1, <2>2, <2>3
  <2>5. QED
    BY <2>4 DEF Entry, Store!Update
<1>10. IInv'
  BY <1>5, <1>8 DEF IInv
<1>11. \E c \in Bookings, new \in Statuses : Store!Update(c, new)
  BY <1>1, <1>9 DEF Store!Update
<1>12. QED
  BY <1>10, <1>11

LEMMA NextStep ==
  ASSUME IInv, [Next]_vars
  PROVE  IInv' /\ (Store!Next \/ UNCHANGED tables)
<1>1. CASE UNCHANGED vars
  BY <1>1, Ended DEF vars, tables, IInv, Types
<1>2. CASE Crash
  <2>1. tx' \in [Sessions -> Call \cup {Idle}] /\ \A t \in Sessions : tx'[t] = Idle
    BY <1>2 DEF Crash
  <2>2. QED
    BY <1>2, <2>1, Ended DEF Crash
<1>3. ASSUME NEW t \in Sessions, NEW b \in Bookings, NEW ls \in SUBSET Lines,
             Begin(t, "create", b, Unpaid, ls)
      PROVE  IInv' /\ UNCHANGED tables
  BY <1>3, BeginOK, StoreAssumption DEF Begin
<1>4. ASSUME NEW t \in Sessions, NEW op \in {"delete", "update", "read"},
             NEW b \in Bookings, NEW s \in Statuses, Begin(t, op, b, s, {})
      PROVE  IInv' /\ UNCHANGED tables
  BY <1>4, BeginOK DEF Begin
<1>5. ASSUME NEW t \in Sessions, Step(t) \/ Fail(t)
      PROVE  IInv' /\ (Store!Next \/ UNCHANGED tables)
  BY <1>5, QuietStep, CommitCreateOK, CommitDeleteOK, CommitUpdateOK DEF Step, Store!Next
<1>6. QED
  BY <1>1, <1>2, <1>3, <1>4, <1>5 DEF Next

THEOREM Invariant == Spec => []IInv
<1>1. IInv /\ [Next]_vars => IInv'
  BY NextStep
<1>2. QED
  BY <1>1, InitIInv, PTL DEF Spec

-----------------------------------------------------------------------------
(* Types, and no row without its items, in every interleaving.             *)
THEOREM TypeCorrect == Spec => []TypeOK
<1>1. IInv => TypeOK
  BY DEF IInv, Types, Whole, TypeOK
<1>2. QED
  BY <1>1, Invariant, PTL

(* What a read returns is whole, or its booking is gone.                   *)
THEOREM DetailWholeAlways == Spec => []DetailWhole
<1>1. IInv => DetailWhole
  BY DEF IInv, ReadsWhole, DetailWhole, At
<1>2. QED
  BY <1>1, Invariant, PTL

(* The transactions make every create, update and delete one step.         *)
THEOREM Refinement == Spec => ImplementsBookingStore
<1>1. Init => Store!Init
  BY DEF Init, Store!Init, Store!None
<1>2. ASSUME IInv, [Next]_vars
      PROVE  [Store!Next]_(Store!vars)
  BY <1>2, NextStep DEF tables, Store!vars
<1>3. QED
  BY <1>1, <1>2, Invariant, PTL DEF Spec, ImplementsBookingStore, Store!Spec

-----------------------------------------------------------------------------
(* Why calls end: what of CallsEnd is not a matter of fairness.            *)

(* A session that has to wait for the row, or the items, that others have  *)
(* changed.                                                                *)
Waits(t) ==
  \/ At(t, "delete", "items") /\ LinesLocked(tx[t].id)
  \/ (At(t, "delete", "row") \/ At(t, "update", "row")) /\ RowLocked(tx[t].id)

(* Of the sessions that wait for a booking one at least can go on.         *)
SomeoneGoesOn ==
  \A t \in Sessions : Waits(t) =>
    \E u \in Sessions : Running(u) /\ tx[u].id = tx[t].id /\ ~Waits(u)

(* A delete holds no locks before its first statement, and has no answer   *)
(* other than its end.                                                     *)
EmptyHanded ==
  \A t \in Sessions : tx[t] # Idle /\ tx[t].op = "delete" =>
    /\ tx[t].at # "ok"
    /\ tx[t].at = "items" => tx[t].lines = {}

LEMMA EmptyHandedKept ==
  ASSUME IInv, EmptyHanded, [Next]_vars
  PROVE  EmptyHanded'
<1>0. tx \in [Sessions -> Call \cup {Idle}]
  BY DEF IInv, Types
<1>1. ASSUME NEW t \in Sessions, NEW c, tx' = [tx EXCEPT ![t] = c],
             c # Idle /\ c.op = "delete" => c.at # "ok" /\ (c.at = "items" => c.lines = {})
      PROVE  EmptyHanded'
  BY <1>0, <1>1 DEF EmptyHanded
<1>2. ASSUME NEW t \in Sessions, tx[t] # Idle, NEW at \in {"row", "items", "commit", "ok"},
             NEW ls \in SUBSET Lines, tx' = [tx EXCEPT ![t].at = at, ![t].lines = ls],
             tx[t].op = "delete" => at \in {"row", "commit"}
      PROVE  EmptyHanded'
  <2> DEFINE c == [tx[t] EXCEPT !.at = at, !.lines = ls]
  <2>1. tx[t] \in Call
    BY <1>0, <1>2
  <2>2. c.op = tx[t].op /\ c.at = at
    BY <2>1 DEF Call
  <2>3. tx' = [tx EXCEPT ![t] = c]
    BY <1>0, <1>2, <2>1 DEF Call
  <2>4. QED
    BY <1>1, <1>2, <2>2, <2>3
<1>3. ASSUME NEW t \in Sessions, NEW op \in {"create", "delete", "update", "read"},
             NEW b \in Bookings, NEW s \in Statuses, NEW ls \in SUBSET Lines,
             Begin(t, op, b, s, ls)
      PROVE  EmptyHanded'
  BY <1>1, <1>3 DEF Begin
<1>4. ASSUME NEW t \in Sessions, Step(t) PROVE EmptyHanded'
  <2>1. CASE End(t)
    BY <1>1, <2>1 DEF End
  <2>2. ASSUME NEW at \in {"row", "items", "commit"}, tx[t] # Idle, Go(t, at),
               tx[t].op = "delete" => at = "commit"
        PROVE  EmptyHanded'
    <3>1. tx[t] \in Call
      BY <1>0, <2>2
    <3>2. tx' = [tx EXCEPT ![t] = [tx[t] EXCEPT !.at = at]]
      BY <2>2 DEF Go
    <3>3. [tx[t] EXCEPT !.at = at].op = tx[t].op /\ [tx[t] EXCEPT !.at = at].at = at
      BY <3>1 DEF Call
    <3>4. QED
      BY <1>1, <2>2, <3>2, <3>3
  <2>3. CASE DeleteItems(t) \/ ReadItems(t)
    <3>1. tx[t] \in Call /\ lines[tx[t].id] \in SUBSET Lines
      BY <1>0, <2>3 DEF DeleteItems, ReadItems, At, IInv, Types, Call
    <3>2. QED
      BY <1>2, <2>3, <3>1 DEF DeleteItems, ReadItems, At
  <2>4. QED
    BY <1>4, <2>1, <2>2, <2>3 DEF Step, InsertRow, InsertItems, CommitCreate, DeleteRow,
       CommitDelete, UpdateRow, CommitUpdate, ReadRow, At
<1>5. ASSUME NEW t \in Sessions, Fail(t) PROVE EmptyHanded'
  BY <1>1, <1>5 DEF Fail, End
<1>6. CASE Crash \/ UNCHANGED vars
  BY <1>6 DEF Crash, vars, EmptyHanded
<1>7. QED
  BY <1>3, <1>4, <1>5, <1>6, StoreAssumption DEF Next

LEMMA EmptyHandedAlways == Spec => []EmptyHanded
<1>1. Init => EmptyHanded
  BY DEF Init, EmptyHanded
<1>2. QED
  BY <1>1, EmptyHandedKept, Invariant, PTL DEF Spec

(* No calls wait for each other in a ring: whoever has the row goes on to  *)
(* its commit, and whoever has the items waits for a row at most.          *)
THEOREM NoRing == Spec => []SomeoneGoesOn
<1>1. ASSUME EmptyHanded PROVE SomeoneGoesOn
  <2> SUFFICES ASSUME NEW t \in Sessions, Waits(t)
               PROVE  \E u \in Sessions : Running(u) /\ tx[u].id = tx[t].id /\ ~Waits(u)
    BY DEF SomeoneGoesOn
  <2>1. ASSUME RowLocked(tx[t].id)
        PROVE  \E u \in Sessions : Running(u) /\ tx[u].id = tx[t].id /\ ~Waits(u)
    BY <2>1 DEF RowLocked, Waits, Running, At
  <2>2. ASSUME NEW u \in Sessions, tx[u] # Idle, tx[u].op = "delete", tx[u].id = tx[t].id,
               tx[u].lines # {}, ~RowLocked(tx[t].id)
        PROVE  Running(u) /\ ~Waits(u)
    BY <1>1, <2>2 DEF EmptyHanded, Waits, Running, At
  <2>3. QED
    BY <2>1, <2>2 DEF Waits, LinesLocked
<1>2. QED
  BY <1>1, EmptyHandedAlways, PTL

(* The statements a call still has to execute.                             *)
Left(c) ==
  IF c = Idle THEN 0
  ELSE CASE c.at = "ok"     -> 0
         [] c.at = "commit" -> 1
         [] c.at = "items"  -> IF c.op = "delete" THEN 3 ELSE 2
         [] c.at = "row"    -> IF c.op = "delete" THEN 2 ELSE 3

(* And whatever happens to a call under way brings it nearer to its end:   *)
(* no call is set back, and none goes round.                               *)
StepsCount ==
  [][\A t \in Sessions : Running(t) /\ tx'[t] # tx[t] => Left(tx'[t]) < Left(tx[t])]_vars

(* A call executes three statements at most, whatever other sessions do.   *)
THEOREM StatementsRunOut == Spec => StepsCount
<1> DEFINE Nearer(t) == Running(t) /\ tx'[t] # tx[t] => Left(tx'[t]) < Left(tx[t])
<1>1. ASSUME IInv, EmptyHanded, Next PROVE \A t \in Sessions : Nearer(t)
  <2>0. tx \in [Sessions -> Call \cup {Idle}]
    BY <1>1 DEF IInv, Types
  <2>1. ASSUME NEW t \in Sessions, NEW c, tx' = [tx EXCEPT ![t] = c],
               Running(t) => Left(c) < Left(tx[t])
        PROVE  \A u \in Sessions : Nearer(u)
    BY <2>0, <2>1
  <2>2. ASSUME NEW t \in Sessions, Running(t) PROVE Left(tx[t]) > 0 /\ Left(Idle) = 0
    BY <2>0, <2>2 DEF Left, Running, Call
  <2>3. ASSUME NEW t \in Sessions, End(t) PROVE \A u \in Sessions : Nearer(u)
    BY <2>1, <2>2, <2>3 DEF End
  <2>4. ASSUME NEW t \in Sessions, Step(t) PROVE \A u \in Sessions : Nearer(u)
    <3>1. ASSUME NEW at \in {"row", "items", "commit", "ok"}, NEW ls, tx[t] # Idle,
                 \/ tx' = [tx EXCEPT ![t].at = at]
                 \/ tx' = [tx EXCEPT ![t].at = at, ![t].lines = ls],
                 Running(t) =>
                   \/ at = "ok"
                   \/ at = "commit" /\ tx[t].at # "commit"
                   \/ at = "row" /\ tx[t].op = "delete" /\ tx[t].at = "items"
                   \/ at = "items" /\ tx[t].op # "delete" /\ tx[t].at = "row"
          PROVE  \A u \in Sessions : Nearer(u)
      <4>1. tx[t] \in Call
        BY <2>0, <3>1
      <4>2. PICK c : tx' = [tx EXCEPT ![t] = c] /\ c \in {[tx[t] EXCEPT !.at = at],
                                                        [tx[t] EXCEPT !.at = at, !.lines = ls]}
        <5>1. CASE tx' = [tx EXCEPT ![t].at = at]
          BY <5>1
        <5>2. CASE tx' = [tx EXCEPT ![t].at = at, ![t].lines = ls]
          <6>1. tx' = [tx EXCEPT ![t] = [tx[t] EXCEPT !.at = at, !.lines = ls]]
            BY <2>0, <4>1, <5>2 DEF Call
          <6>2. QED
            BY <6>1
        <5>3. QED
          BY <3>1, <5>1, <5>2
      <4>3. c.at = at /\ c.op = tx[t].op
        BY <4>1, <4>2 DEF Call
      <4>4. Running(t) => Left(c) < Left(tx[t])
        BY <3>1, <4>1, <4>3 DEF Left, Running, Call
      <4>5. QED
        BY <2>1, <4>2, <4>4
    <3>2. QED
      BY <1>1, <2>3, <2>4, <3>1 DEF Step, InsertRow, InsertItems, CommitCreate, DeleteItems,
         DeleteRow, CommitDelete, UpdateRow, CommitUpdate, ReadRow, ReadItems, Go, At
  <2>5. CASE Crash
    BY <2>2, <2>5 DEF Crash
  <2>6. QED
    BY <1>1, <2>1, <2>3, <2>4, <2>5 DEF Next, Begin, Fail
<1>2. ASSUME UNCHANGED vars PROVE \A t \in Sessions : Nearer(t)
  BY <1>2 DEF vars
<1>3. QED
  BY <1>1, <1>2, EmptyHandedAlways, Invariant, PTL DEF Spec, StepsCount
=============================================================================
