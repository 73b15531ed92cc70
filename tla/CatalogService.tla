--------------------------- MODULE CatalogService ---------------------------
(***************************************************************************)
(* The catalog service: services/catalog/internal.                         *)
(*                                                                         *)
(* POST /internal/seed wipes the inventory and the room types and fills    *)
(* them again, row by row; GET /catalog/availability lists the room types  *)
(* and then reads stock and prices of each.  No transaction spans the      *)
(* calls of either, so requests interleave between them.  A restart of the *)
(* service drops both tables.                                              *)
(*                                                                         *)
(* Every inventory row holds ten rooms and nothing ever takes one, so a    *)
(* row is there or is not; and it holds a price override if its day is a   *)
(* weekend's, so a night costs "base" or "weekend" of its room type.  Day  *)
(* 1 is the day of the seeds.                                              *)
(***************************************************************************)
EXTENDS FiniteSets, Integers, Sequences

CONSTANTS Samples,      \* the names SeedSample inserts, in its order
          Capacity,     \* how many guests a room of each name takes
          Window,       \* how many nights a seed fills (30 in the code)
          Days,         \* bound: the days that clients name
          Weekend,      \* the days with a price override
          Guests,       \* the numbers of guests clients give; 0 for none
          MaxId,        \* bound: the ids that room types get
          Workers,      \* request slots: how many requests run at a time
          NoType,       \* stands for no room type
          Idle          \* marks a request slot that serves nobody

(* Names are numbered as "ORDER BY name" sorts them.                       *)
Names    == 1..Len(Samples)
RoomType == [id : 1..MaxId, name : Names]

ASSUME SampleAssumption ==
  /\ Samples \in Seq(Names) /\ Len(Samples) > 0
  /\ \A n \in Names : \E k \in Names : Samples[k] = n
  /\ \A k, l \in Names : Samples[k] = Samples[l] => k = l
  /\ Capacity \in [Names -> Nat]
ASSUME BoundAssumption ==
  /\ Window \in Nat \ {0} /\ MaxId \in Nat
  /\ Days \subseteq Int /\ Guests \subseteq Nat

(* Both jobs go through the room types they listed: cur is the one in hand *)
(* and list holds those to come.  next is the sample a seed inserts next   *)
(* and day the night it fills next.  alone is history: no other seed was   *)
(* under way at any time since the request began.                          *)
SeedJob ==
  [op : {"seed"}, at : {"inventory", "types", "insert", "list", "fill", "ok"},
   next : 1..Len(Samples) + 1, day : 1..Window,
   list : SUBSET RoomType, cur : RoomType \cup {NoType}, alone : BOOLEAN]

QuoteJob ==
  [op : {"quote"}, at : {"list", "stock", "prices", "ok"},
   from : Days, to : Days, guests : Guests,
   list : SUBSET RoomType, cur : RoomType \cup {NoType}, alone : BOOLEAN]

ASSUME SentinelAssumption ==
  NoType \notin RoomType /\ Idle \notin SeedJob \cup QuoteJob

VARIABLES types,        \* the table catalog.room_types
          inventory,    \* the table catalog.room_inventories: ids and days
          nextId,       \* the sequence behind the ids of room_types
          jobs,         \* what each request slot is doing
          items,        \* the answer of each slot's quote, as far as it is
          broken        \* history: a seed failed since room_types was wiped

vars == <<types, inventory, nextId, jobs, items, broken>>

(* A night of an item costs the base price or the weekend price.           *)
IsItem(x, j) ==
  /\ x.type \in RoomType
  /\ x.prices \in [j.from..j.to - 1 -> {"base", "weekend"}]

TypeOK ==
  /\ types \subseteq RoomType
  /\ inventory \subseteq (1..MaxId) \X (1..Window)
  /\ nextId \in 1..MaxId + 1
  /\ jobs \in [Workers -> SeedJob \cup QuoteJob \cup {Idle}]
  /\ items = [w \in Workers |-> items[w]]
  /\ \A w \in Workers : \A x \in items[w] : jobs[w] # Idle /\ IsItem(x, jobs[w])
  /\ broken \in BOOLEAN

Init ==
  /\ types = {} /\ inventory = {} /\ nextId = 1
  /\ jobs = [w \in Workers |-> Idle] /\ items = [w \in Workers |-> {}]
  /\ broken = FALSE

At(w, at)  == jobs[w] # Idle /\ jobs[w].at = at
Running(w) == jobs[w] # Idle /\ jobs[w].at # "ok"
Seeding(w) == Running(w) /\ jobs[w].op = "seed"
Answer     == {"ok", "failed"}

(* The slot goes on with job j, or is free because its call failed.        *)
Continue(w, j, answer) == jobs' = [jobs EXCEPT ![w] = IF answer = "ok" THEN j ELSE Idle]

(* The job with the next room type of its list in hand, one with the least *)
(* name; or with its loop at an end.                                       *)
Onward(j, at) ==
  IF j.list = {} THEN {[j EXCEPT !.at = "ok", !.cur = NoType]}
  ELSE {[j EXCEPT !.at = at, !.cur = r, !.list = @ \ {r}] :
          r \in {s \in j.list : \A t \in j.list : s.name <= t.name}}

-----------------------------------------------------------------------------
(* POST /internal/seed: CatalogService.SeedSample.                         *)

(* The guards on nextId, here and in InsertType, are the bound on ids and  *)
(* nothing else; the code has none.                                        *)
StartSeed(w) ==
  /\ ~Running(w)
  /\ nextId + Len(Samples) <= MaxId + 1
  /\ jobs' = [v \in Workers |->
       IF v = w
       THEN [op |-> "seed", at |-> "inventory", next |-> 1, day |-> 1, list |-> {},
             cur |-> NoType, alone |-> \A u \in Workers : ~Seeding(u)]
       ELSE IF jobs[v] = Idle THEN Idle ELSE [jobs[v] EXCEPT !.alone = FALSE]]
  /\ items' = [items EXCEPT ![w] = {}]
  /\ UNCHANGED <<types, inventory, nextId, broken>>

(* inventory.DeleteAll.                                                    *)
WipeInventory(w, answer) ==
  /\ At(w, "inventory")
  /\ inventory' = {}
  /\ Continue(w, [jobs[w] EXCEPT !.at = "types"], answer)
  /\ broken' = (broken \/ answer = "failed")
  /\ UNCHANGED <<types, nextId, items>>

SkipTypes(w, answer) ==
  /\ At(w, "types")
  /\ Continue(w, [jobs[w] EXCEPT !.at = "insert"], answer)
  /\ broken' = (answer = "failed")
  /\ UNCHANGED <<types, inventory, nextId, items>>

(* roomTypes.DeleteAll.                                                    *)
WipeTypes(w, answer) ==
  /\ At(w, "types")
  /\ types' = {}
  /\ Continue(w, [jobs[w] EXCEPT !.at = "insert"], answer)
  /\ broken' = (answer = "failed")
  /\ UNCHANGED <<inventory, nextId, items>>

(* roomTypes.Upsert of a sample: it has no id yet, so it gets a new one.   *)
InsertType(w, answer) ==
  /\ At(w, "insert") /\ nextId <= MaxId
  /\ LET j == jobs[w]
     IN  /\ types' = types \cup {[id |-> nextId, name |-> Samples[j.next]]}
         /\ Continue(w, [j EXCEPT !.next = @ + 1,
                                  !.at = IF j.next = Len(Samples) THEN "list" ELSE @], answer)
  /\ nextId' = nextId + 1
  /\ broken' = (broken \/ answer = "failed")
  /\ UNCHANGED <<inventory, items>>

(* roomTypes.List, and the loop over what it returned begins.              *)
ListSeeded(w) ==
  /\ At(w, "list") /\ jobs[w].op = "seed"
  /\ \E j \in Onward([jobs[w] EXCEPT !.list = types], "fill") : Continue(w, j, "ok")
  /\ UNCHANGED <<types, inventory, nextId, items, broken>>

OneNightMore(day) == day <= Window
OneNightLess(day) == day + 1 < Window
MoreNights(day)   == day < Window

(* inventory.Upsert of one night of the type in hand, and the loops go on. *)
FillNight(w, answer) ==
  /\ At(w, "fill")
  /\ LET j == jobs[w]
     IN  /\ inventory' = inventory \cup {<<j.cur.id, j.day>>}
         /\ \E k \in IF MoreNights(j.day) THEN {[j EXCEPT !.day = @ + 1]}
                     ELSE Onward([j EXCEPT !.day = 1], "fill") : Continue(w, k, answer)
  /\ broken' = (broken \/ answer = "failed")
  /\ UNCHANGED <<types, nextId, items>>

-----------------------------------------------------------------------------
(* GET /catalog/availability: CatalogService.Availability.                 *)

StartQuote(w, from, to, guests) ==
  /\ ~Running(w) /\ from < to
  /\ jobs' = [jobs EXCEPT ![w] =
       [op |-> "quote", at |-> "list", from |-> from, to |-> to, guests |-> guests,
        list |-> {}, cur |-> NoType, alone |-> \A u \in Workers : ~Seeding(u)]]
  /\ items' = [items EXCEPT ![w] = {}]
  /\ UNCHANGED <<types, inventory, nextId, broken>>

Exceeds(r, guests) == guests > 0 => Capacity[r.name] > guests
Fits(r, guests)    == guests > 0 => Capacity[r.name] >= guests

(* roomTypes.List; the loop passes over the types that are too small.      *)
ListTypes(w) ==
  /\ At(w, "list") /\ jobs[w].op = "quote"
  /\ \E j \in Onward([jobs[w] EXCEPT !.list = {r \in types : Fits(r, jobs[w].guests)}],
                     "stock") :
       Continue(w, j, "ok")
  /\ UNCHANGED <<types, inventory, nextId, items, broken>>

(* The nights of a type that "inv_date >= from AND inv_date < to" selects. *)
RowsTo(id, from, to) == {d \in from..to : <<id, d>> \in inventory}
Rows(id, from, to)   == {d \in from..to - 1 : <<id, d>> \in inventory}

(* inventory.MinAvailable: positive if there is any row.                   *)
CheckStock(w) ==
  /\ At(w, "stock")
  /\ LET j == jobs[w]
     IN  \E k \in IF Rows(j.cur.id, j.from, j.to) # {} THEN {[j EXCEPT !.at = "prices"]}
                  ELSE Onward(j, "stock") : Continue(w, k, "ok")
  /\ UNCHANGED <<types, inventory, nextId, items, broken>>

(* The i-th row, whatever its day, gives the price of the i-th night.      *)
Prices(rows, from, to) ==
  [n \in from..to - 1 |->
     IF \E d \in rows : d \in Weekend /\ Cardinality({e \in rows : e < d}) = n - from
     THEN "weekend" ELSE "base"]

(* inventory.Prices, and the item is appended to the answer.               *)
ReadPrices(w) ==
  /\ At(w, "prices")
  /\ LET j == jobs[w]
         x == [type |-> j.cur, prices |-> Prices(Rows(j.cur.id, j.from, j.to), j.from, j.to)]
     IN  /\ items' = [items EXCEPT ![w] = @ \cup {x}]
         /\ \E k \in Onward(j, "stock") : Continue(w, k, "ok")
  /\ UNCHANGED <<types, inventory, nextId, broken>>

-----------------------------------------------------------------------------
(* A database call that fails without effect; the request is answered 500. *)
Fail(w) ==
  /\ Running(w)
  /\ Continue(w, Idle, "failed")
  /\ items' = [items EXCEPT ![w] = {}]
  /\ broken' = (broken \/ Seeding(w))
  /\ UNCHANGED <<types, inventory, nextId>>

(* The process stops and starts again: main drops the tables and creates   *)
(* them anew, but takes no notice if one or both could not be dropped.     *)
Restart ==
  /\ \/ types' = types /\ nextId' = nextId
     \/ types' = {} /\ nextId' = 1
  /\ inventory' \in {inventory, {}}
  /\ broken' = (types' # {})
  /\ jobs' = [w \in Workers |-> Idle] /\ items' = [w \in Workers |-> {}]

HandlerStep(w) ==
  \/ \E answer \in Answer :
       \/ WipeInventory(w, answer) \/ WipeTypes(w, answer)
       \/ InsertType(w, answer) \/ FillNight(w, answer)
  \/ ListSeeded(w) \/ ListTypes(w) \/ CheckStock(w) \/ ReadPrices(w)

Next ==
  \/ \E w \in Workers :
       \/ StartSeed(w)
       \/ \E from, to \in Days, guests \in Guests : StartQuote(w, from, to, guests)
       \/ HandlerStep(w)
       \/ Fail(w)
  \/ Restart

Spec == Init /\ [][Next]_vars

-----------------------------------------------------------------------------
(* The catalog as a seed is meant to leave it: one room type per name, and *)
(* of each of them every night of the window and no other.                 *)
Complete ==
  /\ \A n \in Names : \E r \in types : r.name = n /\ \A s \in types : s.name = n => s = r
  /\ inventory = {r.id : r \in types} \X (1..Window)

(* A seed that was answered ok leaves the catalog complete, whatever a     *)
(* failed or interrupted or overlapping seed left before it, if no other   *)
(* seed was under way with it or has begun since.                          *)
SoleSeedCompletes ==
  \A w \in Workers : At(w, "ok") /\ jobs[w].op = "seed" /\ jobs[w].alone => Complete

(* Seeds that overlap may leave a name twice, but no room type without its *)
(* nights: when all have ended and none failed since the room types were   *)
(* wiped, every type that is left can be booked for the whole window.      *)
StockedWhenQuiet ==
  ~broken /\ (\A w \in Workers : ~Seeding(w)) =>
    \A r \in types : \A d \in 1..Window : <<r.id, d>> \in inventory

(* On a complete catalog and for nights of the window, Availability lists  *)
(* every room type that is large enough and prices each night by its day,  *)
(* although it reads the tables call by call.                              *)
QuietQuoteExact ==
  \A w \in Workers :
    LET j == jobs[w]
    IN  /\ At(w, "ok") /\ j.op = "quote" /\ j.alone /\ Complete
        /\ j.from >= 1 /\ j.to - 1 <= Window
        => items[w] =
             {[type |-> r, prices |-> [n \in j.from..j.to - 1 |->
                                         IF n \in Weekend THEN "weekend" ELSE "base"]] :
              r \in {s \in types : s.name \in {n \in Names : j.guests <= Capacity[n]}}}

(* No item has more nights at the weekend price than the stay has weekend  *)
(* nights, though prices are matched to nights by position and seeds may   *)
(* change the rows meanwhile.                                              *)
NeverOvercharged ==
  \A w \in Workers : \A x \in items[w] :
    Cardinality({n \in DOMAIN x.prices : x.prices[n] = "weekend"})
      <= Cardinality(Weekend \cap DOMAIN x.prices)

(* "Availability returns room types available for the supplied range", as  *)
(* the comment says: on a complete catalog, every night of what it lists   *)
(* is in the inventory.  The code takes the least over the rows there are. *)
AvailableEveryNight ==
  \A w \in Workers : At(w, "ok") /\ jobs[w].op = "quote" /\ jobs[w].alone /\ Complete =>
    \A x \in items[w] : \A n \in DOMAIN x.prices : <<x.type.id, n>> \in inventory
=============================================================================
