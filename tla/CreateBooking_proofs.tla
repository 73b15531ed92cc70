------------------------ MODULE CreateBooking_proofs ------------------------
(***************************************************************************)
(* Theorems about CreateBooking, for any number of orders and of other     *)
(* requests to the catalog, any sample room types and prices, any calendar *)
(* of weekends and any word size.  What the orders do to the catalog keeps *)
(* its inductive invariant; two more parts follow the ids of room types    *)
(* from the catalog into the orders and back, and the price of one night   *)
(* from the inventory into a line of an order.                             *)
(***************************************************************************)
EXTENDS CreateBooking, FiniteSetTheorems, TLAPS

CP == INSTANCE CatalogService_proofs

LEMMA SameCatalog ==
  /\ C!Names = CP!Names /\ C!RoomType = CP!RoomType
  /\ C!SeedJob = CP!SeedJob /\ C!QuoteJob = CP!QuoteJob
  /\ C!vars = CP!vars /\ catalogVars = CP!vars
  /\ C!Init <=> CP!Init
  /\ C!TypeOK <=> CP!TypeOK
  /\ C!Restart <=> CP!Restart
  /\ \A w : (C!Running(w) <=> CP!Running(w)) /\ (C!StartSeed(w) <=> CP!StartSeed(w))
  /\ \A w : (C!Fail(w) <=> CP!Fail(w)) /\ (C!HandlerStep(w) <=> CP!HandlerStep(w))
  /\ \A w, from, to, guests : C!StartQuote(w, from, to, guests) <=> CP!StartQuote(w, from, to, guests)
<1>1. /\ C!Names = CP!Names /\ C!RoomType = CP!RoomType
      /\ C!SeedJob = CP!SeedJob /\ C!QuoteJob = CP!QuoteJob
      /\ C!vars = CP!vars /\ catalogVars = CP!vars
  BY DEF C!Names, CP!Names, C!RoomType, CP!RoomType, C!SeedJob, CP!SeedJob,
         C!QuoteJob, CP!QuoteJob, C!vars, CP!vars, catalogVars
<1>2. (C!Init <=> CP!Init) /\ (C!Restart <=> CP!Restart)
  BY DEF C!Init, CP!Init, C!Restart, CP!Restart
<1>3. C!TypeOK <=> CP!TypeOK
  BY <1>1 DEF C!TypeOK, CP!TypeOK, C!IsItem, CP!IsItem
<1>4. \A w : (C!Running(w) <=> CP!Running(w)) /\ (C!Seeding(w) <=> CP!Seeding(w))
  BY DEF C!Running, CP!Running, C!Seeding, CP!Seeding
<1>5. /\ \A w, j, answer : C!Continue(w, j, answer) <=> CP!Continue(w, j, answer)
      /\ \A w, at : C!At(w, at) <=> CP!At(w, at)
      /\ \A j, at : C!Onward(j, at) = CP!Onward(j, at)
      /\ C!Answer = CP!Answer
  BY DEF C!Continue, CP!Continue, C!At, CP!At, C!Onward, CP!Onward, C!Answer, CP!Answer
<1>6. \A w : (C!StartSeed(w) <=> CP!StartSeed(w)) /\ (C!Fail(w) <=> CP!Fail(w))
  BY <1>4, <1>5 DEF C!StartSeed, CP!StartSeed, C!Fail, CP!Fail
<1>7. \A w, from, to, guests : C!StartQuote(w, from, to, guests) <=> CP!StartQuote(w, from, to, guests)
  BY <1>4 DEF C!StartQuote, CP!StartQuote
<1>8. \A w, answer : /\ C!WipeInventory(w, answer) <=> CP!WipeInventory(w, answer)
                     /\ C!WipeTypes(w, answer) <=> CP!WipeTypes(w, answer)
                     /\ C!InsertType(w, answer) <=> CP!InsertType(w, answer)
                     /\ C!FillNight(w, answer) <=> CP!FillNight(w, answer)
  <2>1. \A w, answer : /\ C!WipeInventory(w, answer) <=> CP!WipeInventory(w, answer)
                       /\ C!WipeTypes(w, answer) <=> CP!WipeTypes(w, answer)
    BY <1>5 DEF C!WipeInventory, CP!WipeInventory, C!WipeTypes, CP!WipeTypes
  <2>2. \A w, answer : C!InsertType(w, answer) <=> CP!InsertType(w, answer)
    BY <1>5 DEF C!InsertType, CP!InsertType
  <2>3. \A w, answer : C!FillNight(w, answer) <=> CP!FillNight(w, answer)
    BY DEF C!FillNight, CP!FillNight, C!MoreNights, CP!MoreNights, C!Onward, CP!Onward,
           C!Continue, CP!Continue, C!At, CP!At
  <2>4. QED
    BY <2>1, <2>2, <2>3
<1>9. \A w : /\ C!ListSeeded(w) <=> CP!ListSeeded(w)
             /\ C!ListTypes(w) <=> CP!ListTypes(w)
             /\ C!CheckStock(w) <=> CP!CheckStock(w)
             /\ C!ReadPrices(w) <=> CP!ReadPrices(w)
  BY <1>5 DEF C!ListSeeded, CP!ListSeeded, C!ListTypes, CP!ListTypes, C!Fits, CP!Fits,
         C!CheckStock, CP!CheckStock, C!Rows, CP!Rows, C!ReadPrices, CP!ReadPrices,
         C!Prices, CP!Prices, C!Cardinality, CP!Cardinality
<1>10. \A w : C!HandlerStep(w) <=> CP!HandlerStep(w)
  BY <1>5, <1>8, <1>9 DEF C!HandlerStep, CP!HandlerStep
<1>11. QED
  BY <1>1, <1>2, <1>3, <1>4, <1>6, <1>7, <1>10

(* The assumptions on the constants are those of the catalog.              *)
LEMMA CatalogConstants ==
  /\ Samples \in Seq(CP!Names) /\ Len(Samples) > 0
  /\ \A n \in CP!Names : \E k \in CP!Names : Samples[k] = n
  /\ \A k, l \in CP!Names : Samples[k] = Samples[l] => k = l
  /\ Capacity \in [CP!Names -> Nat]
  /\ Window \in Nat \ {0} /\ MaxId \in Nat
  /\ Days \subseteq Int /\ Guests \subseteq Nat
  /\ NoType \notin CP!RoomType /\ Idle \notin CP!SeedJob \cup CP!QuoteJob
BY CatalogAssumption, SameCatalog

-----------------------------------------------------------------------------
(* Room types and their ids.                                               *)

(* The room types that the catalog has, or that a request to it knows of.  *)
Held(r) ==
  \/ r \in types
  \/ \E w \in Workers : jobs[w] # Idle /\ (r \in jobs[w].list \/ r = jobs[w].cur)
  \/ \E w \in Workers : \E x \in items[w] : r = x.type

(* Those that an order was given for, by a client that saw them there.     *)
Picked(r) ==
  \E o \in Orders : /\ orders[o] # Idle /\ ~orders[o].stale
                    /\ \E i \in DOMAIN orders[o].picks : r = orders[o].picks[i].type

OneTypePerId ==
  \A r, s \in CP!RoomType :
    (Held(r) \/ Picked(r)) /\ (Held(s) \/ Picked(s)) =>
      /\ r.id < nextId
      /\ r.id = s.id => r = s

Job == CP!SeedJob \cup CP!QuoteJob

LEMMA Sentinels ==
  NoType \notin CP!RoomType /\ Idle \notin Job /\ Window \in Nat \ {0} /\ Days \subseteq Int
BY CatalogConstants DEF Job

LEMMA OnwardHolds ==
  ASSUME NEW j \in Job, NEW at, NEW k \in CP!Onward(j, at)
  PROVE  k.list \subseteq j.list /\ (k.cur = NoType \/ k.cur \in j.list)
<1>1. CASE j.list = {}
  <2>1. k = [j EXCEPT !.at = "ok", !.cur = NoType]
    BY <1>1 DEF CP!Onward
  <2>2. k.list = j.list /\ k.cur = NoType
    BY <2>1 DEF Job, CP!SeedJob, CP!QuoteJob
  <2>3. QED
    BY <2>2
<1>2. CASE j.list # {}
  <2>1. PICK r \in j.list : k = [j EXCEPT !.at = at, !.cur = r, !.list = j.list \ {r}]
    BY <1>2 DEF CP!Onward
  <2>2. k.list = j.list \ {r} /\ k.cur = r
    BY <2>1 DEF Job, CP!SeedJob, CP!QuoteJob
  <2>3. QED
    BY <2>2
<1>3. QED
  BY <1>1, <1>2

(* A request that goes on with what was held before holds nothing new.     *)
LEMMA NothingNew ==
  ASSUME CP!TypeOK, NEW w \in Workers, NEW k, NEW y,
         types' \subseteq types,
         jobs' = [jobs EXCEPT ![w] = k], items' = [items EXCEPT ![w] = y],
         k = Idle \/ (k.list \subseteq {r \in CP!RoomType : Held(r)} /\ (k.cur = NoType \/ Held(k.cur))),
         \A x \in y : Held(x.type)
  PROVE  \A r \in CP!RoomType : Held(r)' => Held(r)
<1> SUFFICES ASSUME NEW r \in CP!RoomType, Held(r)' PROVE Held(r)
  OBVIOUS
<1>1. /\ jobs \in [Workers -> Job \cup {Idle}]
      /\ items = [v \in Workers |-> items[v]]
  BY DEF CP!TypeOK, Job
<1>2. \A v \in Workers : /\ jobs'[v] = IF v = w THEN k ELSE jobs[v]
                         /\ items'[v] = IF v = w THEN y ELSE items[v]
  BY <1>1
<1>3. r # NoType
  BY Sentinels
<1>4. CASE r \in types'
  BY <1>4 DEF Held
<1>5. ASSUME NEW v \in Workers, jobs'[v] # Idle, r \in jobs'[v].list \/ r = jobs'[v].cur
      PROVE  Held(r)
  <2>1. CASE v = w
    BY <1>2, <1>3, <1>5, <2>1
  <2>2. CASE v # w
    BY <1>2, <1>5, <2>2 DEF Held
  <2>3. QED
    BY <2>1, <2>2
<1>6. ASSUME NEW v \in Workers, NEW x \in items'[v], r = x.type
      PROVE  Held(r)
  <2>1. CASE v = w
    BY <1>2, <1>6, <2>1
  <2>2. CASE v # w
    BY <1>2, <1>6, <2>2 DEF Held
  <2>3. QED
    BY <2>1, <2>2
<1>7. QED
  BY <1>4, <1>5, <1>6 DEF Held

(* A call of a request to the catalog invents no room type, but that it    *)
(* may insert one under the next id.                                       *)
LEMMA HandlerHolds ==
  ASSUME CP!TypeOK, NEW w \in Workers, CP!HandlerStep(w)
  PROVE  \/ nextId' = nextId /\ \A r \in CP!RoomType : Held(r)' => Held(r)
         \/ /\ nextId' = nextId + 1
            /\ \E n \in CP!RoomType :
                 n.id = nextId /\ \A r \in CP!RoomType : Held(r)' => Held(r) \/ r = n
<1>1. /\ jobs \in [Workers -> Job \cup {Idle}]
      /\ items = [v \in Workers |-> items[v]]
      /\ types \subseteq CP!RoomType
      /\ nextId \in 1..MaxId + 1
  BY DEF CP!TypeOK, Job
<1>2. items = [items EXCEPT ![w] = items[w]] /\ \A x \in items[w] : Held(x.type)
  BY <1>1 DEF Held
<1>3. jobs[w] # Idle => /\ jobs[w] \in Job
                        /\ jobs[w].list \subseteq {r \in CP!RoomType : Held(r)}
                        /\ jobs[w].cur = NoType \/ Held(jobs[w].cur)
  BY <1>1 DEF Job, CP!SeedJob, CP!QuoteJob, Held
<1>4. types \subseteq {r \in CP!RoomType : Held(r)}
  BY <1>1 DEF Held
<1> DEFINE Fine(k) == k = Idle \/ (/\ k.list \subseteq {r \in CP!RoomType : Held(r)}
                                   /\ k.cur = NoType \/ Held(k.cur))
<1>5. ASSUME NEW j, NEW answer, CP!Continue(w, j, answer), Fine(j)
      PROVE  \E k : jobs' = [jobs EXCEPT ![w] = k] /\ Fine(k)
  BY <1>5 DEF CP!Continue
<1>6. ASSUME NEW j \in Job, Fine(j), NEW at, NEW k \in CP!Onward(j, at)
      PROVE  Fine(k)
  <2>1. j # Idle
    BY Sentinels
  <2>2. QED
    BY <1>6, <2>1, OnwardHolds
<1>7. ASSUME NEW answer \in CP!Answer, CP!WipeInventory(w, answer) \/ CP!WipeTypes(w, answer)
      PROVE  nextId' = nextId /\ \A r \in CP!RoomType : Held(r)' => Held(r)
  <2>1. types' \subseteq types /\ nextId' = nextId /\ items' = items /\ jobs[w] # Idle
    BY <1>7 DEF CP!WipeInventory, CP!WipeTypes, CP!At
  <2>2. PICK at : CP!Continue(w, [jobs[w] EXCEPT !.at = at], answer)
    BY <1>7 DEF CP!WipeInventory, CP!WipeTypes
  <2>3. Fine([jobs[w] EXCEPT !.at = at])
    BY <1>3, <2>1 DEF Job, CP!SeedJob, CP!QuoteJob
  <2>4. PICK k : jobs' = [jobs EXCEPT ![w] = k] /\ Fine(k)
    BY <1>5, <2>2, <2>3
  <2>5. QED
    BY <1>2, <2>1, <2>4, NothingNew
<1>8. ASSUME NEW answer \in CP!Answer, CP!InsertType(w, answer)
      PROVE  /\ nextId' = nextId + 1
             /\ \E n \in CP!RoomType :
                  n.id = nextId /\ \A r \in CP!RoomType : Held(r)' => Held(r) \/ r = n
  <2> DEFINE n == [id |-> nextId, name |-> Samples[jobs[w].next]]
  <2>1. /\ types' = types \cup {n} /\ nextId' = nextId + 1 /\ items' = items
        /\ nextId <= MaxId /\ jobs[w] # Idle /\ jobs[w].at = "insert"
        /\ CP!Continue(w, [jobs[w] EXCEPT !.next = @ + 1,
                             !.at = IF jobs[w].next = Len(Samples) THEN "list" ELSE @], answer)
    BY <1>8 DEF CP!InsertType, CP!At
  <2>2. \A v \in Workers : jobs'[v] # Idle =>
          jobs[v] # Idle /\ jobs'[v].list = jobs[v].list /\ jobs'[v].cur = jobs[v].cur
    BY <1>1, <1>3, <2>1 DEF CP!Continue, Job, CP!SeedJob, CP!QuoteJob
  <2>3. \A r : Held(r)' => Held(r) \/ r = n
    BY <2>1, <2>2 DEF Held
  <2>4. CASE n \in CP!RoomType
    BY <2>1, <2>3, <2>4
  <2>5. CASE n \notin CP!RoomType
    <3>1. \A r \in CP!RoomType : Held(r)' => Held(r)
      BY <2>3, <2>5
    <3>2. [id |-> nextId, name |-> 1] \in CP!RoomType
      BY <1>1, <2>1, CatalogConstants DEF CP!RoomType, CP!Names
    <3>3. QED
      BY <2>1, <3>1, <3>2
  <2>6. QED
    BY <2>4, <2>5
<1>9. ASSUME NEW answer \in CP!Answer, CP!FillNight(w, answer)
      PROVE  nextId' = nextId /\ \A r \in CP!RoomType : Held(r)' => Held(r)
  <2>1. types' = types /\ nextId' = nextId /\ items' = items /\ jobs[w] # Idle
    BY <1>9 DEF CP!FillNight, CP!At
  <2>2. PICK j \in IF CP!MoreNights(jobs[w].day) THEN {[jobs[w] EXCEPT !.day = jobs[w].day + 1]}
                   ELSE CP!Onward([jobs[w] EXCEPT !.day = 1], "fill") : CP!Continue(w, j, answer)
    BY <1>9 DEF CP!FillNight
  <2>3. Fine(j)
    <3>1. jobs[w] \in CP!SeedJob
      BY <1>3, <1>9, <2>1 DEF Job, CP!QuoteJob, CP!FillNight, CP!At
    <3>2. /\ Fine([jobs[w] EXCEPT !.day = jobs[w].day + 1])
          /\ Fine([jobs[w] EXCEPT !.day = 1])
      BY <1>3, <2>1, <3>1 DEF CP!SeedJob
    <3>3. [jobs[w] EXCEPT !.day = 1] \in Job
      BY <3>1, Sentinels DEF Job, CP!SeedJob
    <3>4. QED
      BY <1>6, <2>2, <3>2, <3>3
  <2>4. PICK k : jobs' = [jobs EXCEPT ![w] = k] /\ Fine(k)
    BY <1>5, <2>2, <2>3
  <2>5. QED
    BY <1>2, <2>1, <2>4, NothingNew
<1>10. ASSUME CP!ListSeeded(w) \/ CP!ListTypes(w)
       PROVE  nextId' = nextId /\ \A r \in CP!RoomType : Held(r)' => Held(r)
  <2>1. types' = types /\ nextId' = nextId /\ items' = items /\ jobs[w] # Idle
    BY <1>10 DEF CP!ListSeeded, CP!ListTypes, CP!At
  <2>2. PICK set, at :
          /\ set \in SUBSET types
          /\ \E j \in CP!Onward([jobs[w] EXCEPT !.list = set], at) : CP!Continue(w, j, "ok")
    <3>1. {r \in types : CP!Fits(r, jobs[w].guests)} \in SUBSET types /\ types \in SUBSET types
      OBVIOUS
    <3>2. QED
      BY <1>10, <3>1 DEF CP!ListSeeded, CP!ListTypes
  <2>3. /\ [jobs[w] EXCEPT !.list = set] \in Job
        /\ Fine([jobs[w] EXCEPT !.list = set])
    <3>1. set \subseteq types
      BY <2>2
    <3>2. QED
      BY <1>1, <1>3, <1>4, <2>1, <3>1 DEF Job, CP!SeedJob, CP!QuoteJob
  <2>4. PICK k : jobs' = [jobs EXCEPT ![w] = k] /\ Fine(k)
    <3>1. PICK j \in CP!Onward([jobs[w] EXCEPT !.list = set], at) : CP!Continue(w, j, "ok")
      BY <2>2
    <3>2. Fine(j)
      BY <1>6, <2>3
    <3>3. QED
      BY <1>5, <3>1, <3>2
  <2>5. QED
    BY <1>2, <2>1, <2>4, NothingNew
<1>11. ASSUME CP!CheckStock(w) \/ CP!ReadPrices(w)
       PROVE  nextId' = nextId /\ \A r \in CP!RoomType : Held(r)' => Held(r)
  <2>1. types' = types /\ nextId' = nextId /\ jobs[w] # Idle /\ jobs[w].at \in {"stock", "prices"}
    BY <1>11 DEF CP!CheckStock, CP!ReadPrices, CP!At
  <2>2. PICK j \in {[jobs[w] EXCEPT !.at = "prices"]} \cup CP!Onward(jobs[w], "stock") :
          CP!Continue(w, j, "ok")
    BY <1>11 DEF CP!CheckStock, CP!ReadPrices
  <2>3. Fine([jobs[w] EXCEPT !.at = "prices"]) /\ Fine(jobs[w])
    BY <1>3, <2>1 DEF Job, CP!SeedJob, CP!QuoteJob
  <2>4. PICK k : jobs' = [jobs EXCEPT ![w] = k] /\ Fine(k)
    BY <1>3, <1>5, <1>6, <2>1, <2>2, <2>3
  <2>5. PICK y : /\ items' = [items EXCEPT ![w] = y]
                 /\ \A x \in y : Held(x.type)
    <3>1. CASE items' = items
      BY <1>2, <3>1
    <3>2. ASSUME NEW p, items' = [items EXCEPT ![w] = @ \cup {[type |-> jobs[w].cur, prices |-> p]}],
                 CP!ReadPrices(w)
          PROVE  \A x \in items[w] \cup {[type |-> jobs[w].cur, prices |-> p]} : Held(x.type)
      BY <1>2, <2>1 DEF Held
    <3>3. QED
      BY <1>11, <3>1, <3>2 DEF CP!CheckStock, CP!ReadPrices
  <2>6. QED
    BY <2>1, <2>4, <2>5, NothingNew
<1>12. QED
  BY <1>7, <1>8, <1>9, <1>10, <1>11 DEF CP!HandlerStep

LEMMA BeginHolds ==
  ASSUME CP!TypeOK, NEW w \in Workers,
         \/ CP!StartSeed(w) \/ CP!Fail(w)
         \/ \E from, to, guests : CP!StartQuote(w, from, to, guests)
  PROVE  nextId' = nextId /\ \A r \in CP!RoomType : Held(r)' => Held(r)
<1>1. /\ jobs \in [Workers -> Job \cup {Idle}]
      /\ items = [v \in Workers |-> items[v]]
  BY DEF CP!TypeOK, Job
<1>2. types' = types /\ nextId' = nextId /\ items' = [items EXCEPT ![w] = {}]
  BY DEF CP!StartSeed, CP!StartQuote, CP!Fail
<1>3. \A v \in Workers : jobs'[v] # Idle =>
        \/ jobs'[v].list = {} /\ jobs'[v].cur = NoType
        \/ /\ jobs[v] # Idle
           /\ jobs'[v].list = jobs[v].list /\ jobs'[v].cur = jobs[v].cur
  <2>1. CASE CP!StartSeed(w)
    BY <1>1, <2>1 DEF CP!StartSeed, Job, CP!SeedJob, CP!QuoteJob
  <2>2. CASE CP!Fail(w)
    BY <1>1, <2>2 DEF CP!Fail, CP!Continue
  <2>3. ASSUME NEW from, NEW to, NEW guests, CP!StartQuote(w, from, to, guests)
        PROVE  \A v \in Workers : jobs'[v] # Idle =>
                 \/ jobs'[v].list = {} /\ jobs'[v].cur = NoType
                 \/ /\ jobs[v] # Idle
                    /\ jobs'[v].list = jobs[v].list /\ jobs'[v].cur = jobs[v].cur
    BY <1>1, <2>3 DEF CP!StartQuote
  <2>4. QED
    BY <2>1, <2>2, <2>3
<1>4. \A v \in Workers : items'[v] \subseteq items[v]
  BY <1>1, <1>2
<1>5. QED
  BY <1>2, <1>3, <1>4, Sentinels DEF Held

LEMMA RestartHolds ==
  ASSUME CP!TypeOK, CP!Restart
  PROVE  \/ nextId' = nextId /\ \A r \in CP!RoomType : Held(r)' => Held(r)
         \/ \A r \in CP!RoomType : ~Held(r)'
BY DEF CP!Restart, Held

-----------------------------------------------------------------------------
(* The price of one night.                                                 *)

(* What a request of an order has learnt of the one night it asks for.     *)
OneNight(o) ==
  LET j == jobs[o]
  IN  jobs[o] # Idle =>
        /\ j.op = "quote" /\ j.to = j.from + 1
        /\ j.alone /\ j.at = "prices" => <<j.cur.id, j.from>> \in inventory
        /\ j.alone /\ j.from \in Weekend => \A x \in items[o] : x.prices[j.from] = "weekend"

LEMMA OthersCall ==
  ASSUME CP!TypeOK, NEW w \in Workers, NEW o \in Workers, o # w,
         \/ CP!HandlerStep(w) \/ CP!StartSeed(w) \/ CP!Fail(w)
         \/ \E from, to, guests : CP!StartQuote(w, from, to, guests)
  PROVE  /\ items'[o] = items[o]
         /\ \/ jobs'[o] = jobs[o]
            \/ jobs[o] # Idle /\ jobs'[o] = [jobs[o] EXCEPT !.alone = FALSE]
         /\ inventory' = inventory \/ CP!Seeding(w)
<1>1. /\ jobs \in [Workers -> Job \cup {Idle}]
      /\ items = [v \in Workers |-> items[v]]
  BY DEF CP!TypeOK, Job
<1>2. \A k : jobs' = [jobs EXCEPT ![w] = k] => jobs'[o] = jobs[o]
  BY <1>1
<1>3. \A y : items' = [items EXCEPT ![w] = y] => items'[o] = items[o]
  BY <1>1
<1>4. CASE CP!StartSeed(w)
  <2>1. items' = [items EXCEPT ![w] = {}] /\ inventory' = inventory
    BY <1>4 DEF CP!StartSeed
  <2>2. jobs'[o] = IF jobs[o] = Idle THEN Idle ELSE [jobs[o] EXCEPT !.alone = FALSE]
    BY <1>4 DEF CP!StartSeed
  <2>3. QED
    BY <1>3, <2>1, <2>2
<1>5. CASE CP!Fail(w)
  <2>1. /\ items' = [items EXCEPT ![w] = {}] /\ inventory' = inventory
        /\ \E k : jobs' = [jobs EXCEPT ![w] = k]
    BY <1>5 DEF CP!Fail, CP!Continue
  <2>2. QED
    BY <1>2, <1>3, <2>1
<1>6. ASSUME NEW from, NEW to, NEW guests, CP!StartQuote(w, from, to, guests)
      PROVE  items'[o] = items[o] /\ jobs'[o] = jobs[o] /\ inventory' = inventory
  <2>1. /\ items' = [items EXCEPT ![w] = {}] /\ inventory' = inventory
        /\ \E k : jobs' = [jobs EXCEPT ![w] = k]
    BY <1>6 DEF CP!StartQuote
  <2>2. QED
    BY <1>2, <1>3, <2>1
<1>7. CASE CP!HandlerStep(w)
  <2>1. \A j, answer : CP!Continue(w, j, answer) => jobs'[o] = jobs[o]
    BY <1>2 DEF CP!Continue
  <2>2. ASSUME NEW answer \in CP!Answer,
               \/ CP!WipeInventory(w, answer) \/ CP!WipeTypes(w, answer)
               \/ CP!InsertType(w, answer) \/ CP!FillNight(w, answer)
        PROVE  items'[o] = items[o] /\ jobs'[o] = jobs[o]
    BY <2>1, <2>2 DEF CP!WipeInventory, CP!WipeTypes, CP!InsertType, CP!FillNight
  <2>3. ASSUME NEW answer \in CP!Answer,
               \/ CP!WipeInventory(w, answer) \/ CP!WipeTypes(w, answer)
               \/ CP!InsertType(w, answer) \/ CP!FillNight(w, answer)
        PROVE  CP!Seeding(w)
    <3>1. jobs[w] # Idle /\ jobs[w].at \in {"inventory", "types", "insert", "fill"}
      BY <2>3 DEF CP!WipeInventory, CP!WipeTypes, CP!InsertType, CP!FillNight, CP!At
    <3>2. jobs[w] \in Job
      BY <1>1, <3>1
    <3>3. QED
      BY <3>1, <3>2 DEF CP!Seeding, CP!Running, Job, CP!SeedJob, CP!QuoteJob
  <2>4. CASE CP!ListSeeded(w) \/ CP!ListTypes(w) \/ CP!CheckStock(w)
    BY <2>1, <2>4 DEF CP!ListSeeded, CP!ListTypes, CP!CheckStock
  <2>5. CASE CP!ReadPrices(w)
    BY <1>3, <2>1, <2>5 DEF CP!ReadPrices
  <2>6. QED
    BY <1>7, <2>2, <2>3, <2>4, <2>5 DEF CP!HandlerStep
<1>8. QED
  BY <1>4, <1>5, <1>6, <1>7

LEMMA SameCardinality == \A S : CP!Cardinality(S) = Cardinality(S)
BY DEF CP!Cardinality, Cardinality

(* The one row that a request reads is the row of its night.               *)
LEMMA NightPrice ==
  ASSUME NEW d \in Int, NEW rows, rows = {d}, d \in Weekend
  PROVE  CP!Prices(rows, d, d + 1)[d] = "weekend"
<1>1. {e \in rows : e < d} = {}
  OBVIOUS
<1>2. CP!Cardinality({e \in rows : e < d}) = 0
  <2>1. CP!Cardinality({}) = 0
    BY SameCardinality, FS_EmptySet
  <2>2. QED
    BY <1>1, <2>1
<1>3. d \in d..d + 1 - 1 /\ d - d = 0
  OBVIOUS
<1>4. QED
  BY <1>2, <1>3 DEF CP!Prices

(* A quote that goes on is the same quote.                                 *)
LEMMA SameQuote ==
  ASSUME NEW j \in CP!QuoteJob, NEW k \in CP!Onward(j, "stock")
  PROVE  /\ k \in CP!QuoteJob /\ k.from = j.from /\ k.to = j.to
         /\ k.alone = j.alone /\ k.at # "prices"
<1>1. CASE j.list = {}
  <2>1. k = [j EXCEPT !.at = "ok", !.cur = NoType]
    BY <1>1 DEF CP!Onward
  <2>2. QED
    BY <2>1 DEF CP!QuoteJob
<1>2. CASE j.list # {}
  <2>1. PICK r \in j.list : k = [j EXCEPT !.at = "stock", !.cur = r, !.list = j.list \ {r}]
    BY <1>2 DEF CP!Onward
  <2>2. r \in CP!RoomType /\ j.list \ {r} \in SUBSET CP!RoomType
    BY DEF CP!QuoteJob
  <2>3. QED
    BY <2>1, <2>2 DEF CP!QuoteJob
<1>3. QED
  BY <1>1, <1>2

LEMMA NightKept ==
  ASSUME CP!IInv, NEW w \in Workers, NEW o \in Workers, OneNight(o),
         \/ CP!HandlerStep(w) \/ CP!Fail(w)
         \/ /\ w # o
            /\ \/ CP!StartSeed(w)
               \/ \E from, to, guests : CP!StartQuote(w, from, to, guests)
  PROVE  /\ OneNight(o)'
         /\ jobs'[o] # Idle => jobs[o] # Idle /\ jobs'[o].from = jobs[o].from
<1>0. CP!TypeOK /\ CP!AloneOK
  BY DEF CP!IInv
<1>1. /\ jobs \in [Workers -> Job \cup {Idle}]
      /\ items = [v \in Workers |-> items[v]]
  BY <1>0 DEF CP!TypeOK, Job
<1>2. CASE o # w
  <2>1. /\ items'[o] = items[o]
        /\ \/ jobs'[o] = jobs[o]
           \/ jobs[o] # Idle /\ jobs'[o] = [jobs[o] EXCEPT !.alone = FALSE]
        /\ inventory' = inventory \/ CP!Seeding(w)
    BY <1>0, <1>2, OthersCall
  <2>2. CASE jobs'[o] = jobs[o]
    <3>1. jobs[o] # Idle /\ jobs[o].alone => inventory' = inventory
      BY <1>0, <1>2, <2>1 DEF CP!AloneOK
    <3>2. QED
      BY <2>1, <2>2, <3>1 DEF OneNight
  <2>3. CASE jobs[o] # Idle /\ jobs'[o] = [jobs[o] EXCEPT !.alone = FALSE]
    <3>1. jobs[o] \in CP!QuoteJob
      BY <1>1, <2>3 DEF OneNight, Job, CP!SeedJob
    <3>2. ~jobs'[o].alone /\ jobs'[o].op = "quote" /\ jobs'[o].to = jobs[o].to
          /\ jobs'[o].from = jobs[o].from
      BY <2>3, <3>1 DEF CP!QuoteJob
    <3>3. QED
      BY <2>3, <3>2 DEF OneNight
  <2>4. QED
    BY <2>1, <2>2, <2>3
<1>3. CASE o = w
  <2>1. CASE CP!Fail(o)
    BY <1>1, <2>1 DEF CP!Fail, CP!Continue, OneNight
  <2>2. CASE CP!HandlerStep(o)
    <3>1. jobs[o] # Idle
      BY <2>2 DEF CP!HandlerStep, CP!WipeInventory, CP!WipeTypes, CP!InsertType, CP!FillNight,
             CP!ListSeeded, CP!ListTypes, CP!CheckStock, CP!ReadPrices, CP!At
    <3>2. jobs[o] \in CP!QuoteJob /\ jobs[o].op = "quote" /\ jobs[o].to = jobs[o].from + 1
      BY <1>1, <3>1 DEF OneNight, Job, CP!SeedJob
    <3>3. CP!ListTypes(o) \/ CP!CheckStock(o) \/ CP!ReadPrices(o)
      BY <2>2, <3>2 DEF CP!QuoteJob, CP!HandlerStep, CP!WipeInventory, CP!WipeTypes,
             CP!InsertType, CP!FillNight, CP!ListSeeded, CP!At
    <3>4. ASSUME NEW j \in CP!QuoteJob, j.from = jobs[o].from, j.to = jobs[o].to,
                 j.alone = jobs[o].alone, CP!Continue(o, j, "ok"),
                 inventory' = inventory,
                 j.at = "prices" => <<j.cur.id, j.from>> \in inventory,
                 NEW y, items' = [items EXCEPT ![o] = y],
                 j.alone /\ j.from \in Weekend => \A x \in y : x.prices[j.from] = "weekend"
          PROVE  OneNight(o)' /\ jobs'[o].from = jobs[o].from
      <4>1. jobs'[o] = j /\ items'[o] = y
        BY <1>1, <3>4 DEF CP!Continue
      <4>2. j.op = "quote"
        BY DEF CP!QuoteJob
      <4>3. QED
        BY <3>2, <3>4, <4>1, <4>2 DEF OneNight
    <3>5. items = [items EXCEPT ![o] = items[o]]
      BY <1>1
    <3>6. jobs[o].alone /\ jobs[o].from \in Weekend =>
            \A x \in items[o] : x.prices[jobs[o].from] = "weekend"
      BY <3>1 DEF OneNight
    <3>7. jobs[o].from \in Int /\ jobs[o].from..jobs[o].to - 1 = {jobs[o].from}
      <4>1. jobs[o].from \in Int
        BY <3>2, Sentinels DEF CP!QuoteJob
      <4>2. \A d \in Int : d..d + 1 - 1 = {d}
        OBVIOUS
      <4>3. QED
        BY <3>2, <4>1, <4>2
    <3>8. CASE CP!ListTypes(o)
      <4>1. PICK set \in SUBSET types :
              \E k \in CP!Onward([jobs[o] EXCEPT !.list = set], "stock") : CP!Continue(o, k, "ok")
        BY <3>8 DEF CP!ListTypes
      <4> DEFINE j == [jobs[o] EXCEPT !.list = set]
      <4>2. /\ j \in CP!QuoteJob /\ j.from = jobs[o].from /\ j.to = jobs[o].to
            /\ j.alone = jobs[o].alone
        BY <1>0, <3>2 DEF CP!QuoteJob, CP!TypeOK
      <4>3. PICK k \in CP!Onward(j, "stock") : CP!Continue(o, k, "ok")
        BY <4>1
      <4>4. /\ k \in CP!QuoteJob /\ k.from = jobs[o].from /\ k.to = jobs[o].to
            /\ k.alone = jobs[o].alone /\ k.at # "prices"
        <5> HIDE DEF j
        <5>1. QED
          BY <4>2, <4>3, SameQuote
      <4>5. inventory' = inventory /\ items' = items
        BY <3>8 DEF CP!ListTypes
      <4>6. /\ k.at = "prices" => <<k.cur.id, k.from>> \in inventory
            /\ items' = [items EXCEPT ![o] = items[o]]
            /\ k.alone /\ k.from \in Weekend => \A x \in items[o] : x.prices[k.from] = "weekend"
        BY <3>5, <3>6, <4>4, <4>5
      <4>7. QED
        <5> HIDE DEF j
        <5>1. QED
          BY <3>1, <3>4, <4>3, <4>4, <4>5, <4>6
    <3>9. CASE CP!CheckStock(o)
      <4>1. PICK k \in IF CP!Rows(jobs[o].cur.id, jobs[o].from, jobs[o].to) # {}
                       THEN {[jobs[o] EXCEPT !.at = "prices"]}
                       ELSE CP!Onward(jobs[o], "stock") : CP!Continue(o, k, "ok")
        BY <3>9 DEF CP!CheckStock
      <4>2. inventory' = inventory /\ items' = items
        BY <3>9 DEF CP!CheckStock
      <4>3. CASE CP!Rows(jobs[o].cur.id, jobs[o].from, jobs[o].to) # {}
        <5>1. k = [jobs[o] EXCEPT !.at = "prices"]
          BY <4>1, <4>3
        <5>2. /\ k \in CP!QuoteJob /\ k.from = jobs[o].from /\ k.to = jobs[o].to
              /\ k.alone = jobs[o].alone /\ k.cur = jobs[o].cur
          BY <3>2, <5>1 DEF CP!QuoteJob
        <5>3. <<k.cur.id, k.from>> \in inventory
          BY <3>7, <4>3, <5>2 DEF CP!Rows
        <5>4. QED
          BY <3>1, <3>4, <3>5, <3>6, <4>1, <4>2, <5>2, <5>3
      <4>4. CASE CP!Rows(jobs[o].cur.id, jobs[o].from, jobs[o].to) = {}
        <5>1. k \in CP!Onward(jobs[o], "stock")
          BY <4>1, <4>4
        <5>2. /\ k \in CP!QuoteJob /\ k.from = jobs[o].from /\ k.to = jobs[o].to
              /\ k.alone = jobs[o].alone /\ k.at # "prices"
          BY <3>2, <5>1, SameQuote
        <5>3. /\ k.at = "prices" => <<k.cur.id, k.from>> \in inventory
              /\ items' = [items EXCEPT ![o] = items[o]]
              /\ k.alone /\ k.from \in Weekend => \A x \in items[o] : x.prices[k.from] = "weekend"
          BY <3>5, <3>6, <4>2, <5>2
        <5>4. QED
          BY <3>1, <3>4, <4>1, <4>2, <5>2, <5>3
      <4>5. QED
        BY <4>3, <4>4
    <3>10. CASE CP!ReadPrices(o)
      <4> DEFINE rows == CP!Rows(jobs[o].cur.id, jobs[o].from, jobs[o].to)
                 x == [type |-> jobs[o].cur,
                       prices |-> CP!Prices(rows, jobs[o].from, jobs[o].to)]
      <4>1. /\ items' = [items EXCEPT ![o] = items[o] \cup {x}]
            /\ inventory' = inventory /\ jobs[o].at = "prices"
        BY <3>10 DEF CP!ReadPrices, CP!At
      <4>2. PICK k \in CP!Onward(jobs[o], "stock") : CP!Continue(o, k, "ok")
        BY <3>10 DEF CP!ReadPrices
      <4>3. /\ k \in CP!QuoteJob /\ k.from = jobs[o].from /\ k.to = jobs[o].to
            /\ k.alone = jobs[o].alone /\ k.at # "prices"
        BY <3>2, SameQuote
      <4>4. ASSUME jobs[o].alone, jobs[o].from \in Weekend
            PROVE  x.prices[jobs[o].from] = "weekend"
        <5>1. rows = {jobs[o].from}
          BY <3>1, <3>7, <4>1, <4>4 DEF CP!Rows, OneNight
        <5>2. CP!Prices(rows, jobs[o].from, jobs[o].from + 1)[jobs[o].from] = "weekend"
          BY <3>7, <4>4, <5>1, NightPrice
        <5>3. QED
          BY <3>2, <5>2
      <4>5. k.alone /\ k.from \in Weekend =>
              \A y \in items[o] \cup {x} : y.prices[k.from] = "weekend"
        BY <3>6, <4>3, <4>4
      <4>6. QED
        BY <3>1, <3>4, <4>1, <4>2, <4>3, <4>5
    <3>11. QED
      BY <1>3, <3>1, <3>3, <3>8, <3>9, <3>10
  <2>3. QED
    BY <1>3, <2>1, <2>2
<1>4. QED
  BY <1>2, <1>3

-----------------------------------------------------------------------------
(* Amounts are of their type, whatever they come to.                       *)
LEMMA Amounts ==
  /\ Int64 \subseteq Int /\ 0 \in Int64
  /\ \A n \in Int : Wrap(n) \in Int64
  /\ \A m, n \in Int64 : Wrap(m + n) \in Int64
  /\ \A q, n, p \in Int : LineTotal(q, n, p) \in Int64
<1>1. Int64 \subseteq Int /\ 0 \in Int64 /\ \A n \in Int : Wrap(n) \in Int64
  BY PriceAssumption DEF Int64, Wrap
<1>2. ASSUME NEW q \in Int, NEW n \in Int, NEW p \in Int
      PROVE  LineTotal(q, n, p) \in Int64
  <2>1. q * n \in Int
    OBVIOUS
  <2>2. Wrap(q * n) \in Int
    BY <1>1, <2>1
  <2>3. Wrap(q * n) * p \in Int
    BY <2>2
  <2>4. QED
    BY <1>1, <2>3 DEF LineTotal
<1>3. ASSUME NEW m \in Int64, NEW n \in Int64
      PROVE  Wrap(m + n) \in Int64
  <2>1. m \in Int /\ n \in Int
    BY <1>1
  <2>2. m + n \in Int
    BY <2>1
  <2>3. QED
    BY <1>1, <2>2
<1>4. QED
  BY <1>1, <1>2, <1>3

LEMMA PriceIsInt ==
  ASSUME NEW name \in CP!Names, NEW night PROVE PriceOf(name, night) \in Int
<1>1. BasePrice[name] \in Nat
  BY PriceAssumption, SameCatalog
<1>2. \A base \in Nat : WeekendPrice(base) \in Int
  BY DEF WeekendPrice
<1>3. QED
  BY <1>1, <1>2 DEF PriceOf

-----------------------------------------------------------------------------
(* What the lines of an order owe to its picks and to its first night.     *)
LineOK(order, i) ==
  LET line == order.lines[i]
      weekend == order.from \div 24 \in Weekend
  IN  /\ ~order.stale => line.type = order.picks[i].type
      /\ line.night = "weekend" => weekend
      /\ line.sure /\ weekend => line.night = "weekend"

OrderOK(o) ==
  orders[o] # Idle =>
    /\ orders[o].at \in {"ask", "wait"} => Len(orders[o].lines) < Len(orders[o].picks)
    /\ At(o, "wait") /\ jobs[o] # Idle => jobs[o].from = FirstNight(orders[o])
    /\ \A i \in DOMAIN orders[o].lines : LineOK(orders[o], i)

(* The inductive invariant.                                                *)
IInv ==
  /\ CP!IInv
  /\ OneTypePerId
  /\ orders \in [Orders -> Order \cup {Idle}]
  /\ \A o \in Orders : OneNight(o) /\ OrderOK(o)

LEMMA OrderKept ==
  ASSUME NEW o \in Orders, OrderOK(o), orders'[o] = orders[o],
         jobs'[o] # Idle => jobs[o] # Idle /\ jobs'[o].from = jobs[o].from
  PROVE  OrderOK(o)'
BY DEF OrderOK, At, LineOK, Order, FirstNight

LEMMA IdsKept ==
  ASSUME OneTypePerId, CP!TypeOK,
         \/ /\ nextId' = nextId
            /\ \A r \in CP!RoomType : Held(r)' \/ Picked(r)' => Held(r) \/ Picked(r)
         \/ /\ nextId' = nextId + 1
            /\ \E n \in CP!RoomType :
                 /\ n.id = nextId
                 /\ \A r \in CP!RoomType : Held(r)' \/ Picked(r)' => Held(r) \/ Picked(r) \/ r = n
         \/ \A r \in CP!RoomType : ~Held(r)' /\ ~Picked(r)'
  PROVE  OneTypePerId'
<1>1. nextId \in Int /\ \A r \in CP!RoomType : r.id \in Int
  BY DEF CP!TypeOK, CP!RoomType
<1>2. QED
  BY <1>1 DEF OneTypePerId

(* A step of the orders alone.                                             *)
LEMMA QuietStep ==
  ASSUME IInv, UNCHANGED catalogVars, orders' \in [Orders -> Order \cup {Idle}],
         \A o \in Orders : OrderOK(o)',
         \A r \in CP!RoomType : Picked(r)' => Picked(r) \/ r \in types
  PROVE  IInv'
<1>1. CP!IInv'
  <2>1. UNCHANGED CP!vars
    BY DEF catalogVars, CP!vars
  <2>2. QED
    BY <2>1, CatalogConstants, CP!StepIInv DEF IInv
<1>2. /\ types' = types /\ nextId' = nextId /\ jobs' = jobs /\ items' = items
      /\ inventory' = inventory
  BY DEF catalogVars
<1>3. OneTypePerId'
  <2>1. \A r : Held(r)' => Held(r)
    BY <1>2 DEF Held
  <2>2. \A r \in CP!RoomType : Held(r)' \/ Picked(r)' => Held(r) \/ Picked(r)
    BY <2>1 DEF Held
  <2>3. QED
    BY <1>2, <2>2, IdsKept DEF IInv, CP!IInv
<1>4. \A o \in Orders : OneNight(o)'
  BY <1>2 DEF IInv, OneNight
<1>5. QED
  BY <1>1, <1>3, <1>4 DEF IInv

(* A step of one request to the catalog, whatever the orders make of it.   *)
LEMMA CallStep ==
  ASSUME IInv, NEW w \in Workers,
         CP!HandlerStep(w) \/ CP!Fail(w) \/ (w \notin Orders /\ CP!StartSeed(w)),
         orders' \in [Orders -> Order \cup {Idle}],
         \A r \in CP!RoomType : Picked(r)' => Picked(r),
         \A o \in Orders : \/ orders'[o] = orders[o]
                           \/ orders'[o] = Idle
  PROVE  IInv'
<1>1. CP!IInv'
  <2>1. CP!Next
    BY DEF CP!Next
  <2>2. QED
    BY <2>1, CatalogConstants, CP!StepIInv DEF IInv
<1>2. OneTypePerId'
  <2>1. CP!TypeOK
    BY DEF IInv, CP!IInv
  <2>2. \/ nextId' = nextId /\ \A r \in CP!RoomType : Held(r)' => Held(r)
        \/ /\ nextId' = nextId + 1
           /\ \E n \in CP!RoomType :
                n.id = nextId /\ \A r \in CP!RoomType : Held(r)' => Held(r) \/ r = n
    BY <2>1, HandlerHolds, BeginHolds
  <2>3. QED
    BY <2>1, <2>2, IdsKept DEF IInv
<1>3. ASSUME NEW o \in Orders PROVE OneNight(o)' /\ OrderOK(o)'
  <2>1. /\ OneNight(o)'
        /\ jobs'[o] # Idle => jobs[o] # Idle /\ jobs'[o].from = jobs[o].from
    BY NightKept, SlotAssumption DEF IInv
  <2>2. OrderOK(o)'
    <3>1. CASE orders'[o] = Idle
      BY <3>1 DEF OrderOK
    <3>2. CASE orders'[o] = orders[o]
      BY <2>1, <3>2, OrderKept DEF IInv
    <3>3. QED
      BY <3>1, <3>2
  <2>3. QED
    BY <2>1, <2>2
<1>4. QED
  BY <1>1, <1>2, <1>3 DEF IInv

-----------------------------------------------------------------------------
(* The steps of an order.                                                  *)

LEMMA StartOrderStep ==
  ASSUME IInv, NEW o \in Orders, NEW from \in CheckIns, NEW to \in CheckOuts,
         NEW n \in 1..MaxItems, NEW picks \in [1..n -> Picks], StartOrder(o, from, to, picks)
  PROVE  IInv'
<1> DEFINE order == [at |-> "ask", picks |-> picks, lines |-> <<>>, from |-> from, to |-> to,
                     nights |-> Nights(from, to), subtotal |-> 0, stale |-> FALSE]
<1>1. orders' = [orders EXCEPT ![o] = order] /\ UNCHANGED catalogVars /\ orders \in [Orders -> Order \cup {Idle}]
  BY DEF StartOrder, IInv
<1>2. \A q \in Orders : orders'[q] = IF q = o THEN order ELSE orders[q]
  BY <1>1
<1>3. types \subseteq CP!RoomType
  BY DEF IInv, CP!IInv, CP!TypeOK
<1>4. n \in Nat \ {0} /\ picks \in Seq(Pick) /\ Len(picks) = n
  <2>1. n \in Nat \ {0}
    BY PriceAssumption
  <2>2. Picks \subseteq Pick
    BY <1>3, SameCatalog DEF Picks, Pick
  <2>3. QED
    BY <2>1, <2>2
<1>5. Nights(from, to) \in Nat \ {0}
  <2>1. from \in Nat /\ to \in Nat /\ Nights(from, to) > 0
    BY StayAssumption DEF StartOrder
  <2>2. QED
    BY <2>1 DEF Nights
<1>6. order \in Order
  BY <1>4, <1>5, Amounts DEF Order
<1>7. \A q \in Orders : OrderOK(q)'
  <2>1. jobs' = jobs
    BY <1>1 DEF catalogVars
  <2>2. OrderOK(o)'
    <3>1. /\ order.at = "ask" /\ DOMAIN order.lines = {}
          /\ Len(order.lines) < Len(order.picks)
      BY <1>4
    <3>2. orders'[o] = order
      BY <1>2
    <3> HIDE DEF order
    <3>3. QED
      BY <1>6, <3>1, <3>2 DEF OrderOK, At
  <2>3. ASSUME NEW q \in Orders, q # o PROVE OrderOK(q)'
    BY <1>2, <2>1, <2>3, OrderKept DEF IInv
  <2>4. QED
    BY <2>2, <2>3
<1>8. ASSUME NEW r \in CP!RoomType, Picked(r)'
      PROVE  Picked(r) \/ r \in types
  <2>1. PICK q \in Orders : /\ orders'[q] # Idle /\ ~orders'[q].stale
                            /\ \E i \in DOMAIN orders'[q].picks : r = orders'[q].picks[i].type
    BY <1>8 DEF Picked
  <2>2. CASE q = o
    <3>1. PICK i \in 1..n : r = picks[i].type
      BY <1>2, <2>1, <2>2
    <3>2. picks[i] \in Picks
      OBVIOUS
    <3>3. QED
      BY <3>1, <3>2 DEF Picks
  <2>3. CASE q # o
    BY <1>2, <2>1, <2>3 DEF Picked
  <2>4. QED
    BY <2>2, <2>3
<1>9. orders' \in [Orders -> Order \cup {Idle}]
  <2> HIDE DEF order
  <2>1. QED
    BY <1>1, <1>6
<1>10. QED
  BY <1>1, <1>7, <1>8, <1>9, QuietStep

(* An order keeps its picks.                                               *)
LEMMA PicksKept ==
  ASSUME NEW o \in Orders, orders \in [Orders -> Order \cup {Idle}], NEW new,
         orders' = [orders EXCEPT ![o] = new],
         new = Idle \/ (orders[o] # Idle /\ new.picks = orders[o].picks /\ new.stale = orders[o].stale)
  PROVE  \A r \in CP!RoomType : Picked(r)' => Picked(r)
<1>1. \A q \in Orders : orders'[q] = IF q = o THEN new ELSE orders[q]
  OBVIOUS
<1>2. QED
  BY <1>1 DEF Picked

(* An order goes on in a new state, and the catalog takes no notice.       *)
LEMMA OrderAlone ==
  ASSUME IInv, UNCHANGED catalogVars, NEW o \in Orders, NEW new,
         orders' = [orders EXCEPT ![o] = new],
         new = Idle \/ (orders[o] # Idle /\ new.picks = orders[o].picks /\ new.stale = orders[o].stale),
         new # Idle =>
           /\ new \in Order /\ new.at # "wait"
           /\ new.at = "ask" => Len(new.lines) < Len(new.picks)
           /\ \A i \in DOMAIN new.lines : LineOK(new, i)
  PROVE  IInv'
<1>1. orders \in [Orders -> Order \cup {Idle}] /\ orders' \in [Orders -> Order \cup {Idle}]
  BY DEF IInv
<1>2. \A q \in Orders : orders'[q] = IF q = o THEN new ELSE orders[q]
  BY <1>1
<1>3. \A r \in CP!RoomType : Picked(r)' => Picked(r)
  BY <1>1, PicksKept
<1>4. \A q \in Orders : OrderOK(q)'
  <2>1. jobs' = jobs
    BY DEF catalogVars
  <2>2. OrderOK(o)'
    BY <1>2 DEF OrderOK, At, LineOK, Order
  <2>3. ASSUME NEW q \in Orders, q # o PROVE OrderOK(q)'
    BY <1>2, <2>1, <2>3, OrderKept DEF IInv
  <2>4. QED
    BY <2>2, <2>3
<1>5. QED
  BY <1>1, <1>3, <1>4, QuietStep

LEMMA EndStep ==
  ASSUME IInv, NEW o \in Orders, InsertBooking(o) \/ FailInsert(o)
  PROVE  IInv'
<1>1. CASE FailInsert(o)
  BY <1>1, OrderAlone DEF FailInsert, Refuse
<1>2. CASE InsertBooking(o)
  <2> DEFINE new == [orders[o] EXCEPT !.at = "ok"]
  <2>1. /\ orders[o] # Idle /\ orders[o] \in Order
        /\ \A i \in DOMAIN orders[o].lines : LineOK(orders[o], i)
    BY <1>2 DEF InsertBooking, At, IInv, OrderOK
  <2>2. orders' = [orders EXCEPT ![o] = new] /\ UNCHANGED catalogVars
    BY <1>2 DEF InsertBooking
  <2>3. /\ new \in Order /\ new.at = "ok"
        /\ new.picks = orders[o].picks /\ new.stale = orders[o].stale
        /\ new.lines = orders[o].lines /\ new.from = orders[o].from
    BY <2>1 DEF Order
  <2>4. \A i \in DOMAIN new.lines : LineOK(new, i)
    BY <2>1, <2>3 DEF LineOK
  <2>5. QED
    <3> HIDE DEF new
    <3>1. QED
      BY <2>1, <2>2, <2>3, <2>4, OrderAlone
<1>3. QED
  BY <1>1, <1>2

(* An answer in hand is that of a quote for the first night of its order.  *)
LEMMA AnsweredItem ==
  ASSUME IInv, NEW o \in Orders, At(o, "wait"), NEW x \in items[o]
  PROVE  LET j   == jobs[o]
             day == FirstNight(orders[o])
         IN  /\ j \in CP!QuoteJob /\ j # Idle /\ x.type \in CP!RoomType
             /\ x.prices \in [{day} -> {"base", "weekend"}] /\ day \in Int
             /\ j.alone /\ day \in Weekend => x.prices[day] = "weekend"
<1> DEFINE j   == jobs[o]
           day == FirstNight(orders[o])
<1>1. o \in Workers /\ (j # Idle => j.from = day)
  BY SlotAssumption DEF At, IInv, OrderOK
<1>2. j # Idle /\ CP!IsItem(x, j) /\ j \in Job /\ OneNight(o)
  BY <1>1 DEF IInv, CP!IInv, CP!TypeOK, Job
<1>3. j \in CP!QuoteJob /\ j.from = day /\ j.to = day + 1
  BY <1>1, <1>2 DEF OneNight, Job, CP!SeedJob
<1>4. day \in Int
  BY <1>3, Sentinels DEF CP!QuoteJob
<1>5. j.from..j.to - 1 = {day}
  <2> HIDE DEF day, j
  <2>1. QED
    BY <1>3, <1>4
<1>6. x.type \in CP!RoomType /\ x.prices \in [{day} -> {"base", "weekend"}]
  <2> HIDE DEF day, j
  <2>1. QED
    BY <1>2, <1>5 DEF CP!IsItem
<1>7. j.alone /\ day \in Weekend => x.prices[day] = "weekend"
  BY <1>2, <1>3 DEF OneNight
<1>8. QED
  BY <1>2, <1>3, <1>4, <1>6, <1>7

(* The line that AddLine makes of it.                                      *)
NextLine(o, x) ==
  LET order == orders[o]
      pick  == order.picks[Len(order.lines) + 1]
      night == x.prices[FirstNight(order)]
  IN  [type |-> x.type, quantity |-> pick.quantity, night |-> night,
       total |-> LineTotal(pick.quantity, order.nights, PriceOf(x.type.name, night)),
       sure |-> jobs[o].alone]

LEMMA NextLineTyped ==
  ASSUME IInv, NEW o \in Orders, At(o, "wait"), NEW x \in items[o]
  PROVE  NextLine(o, x) \in Line
<1> DEFINE order == orders[o]
           k     == Len(order.lines) + 1
           pick  == order.picks[k]
           night == x.prices[FirstNight(order)]
           total == LineTotal(pick.quantity, order.nights, PriceOf(x.type.name, night))
<1>1. order \in Order /\ Len(order.lines) < Len(order.picks)
  BY DEF At, IInv, OrderOK
<1>2. k \in DOMAIN order.picks /\ pick \in Pick
  BY <1>1 DEF Order
<1>3. pick.quantity \in Quantities /\ pick.quantity \in Int /\ order.nights \in Int
  <2>1. Quantities \subseteq Int
    BY StayAssumption
  <2>2. order.nights \in Int
    BY <1>1 DEF Order
  <2> HIDE DEF pick
  <2>3. QED
    BY <1>2, <2>1, <2>2 DEF Pick
<1>4. /\ jobs[o] \in CP!QuoteJob /\ x.type \in CP!RoomType
      /\ night \in {"base", "weekend"}
  BY AnsweredItem
<1>5. total \in Int64
  <2>1. x.type.name \in CP!Names
    BY <1>4 DEF CP!RoomType
  <2>2. PriceOf(x.type.name, night) \in Int
    BY <2>1, PriceIsInt
  <2>3. QED
    BY <1>3, <2>2, Amounts
<1>6. jobs[o].alone \in BOOLEAN /\ x.type \in C!RoomType
  BY <1>4, SameCatalog DEF CP!QuoteJob
<1>7. QED
  BY <1>3, <1>4, <1>5, <1>6 DEF Line, NextLine

(* The request of an order is answered, and the item priced.               *)
LEMMA AddLineStep ==
  ASSUME IInv, NEW o \in Orders, At(o, "wait"), UNCHANGED catalogVars,
         NEW x \in items[o], AddLine(o, x),
         x.type.id = orders[o].picks[Len(orders[o].lines) + 1].type.id
  PROVE  IInv'
<1> DEFINE order == orders[o]
           j     == jobs[o]
           day   == FirstNight(order)
           k     == Len(order.lines) + 1
           pick  == order.picks[k]
           night == x.prices[day]
           total == LineTotal(pick.quantity, order.nights, PriceOf(x.type.name, night))
           line  == [type |-> x.type, quantity |-> pick.quantity, night |-> night,
                     total |-> total, sure |-> j.alone]
           new   == [order EXCEPT !.lines = Append(@, line), !.subtotal = Wrap(@ + total),
                                  !.at = IF k = Len(order.picks) THEN "insert" ELSE "ask"]
<1>1. orders' = [orders EXCEPT ![o] = new]
  BY DEF AddLine
<1>2. /\ order # Idle /\ order.at = "wait" /\ order \in Order /\ Len(order.lines) < Len(order.picks)
      /\ j # Idle => j.from = day
      /\ \A i \in DOMAIN order.lines : LineOK(order, i)
  BY DEF At, IInv, OrderOK
<1>3. o \in Workers
  BY SlotAssumption
<1>4. /\ j \in CP!QuoteJob /\ j # Idle /\ x.type \in CP!RoomType
      /\ x.prices \in [{day} -> {"base", "weekend"}] /\ day \in Int
      /\ j.alone /\ day \in Weekend => night = "weekend"
  BY AnsweredItem
<1>5. k \in DOMAIN order.picks /\ pick \in Pick /\ k \in Nat /\ k = Len(order.lines) + 1
  BY <1>2 DEF Order
<1>6. line \in Line
  BY NextLineTyped DEF NextLine
<1>7. ~order.stale => x.type = pick.type
  <2>1. Held(x.type) /\ x.type \in CP!RoomType /\ pick.type \in CP!RoomType
    BY <1>3, <1>4, <1>5, SameCatalog DEF Held, Pick
  <2>2. ~order.stale => Picked(pick.type)
    BY <1>2, <1>5 DEF Picked
  <2>3. QED
    BY <2>1, <2>2 DEF IInv, OneTypePerId
<1>8. night = "weekend" => day \in Weekend
  <2>1. SUFFICES ASSUME night = "weekend", day \notin Weekend PROVE FALSE
    OBVIOUS
  <2>2. /\ DOMAIN x.prices = {day}
        /\ {n \in DOMAIN x.prices : x.prices[n] = "weekend"} = {day}
        /\ Weekend \cap DOMAIN x.prices = {}
    BY <1>4, <2>1
  <2>3. CP!Cardinality({day}) <= CP!Cardinality({})
    BY <1>3, <2>2 DEF IInv, CP!IInv, CP!NeverOvercharged
  <2>4. Cardinality({day}) = 1 /\ Cardinality({}) = 0
    BY FS_EmptySet, FS_Singleton
  <2>5. QED
    BY <2>3, <2>4, SameCardinality
<1>9. /\ new \in Order /\ new.at \in {"ask", "insert"}
      /\ new.at = "ask" => k # Len(order.picks)
      /\ new.picks = order.picks /\ new.stale = order.stale /\ new.from = order.from
      /\ new.lines = Append(order.lines, line)
  <2>1. Wrap(order.subtotal + total) \in Int64
    <3>1. total \in Int64
      BY <1>6 DEF Line
    <3>2. order.subtotal \in Int64
      BY <1>2 DEF Order
    <3> HIDE DEF total, order
    <3>3. QED
      BY <3>1, <3>2, Amounts
  <2>2. Append(order.lines, line) \in Seq(Line)
    BY <1>2, <1>6 DEF Order
  <2> HIDE DEF line, total
  <2>3. QED
    BY <1>2, <2>1, <2>2 DEF Order
<1>10. ASSUME NEW i \in DOMAIN new.lines
       PROVE  LineOK(new, i)
  <2>1. order.lines \in Seq(Line)
    BY <1>2 DEF Order
  <2>2. CASE i = k
    <3>1. new.lines[i] = line
      <4> HIDE DEF new, line, order
      <4>1. QED
        BY <1>5, <1>9, <2>1, <2>2
    <3>2. /\ line.type = x.type /\ line.night = night /\ line.sure = j.alone
          /\ day = new.from \div 24
      <4> HIDE DEF new
      <4>1. QED
        BY <1>9 DEF FirstNight
    <3>3. pick = new.picks[i] /\ new.stale = order.stale
      <4> HIDE DEF new
      <4>1. QED
        BY <1>9, <2>2
    <3> HIDE DEF new, line, order, pick, night, day, j, k
    <3>4. QED
      BY <1>4, <1>7, <1>8, <3>1, <3>2, <3>3 DEF LineOK
  <2>3. CASE i # k
    <3>1. i \in DOMAIN order.lines /\ new.lines[i] = order.lines[i]
      <4> HIDE DEF new, line, order
      <4>1. QED
        BY <1>5, <1>9, <2>1, <2>3
    <3>2. LineOK(order, i)
      BY <1>2, <3>1
    <3> HIDE DEF new, order
    <3>3. QED
      BY <1>9, <3>1, <3>2 DEF LineOK
  <2>4. QED
    BY <2>2, <2>3
<1>11. QED
  <2>1. orders[o] # Idle /\ new.at # "wait"
    BY <1>2, <1>9
  <2>2. new.at = "ask" => Len(new.lines) < Len(new.picks)
    <3>1. Len(new.lines) = k /\ Len(order.lines) \in Nat /\ Len(order.picks) \in Nat
      <4>1. order.lines \in Seq(Line) /\ order.picks \in Seq(Pick)
        BY <1>2 DEF Order
      <4> HIDE DEF new, order, line
      <4>2. QED
        BY <1>5, <1>9, <4>1
    <3> HIDE DEF new, order, k
    <3>2. QED
      BY <1>2, <1>5, <1>9, <3>1
  <2>3. QED
    <3> HIDE DEF new
    <3>1. QED
      BY <1>1, <1>9, <1>10, <2>1, <2>2, OrderAlone

LEMMA TakePriceStep ==
  ASSUME IInv, NEW o \in Orders, TakePrice(o)
  PROVE  IInv'
<1> DEFINE wanted == orders[o].picks[Len(orders[o].lines) + 1].type.id
           found  == {x \in items[o] : IsPicked(x, wanted)}
<1>1. At(o, "wait") /\ UNCHANGED catalogVars
  BY DEF TakePrice
<1>2. CASE found = {}
  <2>1. Refuse(o)
    BY <1>2 DEF TakePrice
  <2>2. QED
    BY <1>1, <2>1, OrderAlone DEF Refuse
<1>3. CASE found # {}
  <2>1. PICK x \in found : AddLine(o, x)
    BY <1>3 DEF TakePrice
  <2>2. x \in items[o] /\ x.type.id = orders[o].picks[Len(orders[o].lines) + 1].type.id
    BY DEF IsPicked
  <2>3. QED
    BY <1>1, <2>1, <2>2, AddLineStep
<1>4. QED
  BY <1>2, <1>3

LEMMA TimeoutStep ==
  ASSUME IInv, NEW o \in Orders, Timeout(o)
  PROVE  IInv'
<1>1. orders' = [orders EXCEPT ![o] = Idle] /\ orders \in [Orders -> Order \cup {Idle}]
  BY DEF Timeout, Refuse, IInv
<1>2. CASE UNCHANGED catalogVars
  BY <1>1, <1>2, OrderAlone
<1>3. CASE ~UNCHANGED catalogVars
  <2>1. CP!Fail(o) /\ o \in Workers
    BY <1>3, SameCatalog, SlotAssumption DEF Timeout
  <2>2. /\ orders' \in [Orders -> Order \cup {Idle}]
        /\ \A q \in Orders : orders'[q] = orders[q] \/ orders'[q] = Idle
    BY <1>1
  <2>3. \A r \in CP!RoomType : Picked(r)' => Picked(r)
    BY <1>1, PicksKept
  <2>4. QED
    BY <2>1, <2>2, <2>3, CallStep
<1>4. QED
  BY <1>2, <1>3

LEMMA CatalogStepStep ==
  ASSUME IInv, CatalogStep PROVE IInv'
<1>1. PICK w \in Workers : CP!HandlerStep(w) \/ CP!Fail(w) \/ (w \notin Orders /\ CP!StartSeed(w))
  BY SameCatalog DEF CatalogStep
<1>2. orders' = orders /\ orders' \in [Orders -> Order \cup {Idle}]
  BY DEF CatalogStep, IInv
<1>3. \A r \in CP!RoomType : Picked(r)' => Picked(r)
  BY <1>2 DEF Picked
<1>4. QED
  BY <1>1, <1>2, <1>3, CallStep

LEMMA AskPriceStep ==
  ASSUME IInv, NEW o \in Orders, AskPrice(o)
  PROVE  IInv'
<1> DEFINE day == FirstNight(orders[o])
           new == [orders[o] EXCEPT !.at = "wait"]
<1>1. /\ orders[o] # Idle /\ orders[o].at = "ask" /\ orders[o] \in Order
      /\ orders' = [orders EXCEPT ![o] = new]
      /\ orders \in [Orders -> Order \cup {Idle}]
      /\ CP!StartQuote(o, day, day + 1, 0) /\ o \in Workers
  BY SameCatalog, SlotAssumption DEF AskPrice, At, IInv
<1>2. day \in Days /\ day + 1 \in Days /\ 0 \in Guests
  <2>1. orders[o].from \in CheckIns
    BY <1>1 DEF Order
  <2>2. QED
    BY <2>1, StayAssumption, SlotAssumption DEF FirstNight
<1>3. CP!IInv'
  <2>1. CP!Next
    BY <1>1, <1>2 DEF CP!Next
  <2>2. QED
    BY <2>1, CatalogConstants, CP!StepIInv DEF IInv
<1>4. /\ new \in Order /\ new.at = "wait" /\ new.picks = orders[o].picks
      /\ new.stale = orders[o].stale /\ new.lines = orders[o].lines /\ new.from = orders[o].from
  BY <1>1 DEF Order
<1>5. OneTypePerId'
  <2>1. nextId' = nextId /\ \A r \in CP!RoomType : Held(r)' => Held(r)
    BY <1>1, BeginHolds DEF IInv, CP!IInv
  <2>2. \A r \in CP!RoomType : Picked(r)' => Picked(r)
    <3> HIDE DEF new
    <3>1. QED
      BY <1>1, <1>4, PicksKept
  <2>3. QED
    BY <2>1, <2>2, IdsKept DEF IInv, CP!IInv
<1>6. OneNight(o)' /\ (jobs'[o] # Idle => jobs'[o].from = day)
  <2>1. /\ jobs \in [Workers -> Job \cup {Idle}]
        /\ items = [v \in Workers |-> items[v]]
    BY DEF IInv, CP!IInv, CP!TypeOK, Job
  <2>2. /\ items'[o] = {} /\ jobs'[o].op = "quote" /\ jobs'[o].at = "list"
        /\ jobs'[o].from = day /\ jobs'[o].to = day + 1
    BY <1>1, <2>1 DEF CP!StartQuote
  <2>3. QED
    <3> HIDE DEF day
    <3>1. QED
      BY <2>2 DEF OneNight
<1>7. OrderOK(o)'
  <2>1. orders'[o] = new
    <3> HIDE DEF new
    <3>1. QED
      BY <1>1
  <2>2. Len(new.lines) < Len(new.picks) /\ \A i \in DOMAIN new.lines : LineOK(new, i)
    <3>1. /\ Len(orders[o].lines) < Len(orders[o].picks)
          /\ \A i \in DOMAIN orders[o].lines : LineOK(orders[o], i)
      BY <1>1 DEF IInv, OrderOK
    <3> HIDE DEF new
    <3>2. QED
      BY <1>4, <3>1 DEF LineOK
  <2>3. FirstNight(new) = day
    <3> HIDE DEF new
    <3>1. QED
      BY <1>4 DEF FirstNight
  <2>4. QED
    <3> HIDE DEF new, day
    <3>1. QED
      BY <1>6, <2>1, <2>2, <2>3 DEF OrderOK, At, LineOK
<1>8. ASSUME NEW q \in Orders, q # o PROVE OneNight(q)' /\ OrderOK(q)'
  <2>1. /\ OneNight(q)'
        /\ jobs'[q] # Idle => jobs[q] # Idle /\ jobs'[q].from = jobs[q].from
    BY <1>1, <1>8, NightKept, SlotAssumption DEF IInv
  <2>2. orders'[q] = orders[q]
    BY <1>1, <1>8
  <2>3. QED
    BY <2>1, <2>2, OrderKept DEF IInv
<1>9. orders' \in [Orders -> Order \cup {Idle}]
  <2> HIDE DEF new
  <2>1. QED
    BY <1>1, <1>4
<1>10. QED
  BY <1>3, <1>5, <1>6, <1>7, <1>8, <1>9 DEF IInv

(* A restart of the catalog outdates what the orders were given for.       *)
LEMMA RestartCatalogStep ==
  ASSUME IInv, RestartCatalog PROVE IInv'
<1>1. CP!Restart /\ orders \in [Orders -> Order \cup {Idle}]
  BY SameCatalog DEF RestartCatalog, IInv
<1>2. \A o \in Orders :
        orders'[o] = IF orders[o] = Idle THEN Idle ELSE [orders[o] EXCEPT !.stale = TRUE]
  BY DEF RestartCatalog
<1>3. \A o \in Orders : orders[o] # Idle =>
        /\ orders'[o] \in Order /\ orders'[o].at = orders[o].at /\ orders'[o].stale
        /\ orders'[o].picks = orders[o].picks /\ orders'[o].lines = orders[o].lines
        /\ orders'[o].from = orders[o].from
  BY <1>1, <1>2 DEF Order
<1>4. CP!IInv'
  <2>1. CP!Next
    BY <1>1 DEF CP!Next
  <2>2. QED
    BY <2>1, CatalogConstants, CP!StepIInv DEF IInv
<1>5. OneTypePerId'
  <2>1. CP!TypeOK
    BY DEF IInv, CP!IInv
  <2>2. \A r : ~Picked(r)'
    BY <1>2, <1>3 DEF Picked
  <2>3. \/ nextId' = nextId /\ \A r \in CP!RoomType : Held(r)' => Held(r)
        \/ \A r \in CP!RoomType : ~Held(r)'
    BY <1>1, <2>1, RestartHolds
  <2>4. QED
    BY <2>1, <2>2, <2>3, IdsKept DEF IInv
<1>6. ASSUME NEW o \in Orders PROVE OneNight(o)' /\ OrderOK(o)'
  <2>1. jobs'[o] = Idle
    BY <1>1, SlotAssumption DEF CP!Restart
  <2>2. OrderOK(o)'
    <3>1. CASE orders[o] = Idle
      BY <1>2, <3>1 DEF OrderOK
    <3>2. CASE orders[o] # Idle
      <4>1. /\ orders[o].at \in {"ask", "wait"} => Len(orders[o].lines) < Len(orders[o].picks)
            /\ \A i \in DOMAIN orders[o].lines : LineOK(orders[o], i)
        BY <3>2 DEF IInv, OrderOK
      <4>2. \A i \in DOMAIN orders'[o].lines : LineOK(orders'[o], i)
        BY <1>3, <3>2, <4>1 DEF LineOK
      <4>3. QED
        BY <1>3, <2>1, <3>2, <4>1, <4>2 DEF OrderOK, At, LineOK
    <3>3. QED
      BY <3>1, <3>2
  <2>3. QED
    BY <2>1, <2>2 DEF OneNight
<1>7. orders' \in [Orders -> Order \cup {Idle}]
  <2>1. \A o \in Orders : orders'[o] \in Order \cup {Idle}
    BY <1>2, <1>3
  <2>2. orders' = [o \in Orders |-> orders'[o]]
    BY DEF RestartCatalog
  <2>3. QED
    BY <2>1, <2>2
<1>8. QED
  BY <1>4, <1>5, <1>6, <1>7 DEF IInv

(* The booking service stops: its requests to the catalog are quotes, so   *)
(* that giving them all up at once disturbs no seed.                       *)
LEMMA CrashStep ==
  ASSUME IInv, Crash PROVE IInv'
<1>1. /\ \A w \in Workers : /\ jobs'[w] = IF w \in Orders THEN Idle ELSE jobs[w]
                            /\ items'[w] = IF w \in Orders THEN {} ELSE items[w]
      /\ UNCHANGED <<types, inventory, nextId, broken>>
      /\ \A o \in Orders : orders'[o] = Idle
  BY DEF Crash
<1>2. \A o \in Orders : o \in Workers /\ ~CP!Seeding(o)
  BY SlotAssumption DEF IInv, OneNight, CP!Seeding, CP!Running
<1>3. CP!TypeOK'
  <2>1. /\ jobs' \in [Workers -> CP!SeedJob \cup CP!QuoteJob \cup {Idle}]
        /\ items' = [w \in Workers |-> items'[w]]
    BY DEF Crash, IInv, CP!IInv, CP!TypeOK
  <2>2. \A w \in Workers : \A x \in items'[w] : jobs'[w] # Idle /\ CP!IsItem(x, jobs'[w])
    BY <1>1 DEF IInv, CP!IInv, CP!TypeOK
  <2>3. QED
    BY <1>1, <2>1, <2>2 DEF IInv, CP!IInv, CP!TypeOK, CP!IsItem
<1>4. CP!AloneOK' /\ CP!NeverOvercharged'
  BY <1>1 DEF IInv, CP!IInv, CP!AloneOK, CP!Seeding, CP!Running, CP!NeverOvercharged
<1>5. CP!Stocked'
  <2>1. ASSUME NEW r, NEW v \in Workers, CP!ToFill(r, v)
        PROVE  CP!ToFill(r, v)'
    <3>1. v \notin Orders
      BY <2>1 DEF IInv, OneNight, CP!ToFill
    <3>2. QED
      BY <1>1, <2>1, <3>1 DEF CP!ToFill
  <2>2. QED
    BY <1>1, <2>1 DEF IInv, CP!IInv, CP!Stocked, CP!Filled
<1>6. ASSUME NEW w \in Workers PROVE CP!WorkerOK(w)'
  <2>1. CP!WorkerOK(w)
    BY DEF IInv, CP!IInv
  <2>2. CP!LocalOK(w)'
    BY <1>1, <2>1 DEF CP!WorkerOK, CP!LocalOK
  <2>3. CP!SeedOK(w)'
    BY <1>1, <2>1 DEF CP!WorkerOK, CP!SeedOK
  <2>4. CP!QuoteOK(w)'
    BY <1>1, <2>1 DEF CP!WorkerOK, CP!QuoteOK, CP!Large, CP!Complete
  <2>5. QED
    BY <2>2, <2>3, <2>4 DEF CP!WorkerOK
<1>7. CP!IInv'
  BY <1>3, <1>4, <1>5, <1>6 DEF CP!IInv
<1>8. OneTypePerId'
  <2>1. \A r : Held(r)' => Held(r)
    BY <1>1 DEF Held
  <2>2. \A r : ~Picked(r)'
    BY <1>1 DEF Picked
  <2>3. QED
    BY <1>1, <2>1, <2>2, IdsKept DEF IInv, CP!IInv
<1>9. /\ \A o \in Orders : OneNight(o)' /\ OrderOK(o)'
      /\ orders' \in [Orders -> Order \cup {Idle}]
  BY <1>1, <1>2 DEF OneNight, OrderOK, Crash
<1>10. QED
  BY <1>7, <1>8, <1>9 DEF IInv

-----------------------------------------------------------------------------
LEMMA InitIInv == Init => IInv
<1> SUFFICES ASSUME Init PROVE IInv
  OBVIOUS
<1>1. CP!IInv
  BY SameCatalog, CatalogConstants, CP!InitIInv DEF Init
<1>2. /\ types = {} /\ \A w \in Workers : jobs[w] = Idle /\ items[w] = {}
  BY SameCatalog DEF Init, CP!Init
<1>3. orders \in [Orders -> Order \cup {Idle}] /\ \A o \in Orders : orders[o] = Idle
  BY DEF Init
<1>4. OneTypePerId
  BY <1>2, <1>3 DEF OneTypePerId, Held, Picked
<1>5. QED
  BY <1>1, <1>2, <1>3, <1>4, SlotAssumption DEF IInv, OneNight, OrderOK

LEMMA NextIInv == IInv /\ [Next]_vars => IInv'
<1> SUFFICES ASSUME IInv, [Next]_vars PROVE IInv'
  OBVIOUS
<1>1. ASSUME NEW o \in Orders, OrderStep(o) PROVE IInv'
  BY <1>1, AskPriceStep, TakePriceStep, TimeoutStep, EndStep DEF OrderStep
<1>2. ASSUME NEW o \in Orders, NEW from \in CheckIns, NEW to \in CheckOuts,
             NEW n \in 1..MaxItems, NEW picks \in [1..n -> Picks],
             StartOrder(o, from, to, picks)
      PROVE  IInv'
  BY <1>2, StartOrderStep
<1>3. CASE UNCHANGED vars
  <2>1. UNCHANGED catalogVars /\ orders' = orders
    BY <1>3 DEF vars
  <2>2. jobs' = jobs
    BY <2>1 DEF catalogVars
  <2>3. \A o \in Orders : OrderOK(o)'
    BY <2>1, <2>2, OrderKept DEF IInv
  <2>4. \A r \in CP!RoomType : Picked(r)' => Picked(r) \/ r \in types
    BY <2>1 DEF Picked
  <2>5. QED
    BY <2>1, <2>3, <2>4, QuietStep DEF IInv
<1>4. QED
  BY <1>1, <1>2, <1>3, CrashStep, CatalogStepStep, RestartCatalogStep DEF Next

THEOREM Invariant == Spec => []IInv
BY InitIInv, NextIInv, PTL DEF Spec

(* The tables, the requests and the orders keep their types.               *)
THEOREM TypeCorrect == Spec => []TypeOK
<1>1. IInv => TypeOK
  BY SameCatalog DEF IInv, CP!IInv, TypeOK
<1>2. QED
  BY <1>1, Invariant, PTL

(* A booking is of the room types that the client picked, though seeds     *)
(* change the types under the ids, unless the catalog restarted meanwhile. *)
THEOREM BookedAsPickedAlways == Spec => []BookedAsPicked
<1>1. IInv => BookedAsPicked
  BY DEF IInv, OrderOK, LineOK, BookedAsPicked
<1>2. QED
  BY <1>1, Invariant, PTL

(* An item costs the weekend price only if its first night is a weekend's, *)
(* and then does unless a seed was under way as the price was read.        *)
THEOREM PricedByDayAlways == Spec => []PricedByDay
<1>1. IInv => PricedByDay
  BY DEF IInv, OrderOK, LineOK, PricedByDay
<1>2. QED
  BY <1>1, Invariant, PTL

-----------------------------------------------------------------------------
(* What an order costs.  Owed is a recursive function: instead of an       *)
(* induction over the lines, that it is well defined and what it comes to  *)
(* are carried along as the order takes up one line after the other.       *)

IsSum(f, order) ==
  f = [i \in 0..Len(order.lines) |->
         IF i = 0 THEN 0
         ELSE f[i - 1] + Cost(order.lines[i], WholeDays(order.from, order.to))]

(* n, as int64 holds it: off by a number of wraps.                         *)
Wraps(n, held) == n \in Int /\ \E k \in Int : n = held + k * (2 * Word)

Summed(order) ==
  /\ order.nights = Nights(order.from, order.to)
  /\ \E f : IsSum(f, order)
  /\ \A f : IsSum(f, order) => Wraps(f[Len(order.lines)], order.subtotal)

SumsOK == \A o \in Orders : orders[o] # Idle => Summed(orders[o])

LEMMA OwedIsSum ==
  ASSUME NEW order, \E f : IsSum(f, order)
  PROVE  \E f : IsSum(f, order) /\ Owed(order) = f[Len(order.lines)]
BY DEF IsSum, Owed

LEMMA WholeDaysAreNights ==
  ASSUME NEW from \in Nat, NEW to \in Nat PROVE WholeDays(from, to) = Nights(from, to)
<1>1. Nights(from, to) \in Nat
  BY DEF Nights
<1>2. {d \in 1..to : from + 24 * d <= to} = 1..Nights(from, to)
  BY DEF Nights
<1>3. Cardinality(1..Nights(from, to)) = Nights(from, to)
  BY <1>1, FS_Interval
<1>4. QED
  BY <1>2, <1>3 DEF WholeDays

LEMMA Euclid ==
  ASSUME NEW m \in Int, NEW c \in Int, c > 0
  PROVE  m \div c \in Int /\ m % c \in Int /\ m = c * (m \div c) + (m % c)
<1>1. m \div c \in Int /\ m % c \in Int
  OBVIOUS
<1>2. m = c * (m \div c) + (m % c)
  OBVIOUS
<1>3. QED
  BY <1>1, <1>2

LEMMA WrapWraps == ASSUME NEW n \in Int PROVE Wraps(n, Wrap(n))
<1> DEFINE m == n + Word
           c == 2 * Word
           k == m \div c
<1>1. Word \in Nat \ {0} /\ m \in Int /\ c \in Int /\ c > 0
  BY PriceAssumption
<1>2. Wrap(n) = (m % c) - Word
  BY DEF Wrap
<1>3. m = c * k + (m % c) /\ k \in Int /\ m % c \in Int
  <2> HIDE DEF m, c
  <2>1. QED
    BY <1>1, Euclid
<1>4. n = m - Word
  BY <1>1
<1> HIDE DEF k, c, m
<1>5. n = Wrap(n) + k * c
  <2> DEFINE r == m % c
             s == k * c
  <2>1. c * k = s /\ s \in Int
    BY <1>1, <1>3
  <2>2. r \in Int /\ m = c * k + r /\ Wrap(n) = r - Word
    BY <1>2, <1>3
  <2> HIDE DEF r, s
  <2>3. n = Wrap(n) + s
    BY <1>1, <1>4, <2>1, <2>2
  <2>4. QED
    BY <2>3 DEF s
<1>6. QED
  BY <1>3, <1>5 DEF Wraps, c

(* Sums and products of what wrapped wrap to the same.                     *)
LEMMA SumWraps ==
  ASSUME NEW a, NEW b, NEW x \in Int, NEW y \in Int, Wraps(a, x), Wraps(b, y)
  PROVE  Wraps(a + b, Wrap(x + y))
<1>1. PICK k \in Int : a = x + k * (2 * Word)
  BY DEF Wraps
<1>2. PICK l \in Int : b = y + l * (2 * Word)
  BY DEF Wraps
<1>3. x + y \in Int
  OBVIOUS
<1>4. PICK h \in Int : x + y = Wrap(x + y) + h * (2 * Word)
  BY <1>3, WrapWraps DEF Wraps
<1>5. a \in Int /\ b \in Int /\ Wrap(x + y) \in Int /\ 2 * Word \in Int
  <2>1. a \in Int /\ b \in Int
    BY DEF Wraps
  <2>2. Int64 \subseteq Int /\ \A n \in Int : Wrap(n) \in Int64
    BY Amounts
  <2>3. 2 * Word \in Int
    BY PriceAssumption
  <2>4. QED
    BY <1>3, <2>1, <2>2, <2>3
<1>6. a + b = Wrap(x + y) + (h + k + l) * (2 * Word)
  <2> DEFINE c == 2 * Word
             z == Wrap(x + y)
  <2> HIDE DEF c, z
  <2>1. c \in Int /\ z \in Int
    BY <1>5 DEF c, z
  <2>2. a = x + k * c /\ b = y + l * c /\ x + y = z + h * c
    BY <1>1, <1>2, <1>4 DEF c, z
  <2>3. a + b = z + (h + k + l) * c
    BY <2>1, <2>2
  <2>4. QED
    BY <2>3 DEF c, z
<1>7. h + k + l \in Int /\ a + b \in Int
  BY <1>5
<1>8. QED
  BY <1>6, <1>7 DEF Wraps

LEMMA LineWraps ==
  ASSUME NEW q \in Int, NEW n \in Int, NEW p \in Int
  PROVE  Wraps(q * n * p, LineTotal(q, n, p))
<1> DEFINE a == q * n
           x == Wrap(a)
           z == Wrap(x * p)
           c == 2 * Word
<1>1. a \in Int /\ x \in Int /\ x * p \in Int /\ z \in Int /\ c \in Int
  <2>1. a \in Int /\ c \in Int
    BY PriceAssumption
  <2>2. x \in Int
    <3> HIDE DEF a
    <3>1. QED
      BY <2>1, Amounts
  <2>3. x * p \in Int
    <3> HIDE DEF x
    <3>1. QED
      BY <2>2
  <2>4. z \in Int
    <3> HIDE DEF x
    <3>1. QED
      BY <2>3, Amounts
  <2>5. QED
    BY <2>1, <2>2, <2>3, <2>4
<1>2. PICK k \in Int : a = x + k * c
  <2> HIDE DEF a
  <2>1. QED
    BY <1>1, WrapWraps DEF Wraps
<1>3. PICK l \in Int : x * p = z + l * c
  <2> HIDE DEF x
  <2>1. QED
    BY <1>1, WrapWraps DEF Wraps
<1>4. q * n * p = a * p /\ LineTotal(q, n, p) = z
  BY DEF LineTotal
<1> HIDE DEF a, x, z, c
<1>5. a * p = z + (l + k * p) * c
  <2>1. a * p = x * p + (k * c) * p
    BY <1>1, <1>2
  <2>2. (k * c) * p = (k * p) * c
    BY <1>1
  <2>3. (l + k * p) * c = l * c + (k * p) * c
    BY <1>1
  <2> DEFINE s == x * p
             t == (k * p) * c
             u == l * c
  <2>4. s \in Int /\ t \in Int /\ u \in Int
    BY <1>1
  <2> HIDE DEF s, t, u
  <2>5. a * p = s + t /\ s = z + u /\ (l + k * p) * c = u + t
    BY <1>3, <2>1, <2>2, <2>3 DEF s, t, u
  <2>6. QED
    BY <1>1, <2>4, <2>5
<1>6. l + k * p \in Int /\ a * p \in Int
  BY <1>1
<1>7. QED
  BY <1>4, <1>5, <1>6 DEF Wraps, c

-----------------------------------------------------------------------------
(* The sum of an order that has not changed its lines or its stay.         *)
LEMMA SummedSame ==
  ASSUME NEW order, NEW new, Summed(order),
         new.from = order.from, new.to = order.to, new.nights = order.nights,
         new.lines = order.lines, new.subtotal = order.subtotal
  PROVE  Summed(new)
<1>1. \A f : IsSum(f, new) <=> IsSum(f, order)
  BY DEF IsSum
<1>2. QED
  BY <1>1 DEF Summed

LEMMA SummedNone ==
  ASSUME NEW order, order.nights = Nights(order.from, order.to), order.lines = <<>>,
         order.subtotal = 0
  PROVE  Summed(order)
<1> DEFINE zero == [i \in 0..0 |-> 0]
<1>1. Len(order.lines) = 0
  OBVIOUS
<1>2. ASSUME NEW f, IsSum(f, order) PROVE f[0] = 0
  BY <1>1, <1>2 DEF IsSum
<1>3. IsSum(zero, order)
  BY <1>1 DEF IsSum
<1>4. Wraps(0, 0)
  <2>1. 0 = 0 + 0 * (2 * Word)
    BY PriceAssumption
  <2>2. QED
    BY <2>1 DEF Wraps
<1>5. QED
  BY <1>1, <1>2, <1>3, <1>4 DEF Summed

(* The next line is the next summand.                                      *)
LEMMA SummedNext ==
  ASSUME NEW order \in Order, Summed(order), NEW line \in Line, NEW new,
         line.total = LineTotal(line.quantity, order.nights, PriceOf(line.type.name, line.night)),
         new.from = order.from, new.to = order.to, new.nights = order.nights,
         new.lines = Append(order.lines, line),
         new.subtotal = Wrap(order.subtotal + line.total)
  PROVE  Summed(new)
<1> DEFINE n    == Len(order.lines)
           days == WholeDays(order.from, order.to)
           cost == Cost(line, days)
<1>0. Int64 \subseteq Int /\ CheckIns \cup CheckOuts \subseteq Nat /\ Quantities \subseteq Int
  BY Amounts, StayAssumption
<1>1. /\ n \in Nat /\ order.lines \in Seq(Line) /\ order.nights \in Int /\ order.subtotal \in Int
      /\ order.from \in Nat /\ order.to \in Nat
  <2>1. order.lines \in Seq(Line) /\ order.nights \in Nat /\ order.subtotal \in Int64
    BY DEF Order
  <2>2. order.from \in CheckIns /\ order.to \in CheckOuts
    BY DEF Order
  <2>3. n \in Nat
    BY <2>1
  <2> HIDE DEF n
  <2>4. order.from \in Nat /\ order.to \in Nat
    BY <1>0, <2>2
  <2> HIDE DEF days, cost
  <2>5. order.nights \in Int /\ order.subtotal \in Int
    <3>1. order.subtotal \in Int
      BY <1>0, <2>1
    <3>2. order.nights \in Int
      BY <2>1
    <3>3. QED
      BY <3>1, <3>2
  <2>6. order.lines \in Seq(Line)
    BY <2>1
  <2>7. QED
    BY <2>3, <2>4, <2>5, <2>6
<1>2. days = order.nights
  BY <1>1, WholeDaysAreNights DEF Summed
<1>3. /\ Len(new.lines) = n + 1 /\ new.lines[n + 1] = line
      /\ \A i \in 1..n : new.lines[i] = order.lines[i]
  BY <1>1
<1>4. Wraps(cost, line.total) /\ line.total \in Int
  <2>1. line.quantity \in Int /\ line.type.name \in CP!Names /\ line.total \in Int
    BY <1>0, SameCatalog DEF Line, CP!RoomType
  <2>2. PriceOf(line.type.name, line.night) \in Int
    BY <2>1, PriceIsInt
  <2>3. QED
    BY <1>1, <1>2, <2>1, <2>2, LineWraps DEF Cost
<1> HIDE DEF n, cost
<1>5. ASSUME NEW f, IsSum(f, order)
      PROVE  IsSum([i \in 0..n + 1 |-> IF i = n + 1 THEN f[n] + cost ELSE f[i]], new)
  <2> DEFINE g == [i \in 0..n + 1 |-> IF i = n + 1 THEN f[n] + cost ELSE f[i]]
  <2>1. ASSUME NEW i \in 0..n + 1
        PROVE  g[i] = IF i = 0 THEN 0 ELSE g[i - 1] + Cost(new.lines[i], days)
    <3>1. CASE i = n + 1
      <4>1. i - 1 = n /\ n \in 0..n + 1 /\ n # n + 1 /\ i # 0
        BY <1>1, <3>1
      <4>2. g[i - 1] = f[n] /\ g[i] = f[n] + cost /\ Cost(new.lines[i], days) = cost
        BY <1>3, <3>1, <4>1 DEF cost
      <4>3. QED
        BY <4>1, <4>2
    <3>2. CASE i # n + 1
      <4>1. i \in 0..n
        BY <1>1, <3>2
      <4>2. f[i] = IF i = 0 THEN 0 ELSE f[i - 1] + Cost(order.lines[i], days)
        BY <1>5, <4>1 DEF IsSum, n
      <4>3. i # 0 => i \in 1..n /\ i - 1 \in 0..n + 1 /\ i - 1 # n + 1
        BY <1>1, <4>1
      <4>4. QED
        BY <1>3, <3>2, <4>2, <4>3
    <3>3. QED
      BY <3>1, <3>2
  <2> HIDE DEF days
  <2>2. g = [i \in 0..n + 1 |-> IF i = 0 THEN 0 ELSE g[i - 1] + Cost(new.lines[i], days)]
    BY <2>1
  <2>3. QED
    BY <1>3, <2>2 DEF IsSum, days
<1>6. ASSUME NEW f, IsSum(f, new)
      PROVE  IsSum([i \in 0..n |-> f[i]], order) /\ f[n + 1] = f[n] + cost
  <2> DEFINE g == [i \in 0..n |-> f[i]]
  <2>1. ASSUME NEW i \in 0..n + 1
        PROVE  f[i] = IF i = 0 THEN 0 ELSE f[i - 1] + Cost(new.lines[i], days)
    BY <1>3, <1>6 DEF IsSum
  <2>2. ASSUME NEW i \in 0..n
        PROVE  g[i] = IF i = 0 THEN 0 ELSE g[i - 1] + Cost(order.lines[i], days)
    <3>1. i \in 0..n + 1 /\ (i # 0 => i \in 1..n /\ i - 1 \in 0..n)
      BY <1>1
    <3>2. QED
      BY <1>3, <2>1, <3>1
  <2>3. f[n + 1] = f[n] + cost
    <3> DEFINE m == n + 1
    <3>1. m \in 0..n + 1 /\ m # 0 /\ m - 1 = n
      BY <1>1
    <3>2. new.lines[m] = line
      BY <1>3
    <3>3. f[m] = f[n] + cost => f[n + 1] = f[n] + cost
      OBVIOUS
    <3> HIDE DEF m, days
    <3>4. f[m] = IF m = 0 THEN 0 ELSE f[m - 1] + Cost(new.lines[m], days)
      BY <2>1, <3>1
    <3>5. QED
      BY <3>1, <3>2, <3>3, <3>4 DEF cost
  <2> HIDE DEF days
  <2>4. g = [i \in 0..n |-> IF i = 0 THEN 0 ELSE g[i - 1] + Cost(order.lines[i], days)]
    BY <2>2
  <2>5. QED
    BY <2>3, <2>4 DEF IsSum, days, n
<1>7. ASSUME NEW f, IsSum(f, new)
      PROVE  Wraps(f[n + 1], new.subtotal)
  <2>1. [i \in 0..n |-> f[i]][n] = f[n]
    BY <1>1
  <2>2. Wraps(f[n], order.subtotal)
    BY <1>6, <1>7, <2>1 DEF Summed, n
  <2>3. QED
    BY <1>1, <1>4, <1>6, <1>7, <2>2, SumWraps
<1>8. QED
  BY <1>3, <1>5, <1>7 DEF Summed

(* Less than a wrap apart, a sum and what int64 holds of it are the same.  *)
LEMMA NoWrap ==
  ASSUME NEW n \in Int64, NEW held \in Int64, Wraps(n, held) PROVE n = held
<1>1. PICK k \in Int : n = held + k * (2 * Word)
  BY DEF Wraps
<1> DEFINE c == 2 * Word
           s == k * c
<1>2. /\ Word \in Nat \ {0} /\ c \in Int /\ c > 0 /\ s \in Int
      /\ n \in Int /\ held \in Int /\ n - held < c /\ held - n < c
  BY PriceAssumption DEF Int64
<1>3. k >= 1 => s >= c
  BY <1>2
<1>4. k <= -1 => s <= -c
  BY <1>2
<1>5. k = 0 => s = 0
  BY <1>2
<1>6. n = held + s
  BY <1>1
<1> HIDE DEF c, s
<1>7. QED
  BY <1>2, <1>3, <1>4, <1>5, <1>6

-----------------------------------------------------------------------------
LEMMA SumsKept ==
  ASSUME IInv, SumsOK, [Next]_vars
  PROVE  SumsOK'
<1>1. orders \in [Orders -> Order \cup {Idle}]
  BY DEF IInv
<1>2. ASSUME NEW o \in Orders, NEW new, orders' = [orders EXCEPT ![o] = new],
             new # Idle => Summed(new)
      PROVE  SumsOK'
  <2>1. \A q \in Orders : orders'[q] = IF q = o THEN new ELSE orders[q]
    BY <1>1, <1>2
  <2>2. ASSUME NEW q \in Orders, orders'[q] # Idle PROVE Summed(orders[q])'
    <3>1. Summed(orders'[q])
      BY <1>2, <2>1, <2>2 DEF SumsOK
    <3>2. QED
      BY <3>1 DEF Summed, IsSum
  <2>3. QED
    BY <2>2 DEF SumsOK
<1>3. ASSUME \A o \in Orders : orders'[o] = orders[o] \/ orders'[o] = Idle
      PROVE  SumsOK'
  BY <1>3 DEF SumsOK, Summed, IsSum
<1>4. ASSUME NEW o \in Orders, NEW from \in CheckIns, NEW to \in CheckOuts, NEW picks,
             StartOrder(o, from, to, picks)
      PROVE  SumsOK'
  <2> DEFINE new == [at |-> "ask", picks |-> picks, lines |-> <<>>, from |-> from, to |-> to,
                     nights |-> Nights(from, to), subtotal |-> 0, stale |-> FALSE]
  <2>1. Summed(new)
    BY SummedNone
  <2> HIDE DEF new
  <2>2. orders' = [orders EXCEPT ![o] = new]
    BY <1>4 DEF StartOrder, new
  <2>3. QED
    BY <1>2, <2>1, <2>2
<1>5. ASSUME NEW o \in Orders, NEW at, orders[o] # Idle, orders' = [orders EXCEPT ![o].at = at]
      PROVE  SumsOK'
  <2> DEFINE new == [orders[o] EXCEPT !.at = at]
  <2>1. /\ new.from = orders[o].from /\ new.to = orders[o].to /\ new.nights = orders[o].nights
        /\ new.lines = orders[o].lines /\ new.subtotal = orders[o].subtotal
    BY <1>1, <1>5 DEF Order
  <2>2. orders' = [orders EXCEPT ![o] = new]
    BY <1>5
  <2> HIDE DEF new
  <2>3. Summed(new)
    BY <1>5, <2>1, SummedSame DEF SumsOK
  <2>4. QED
    BY <1>2, <2>2, <2>3
<1>6. ASSUME NEW o \in Orders, TakePrice(o) PROVE SumsOK'
  <2>1. CASE Refuse(o)
    BY <1>1, <1>3, <2>1 DEF Refuse
  <2>2. ASSUME NEW x \in items[o], AddLine(o, x) PROVE SumsOK'
    <3> DEFINE order == orders[o]
               k     == Len(order.lines) + 1
               pick  == order.picks[k]
               night == x.prices[FirstNight(order)]
               total == LineTotal(pick.quantity, order.nights, PriceOf(x.type.name, night))
               line  == [type |-> x.type, quantity |-> pick.quantity, night |-> night,
                         total |-> total, sure |-> jobs[o].alone]
               new   == [order EXCEPT !.lines = Append(@, line), !.subtotal = Wrap(@ + total),
                                      !.at = IF k = Len(order.picks) THEN "insert" ELSE "ask"]
    <3>1. orders' = [orders EXCEPT ![o] = new]
      BY <2>2 DEF AddLine
    <3>2. order \in Order /\ Summed(order)
      BY <1>1, <1>6 DEF TakePrice, At, SumsOK
    <3>3. line \in Line
      BY <1>6, NextLineTyped DEF TakePrice, NextLine
    <3>4. /\ line.total = LineTotal(line.quantity, order.nights, PriceOf(line.type.name, line.night))
          /\ line.total = total
      OBVIOUS
    <3>5. /\ new.from = order.from /\ new.to = order.to /\ new.nights = order.nights
          /\ new.lines = Append(order.lines, line)
          /\ new.subtotal = Wrap(order.subtotal + total)
      BY <3>2 DEF Order
    <3> HIDE DEF new, line, order, total
    <3>6. Summed(new)
      BY <3>2, <3>3, <3>4, <3>5, SummedNext
    <3>7. QED
      BY <1>2, <3>1, <3>6
  <2>3. QED
    BY <1>6, <2>1, <2>2 DEF TakePrice
<1>7. CASE RestartCatalog
  <2> DEFINE new(o) == [orders[o] EXCEPT !.stale = TRUE]
  <2>1. \A o \in Orders : orders'[o] = IF orders[o] = Idle THEN Idle ELSE new(o)
    BY <1>7 DEF RestartCatalog
  <2>2. ASSUME NEW o \in Orders, orders[o] # Idle
        PROVE  Summed(new(o))
    <3>1. /\ new(o).from = orders[o].from /\ new(o).to = orders[o].to
          /\ new(o).nights = orders[o].nights /\ new(o).lines = orders[o].lines
          /\ new(o).subtotal = orders[o].subtotal
      BY <1>1, <2>2 DEF Order
    <3> HIDE DEF new
    <3>2. QED
      BY <2>2, <3>1, SummedSame DEF SumsOK
  <2> HIDE DEF new
  <2>3. ASSUME NEW o \in Orders, orders'[o] # Idle PROVE Summed(orders[o])'
    <3>1. Summed(orders'[o])
      BY <2>1, <2>2, <2>3
    <3>2. QED
      BY <3>1 DEF Summed, IsSum
  <2>4. QED
    BY <2>3 DEF SumsOK
<1>8. ASSUME NEW o \in Orders, OrderStep(o) PROVE SumsOK'
  <2>1. CASE Timeout(o) \/ FailInsert(o)
    BY <1>1, <1>3, <2>1 DEF Timeout, FailInsert, Refuse
  <2>2. CASE AskPrice(o) \/ InsertBooking(o)
    BY <1>5, <2>2 DEF AskPrice, InsertBooking, At
  <2>3. QED
    BY <1>6, <1>8, <2>1, <2>2 DEF OrderStep
<1>9. CASE Crash \/ CatalogStep \/ UNCHANGED vars
  BY <1>3, <1>9 DEF Crash, CatalogStep, vars
<1>10. QED
  BY <1>4, <1>7, <1>8, <1>9 DEF Next

(* What the orders come to, whatever int64 makes of it, is what their      *)
(* lines cost: at every moment of every order, not only when it is booked. *)
LEMMA SumsAlways == Spec => []SumsOK
<1>1. Init => SumsOK
  BY DEF Init, SumsOK
<1>2. QED
  BY <1>1, SumsKept, Invariant, PTL DEF Spec

(* The total of a booking is what its lines cost for whole days of 24      *)
(* hours, whenever int64 can hold that, with any number of lines.          *)
THEOREM TotalExactAlways == Spec => []TotalExact
<1>1. ASSUME IInv, SumsOK PROVE TotalExact
  <2> SUFFICES ASSUME NEW o \in Orders, At(o, "insert") \/ At(o, "ok"),
                      Owed(orders[o]) \in Int64
               PROVE  orders[o].subtotal = Owed(orders[o])
    BY DEF TotalExact
  <2>1. orders[o] # Idle
    BY DEF At
  <2>2. Summed(orders[o])
    BY <1>1, <2>1 DEF SumsOK
  <2>3. orders[o].subtotal \in Int64
    BY <1>1, <2>1 DEF IInv, Order
  <2>4. Wraps(Owed(orders[o]), orders[o].subtotal)
    BY <2>2, OwedIsSum DEF Summed
  <2>5. QED
    BY <2>3, <2>4, NoWrap
<1>2. QED
  BY <1>1, SumsAlways, Invariant, PTL

(* What the catalog promises on its own it keeps while orders ask it for   *)
(* prices, give up on their quotes and are lost in crashes.                *)
THEOREM CatalogPromisesKept ==
  Spec => [](/\ CP!SoleSeedCompletes /\ CP!StockedWhenQuiet
             /\ CP!QuietQuoteExact /\ CP!NeverOvercharged)
<1>1. CP!IInv => CP!SoleSeedCompletes
  BY CatalogConstants, CP!SoleSeedComplete
<1>2. CP!IInv => CP!StockedWhenQuiet
  BY CatalogConstants, CP!QuietStocked
<1>3. CP!IInv => CP!QuietQuoteExact
  BY CatalogConstants, CP!QuietExact
<1>4. IInv => CP!IInv /\ CP!NeverOvercharged
  BY DEF IInv, CP!IInv
<1>5. QED
  BY <1>1, <1>2, <1>3, <1>4, Invariant, PTL

-----------------------------------------------------------------------------
(* The steps an order has before it: two for each item to be priced, and   *)
(* the insert.                                                             *)
StepsLeft(order) ==
  LET unpriced == Len(order.picks) - Len(order.lines)
  IN  CASE order.at = "ask"    -> 2 * unpriced + 1
        [] order.at = "wait"   -> 2 * unpriced
        [] order.at = "insert" -> 1
        [] order.at = "ok"     -> 0

(* The order goes on as it was but for a restart of the catalog.           *)
Unmoved(o) == orders'[o] \in {[orders[o] EXCEPT !.stale = b] : b \in BOOLEAN}

Advances ==
  \A o \in Orders : Running(o) /\ orders'[o] # Idle =>
    \/ StepsLeft(orders'[o]) \in 0..StepsLeft(orders[o]) - 1
    \/ ~OrderStep(o) /\ Unmoved(o)

(* Every step an order takes of its own leaves it fewer to take, and       *)
(* nothing the catalog or other orders do gives it more.                   *)
StepsCount == [][Advances]_vars

LEMMA Fewer ==
  ASSUME NEW m \in Nat, NEW n \in Nat, n < m
  PROVE  /\ 2 * (m - n) \in 0..(2 * (m - n) + 1) - 1
         /\ n + 1 = m => 1 \in 0..2 * (m - n) - 1
         /\ n + 1 # m => 2 * (m - (n + 1)) + 1 \in 0..2 * (m - n) - 1
OBVIOUS

(* Each step of an order that does not end it leaves it fewer.             *)
LEMMA OrderStepCounts ==
  ASSUME IInv, NEW o \in Orders, OrderStep(o), orders'[o] # Idle
  PROVE  StepsLeft(orders'[o]) \in 0..StepsLeft(orders[o]) - 1
<1> DEFINE order == orders[o]
           next  == orders'[o]
<1>1. /\ orders \in [Orders -> Order \cup {Idle}] /\ order \in Order
      /\ order.at \in {"ask", "wait"} => Len(order.lines) < Len(order.picks)
  BY DEF IInv, OrderOK, OrderStep, AskPrice, TakePrice, Timeout, InsertBooking, FailInsert, At
<1>2. Len(order.picks) \in Nat /\ Len(order.lines) \in Nat
  BY <1>1 DEF Order
<1> DEFINE m == Len(order.picks)
           n == Len(order.lines)
<1>3. /\ order.at = "ask" => StepsLeft(order) = 2 * (m - n) + 1
      /\ order.at = "wait" => StepsLeft(order) = 2 * (m - n)
      /\ order.at = "insert" => StepsLeft(order) = 1
  BY DEF StepsLeft
<1>4. ~Timeout(o) /\ ~FailInsert(o)
  BY <1>1 DEF Timeout, FailInsert, Refuse
<1>5. CASE AskPrice(o)
  <2>1. order.at = "ask" /\ next = [order EXCEPT !.at = "wait"]
    BY <1>1, <1>5 DEF AskPrice, At
  <2>2. next.at = "wait" /\ next.picks = order.picks /\ next.lines = order.lines
    BY <1>1, <2>1 DEF Order
  <2>3. StepsLeft(next) = 2 * (m - n)
    BY <2>2 DEF StepsLeft
  <2>4. QED
    BY <1>1, <1>2, <1>3, <2>1, <2>3, Fewer
<1>6. CASE TakePrice(o)
  <2>1. PICK x \in items[o] : AddLine(o, x)
    BY <1>1, <1>6 DEF TakePrice, Refuse
  <2> DEFINE k     == Len(order.lines) + 1
             pick  == order.picks[k]
             night == x.prices[FirstNight(order)]
             total == LineTotal(pick.quantity, order.nights, PriceOf(x.type.name, night))
             line  == [type |-> x.type, quantity |-> pick.quantity, night |-> night,
                       total |-> total, sure |-> jobs[o].alone]
  <2>2. next = [order EXCEPT !.lines = Append(@, line), !.subtotal = Wrap(@ + total),
                             !.at = IF k = Len(order.picks) THEN "insert" ELSE "ask"]
    BY <1>1, <2>1 DEF AddLine
  <2>3. order.at = "wait"
    BY <1>6 DEF TakePrice, At
  <2> HIDE DEF line, total
  <2>4. /\ next.picks = order.picks /\ next.lines = Append(order.lines, line)
        /\ next.at = IF k = Len(order.picks) THEN "insert" ELSE "ask"
    BY <1>1, <2>2 DEF Order
  <2>5. Len(next.lines) = k
    <3>1. order.lines \in Seq(Line)
      BY <1>1 DEF Order
    <3>2. Len(Append(order.lines, line)) = Len(order.lines) + 1
      BY <3>1
    <3>3. QED
      BY <2>4, <3>2
  <2>6. StepsLeft(next) = IF k = m THEN 1 ELSE 2 * (m - k) + 1
    BY <2>4, <2>5 DEF StepsLeft
  <2>7. QED
    BY <1>1, <1>2, <1>3, <2>3, <2>6, Fewer
<1>7. CASE InsertBooking(o)
  <2>1. order.at = "insert" /\ next = [order EXCEPT !.at = "ok"]
    BY <1>1, <1>7 DEF InsertBooking, At
  <2>2. next.at = "ok"
    BY <1>1, <2>1 DEF Order
  <2>3. QED
    BY <2>1, <2>2 DEF StepsLeft
<1>8. QED
  BY <1>4, <1>5, <1>6, <1>7 DEF OrderStep

(* An order comes to its end in as many steps as its items call for,       *)
(* whatever seeds, restarts and other orders do meanwhile.                 *)
THEOREM OrdersRunOut == Spec => StepsCount
<1>1. ASSUME IInv, [Next]_vars, NEW o \in Orders, Running(o), orders'[o] # Idle,
             ~(StepsLeft(orders'[o]) \in 0..StepsLeft(orders[o]) - 1)
      PROVE  ~OrderStep(o) /\ Unmoved(o)
  <2>1. orders \in [Orders -> Order \cup {Idle}] /\ orders[o] \in Order
    BY <1>1 DEF IInv, Running
  <2>2. ~OrderStep(o)
    BY <1>1, OrderStepCounts
  <2>3. ASSUME orders'[o] = orders[o] PROVE Unmoved(o)
    <3>1. orders[o] = [orders[o] EXCEPT !.stale = orders[o].stale] /\ orders[o].stale \in BOOLEAN
      BY <2>1 DEF Order
    <3>2. QED
      BY <2>3, <3>1 DEF Unmoved
  <2>4. ASSUME NEW q \in Orders, NEW from \in CheckIns, NEW to \in CheckOuts,
               NEW n \in 1..MaxItems, NEW picks \in [1..n -> Picks], StartOrder(q, from, to, picks)
        PROVE  Unmoved(o)
    <3>1. q # o
      BY <1>1, <2>4 DEF StartOrder
    <3>2. QED
      BY <2>1, <2>3, <2>4, <3>1 DEF StartOrder
  <2>5. ASSUME NEW q \in Orders, OrderStep(q) PROVE Unmoved(o)
    <3>1. q # o
      BY <2>2, <2>5
    <3>2. orders'[o] = orders[o]
      BY <2>1, <2>5, <3>1 DEF OrderStep, AskPrice, TakePrice, AddLine, Timeout,
                              InsertBooking, FailInsert, Refuse
    <3>3. QED
      BY <2>3, <3>2
  <2>6. ASSUME RestartCatalog PROVE Unmoved(o)
    BY <1>1, <2>1, <2>6 DEF RestartCatalog, Unmoved
  <2>7. ~Crash
    BY <1>1 DEF Crash
  <2>8. ASSUME CatalogStep \/ UNCHANGED vars PROVE Unmoved(o)
    BY <2>3, <2>8 DEF CatalogStep, vars
  <2>9. Unmoved(o)
    BY <1>1, <2>4, <2>5, <2>6, <2>7, <2>8 DEF Next
  <2>10. QED
    BY <2>2, <2>9
<1>2. IInv /\ [Next]_vars => Advances
  BY <1>1 DEF Advances
<1>3. QED
  BY <1>2, Invariant, PTL DEF Spec, StepsCount

-----------------------------------------------------------------------------
(* SeedSample's float64 product: whatever the base price, the price of a   *)
(* weekend night is not below it, never more than 15 per cent above it,    *)
(* and at most one unit short of that.                                     *)
THEOREM WeekendPriceBounds ==
  ASSUME NEW base \in Nat
  PROVE  /\ base <= WeekendPrice(base)
         /\ 100 * WeekendPrice(base) <= 115 * base
         /\ 115 * base <= 100 * WeekendPrice(base) + 100
<1> DEFINE n == (115 * base) \div 100
<1>1. n \in Nat /\ 100 * n <= 115 * base /\ 115 * base < 100 * n + 100
  OBVIOUS
<1>2. WeekendPrice(base) = n \/ (base > 0 /\ 100 * n = 115 * base /\ WeekendPrice(base) = n - 1)
  BY DEF WeekendPrice
<1> HIDE DEF n
<1>3. n \in Nat /\ base <= n
  BY <1>1
<1>4. base > 0 /\ 100 * n = 115 * base => base <= n - 1
  BY <1>1
<1>5. CASE WeekendPrice(base) = n
  BY <1>1, <1>3, <1>5
<1>6. CASE base > 0 /\ 100 * n = 115 * base /\ WeekendPrice(base) = n - 1
  BY <1>1, <1>3, <1>4, <1>6
<1>7. QED
  BY <1>2, <1>5, <1>6
=============================================================================
