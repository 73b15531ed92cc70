----------------------- MODULE CatalogService_proofs -----------------------
(***************************************************************************)
(* Theorems about CatalogService, for any sample room types, any length of *)
(* the window, any calendar of weekends and any number of requests.        *)
(***************************************************************************)
EXTENDS CatalogService, FiniteSetTheorems, TLAPS

Job    == SeedJob \cup QuoteJob
tables == <<types, inventory>>

(* What a request knows of itself, whatever the others do.                 *)
LocalOK(w) == jobs[w] # Idle =>
  LET j == jobs[w]
  IN  /\ j.op = "seed" => items[w] = {}
      /\ j.at \in {"inventory", "types"} => j.next = 1
      /\ j.op = "seed" /\ j.at # "fill" => j.day = 1
      /\ j.at = "insert" => j.next <= Len(Samples)
      /\ j.at \in {"fill", "stock", "prices"} => j.cur # NoType
      /\ j.op = "quote" => j.from < j.to

AloneOK ==
  \A w, v \in Workers : jobs[w] # Idle /\ jobs[w].alone /\ v # w => ~Seeding(v)

(* There is one row of each name in N and none of another.                 *)
OneEach(rows, N) ==
  /\ \A r \in rows : r.name \in N
  /\ \A n \in N : \E r \in rows : r.name = n /\ \A s \in rows : s.name = n => s = r

Inserted(next) == {Samples[k] : k \in 1..next - 1}
Nights(set)    == {r.id : r \in set} \X (1..Window)

(* How far a seed that no other disturbed has come at each of its calls.   *)
SeedOK(w) ==
  LET j == jobs[w]
  IN  jobs[w] # Idle /\ j.op = "seed" /\ j.alone =>
        /\ j.at \in {"types", "insert", "list"} => inventory = {}
        /\ j.at = "insert" => OneEach(types, Inserted(j.next))
        /\ j.at \in {"list", "fill", "ok"} => OneEach(types, Names)
        /\ j.at = "fill" =>
             /\ j.cur \in types \ j.list /\ j.list \subseteq types
             /\ inventory = Nights(types \ (j.list \cup {j.cur}))
                              \cup ({j.cur.id} \X (1..j.day - 1))
        /\ j.at = "ok" => inventory = Nights(types)

(* How far a quote has come that reads a complete catalog.                 *)
Large(j)    == {r \in types : Fits(r, j.guests)}
Exact(r, j) == [type   |-> r,
                prices |-> [n \in j.from..j.to - 1 |->
                              IF n \in Weekend THEN "weekend" ELSE "base"]]
Exacts(set, j) == {Exact(r, j) : r \in set}

QuoteOK(w) ==
  LET j == jobs[w]
  IN  /\ jobs[w] # Idle /\ j.op = "quote" /\ j.alone
      /\ Complete /\ j.from >= 1 /\ j.to - 1 <= Window
      =>
        /\ j.at = "list" => items[w] = {}
        /\ j.at \in {"stock", "prices"} =>
             /\ j.cur \in Large(j) \ j.list /\ j.list \subseteq Large(j)
             /\ items[w] = Exacts(Large(j) \ (j.list \cup {j.cur}), j)
        /\ j.at = "ok" => items[w] = Exacts(Large(j), j)

(* What keeps StockedWhenQuiet while seeds are under way: a type that has  *)
(* not all of its nights yet will be wiped, or listed, or filled.          *)
ToFill(r, v) ==
  LET j == jobs[v]
  IN  /\ jobs[v] # Idle /\ j.op = "seed"
      /\ \/ j.at \in {"types", "insert", "list"}
         \/ j.at = "fill" /\ r \in j.list
         \/ j.at = "fill" /\ r = j.cur /\ \A d \in 1..j.day - 1 : <<r.id, d>> \in inventory

Filled(r) == \A d \in 1..Window : <<r.id, d>> \in inventory
Stocked   == ~broken => \A r \in types : Filled(r) \/ \E v \in Workers : ToFill(r, v)

WorkerOK(w) == LocalOK(w) /\ SeedOK(w) /\ QuoteOK(w)

(* The inductive invariant.                                                *)
IInv ==
  /\ TypeOK /\ AloneOK /\ Stocked /\ NeverOvercharged
  /\ \A w \in Workers : WorkerOK(w)

-----------------------------------------------------------------------------
(* A job goes on to the next room type of its list, or comes to its end.   *)
LEMMA OnwardSeed ==
  ASSUME NEW j \in SeedJob, NEW k \in Onward(j, "fill")
  PROVE  /\ k \in SeedJob /\ k.alone = j.alone /\ k.day = j.day
         /\ \/ j.list = {} /\ k.at = "ok"
            \/ k.at = "fill" /\ k.cur \in j.list /\ k.cur # NoType /\ k.list = j.list \ {k.cur}
<1>1. CASE j.list = {}
  <2>1. k = [j EXCEPT !.at = "ok", !.cur = NoType]
    BY <1>1 DEF Onward
  <2>2. QED
    BY <2>1, <1>1 DEF SeedJob
<1>2. CASE j.list # {}
  <2>1. PICK r \in j.list : k = [j EXCEPT !.at = "fill", !.cur = r, !.list = j.list \ {r}]
    BY <1>2 DEF Onward
  <2>2. r \in RoomType /\ r # NoType /\ j.list \ {r} \in SUBSET RoomType
    BY SentinelAssumption DEF SeedJob
  <2>3. QED
    BY <2>1, <2>2 DEF SeedJob
<1>3. QED
  BY <1>1, <1>2

LEMMA OnwardQuote ==
  ASSUME NEW j \in QuoteJob, NEW k \in Onward(j, "stock")
  PROVE  /\ k \in QuoteJob /\ k.alone = j.alone
         /\ k.from = j.from /\ k.to = j.to /\ k.guests = j.guests
         /\ \/ j.list = {} /\ k.at = "ok"
            \/ k.at = "stock" /\ k.cur \in j.list /\ k.cur # NoType /\ k.list = j.list \ {k.cur}
<1>1. CASE j.list = {}
  <2>1. k = [j EXCEPT !.at = "ok", !.cur = NoType]
    BY <1>1 DEF Onward
  <2>2. QED
    BY <2>1, <1>1 DEF QuoteJob
<1>2. CASE j.list # {}
  <2>1. PICK r \in j.list : k = [j EXCEPT !.at = "stock", !.cur = r, !.list = j.list \ {r}]
    BY <1>2 DEF Onward
  <2>2. r \in RoomType /\ r # NoType /\ j.list \ {r} \in SUBSET RoomType
    BY SentinelAssumption DEF QuoteJob
  <2>3. QED
    BY <2>1, <2>2 DEF QuoteJob
<1>3. QED
  BY <1>1, <1>2

-----------------------------------------------------------------------------
(* A request in some slot goes on with job k and with answer x so far; or  *)
(* the slot is free.  If it is a quote, the tables stay as they are.  The  *)
(* other requests then have what they had: those that change the tables    *)
(* are seeds, and no request that is alone has a seed beside it.           *)
Kept(w, k, x) ==
  /\ jobs' = [jobs EXCEPT ![w] = k]
  /\ items' = [items EXCEPT ![w] = x]
  /\ jobs[w].op = "seed" \/ UNCHANGED tables

LEMMA OthersKept ==
  ASSUME IInv, NEW w \in Workers, NEW k, NEW x, Running(w), Kept(w, k, x),
         k = Idle \/ (k \in Job /\ k.op = jobs[w].op /\ k.alone = jobs[w].alone)
  PROVE  /\ AloneOK'
         /\ jobs' \in [Workers -> Job \cup {Idle}] /\ jobs'[w] = k
         /\ items' = [v \in Workers |-> items'[v]] /\ items'[w] = x
         /\ \A v \in Workers \ {w} : jobs'[v] = jobs[v] /\ items'[v] = items[v] /\ WorkerOK(v)'
<1>1. jobs \in [Workers -> Job \cup {Idle}] /\ items = [v \in Workers |-> items[v]]
  BY DEF IInv, TypeOK, Job
<1>2. jobs' \in [Workers -> Job \cup {Idle}] /\ jobs'[w] = k
  BY <1>1 DEF Kept
<1>3. items' = [v \in Workers |-> items'[v]] /\ items'[w] = x
  BY <1>1 DEF Kept
<1>4. \A v \in Workers \ {w} : jobs'[v] = jobs[v] /\ items'[v] = items[v]
  BY <1>1 DEF Kept
<1>5. \A v \in Workers : Seeding(v)' => Seeding(v)
  BY <1>2, <1>4 DEF Seeding, Running
<1>6. AloneOK'
  BY <1>2, <1>4, <1>5 DEF IInv, AloneOK, Running
<1>7. ASSUME NEW v \in Workers \ {w} PROVE WorkerOK(v)'
  <2>1. WorkerOK(v)
    BY DEF IInv
  <2>2. LocalOK(v)'
    BY <2>1, <1>4 DEF WorkerOK, LocalOK
  <2>3. jobs[v] # Idle /\ jobs[v].alone => UNCHANGED tables
    BY DEF Kept, IInv, AloneOK, Seeding
  <2>4. SeedOK(v)'
    BY <2>1, <2>3, <1>4 DEF WorkerOK, SeedOK, tables, OneEach, Nights
  <2>5. QuoteOK(v)'
    BY <2>1, <2>3, <1>4 DEF WorkerOK, QuoteOK, tables, Complete, Large
  <2>6. QED
    BY <2>2, <2>4, <2>5 DEF WorkerOK
<1>8. QED
  BY <1>2, <1>3, <1>4, <1>6, <1>7

(* A step of a seed, but for what it does to the tables.                   *)
LEMMA SeedStep ==
  ASSUME IInv, NEW w \in Workers, NEW k, Running(w), jobs[w].op = "seed", Kept(w, k, {}),
         k = Idle \/ (k \in SeedJob /\ k.alone = jobs[w].alone),
         types' \subseteq RoomType, inventory' \subseteq (1..MaxId) \X (1..Window),
         nextId' \in 1..MaxId + 1, broken' \in BOOLEAN,
         k # Idle => LocalOK(w)', k # Idle => SeedOK(w)', Stocked'
  PROVE  IInv'
<1>1. k = Idle \/ (k \in Job /\ k.op = jobs[w].op /\ k.alone = jobs[w].alone)
  BY DEF Job, SeedJob
<1>2. /\ AloneOK' /\ jobs' \in [Workers -> Job \cup {Idle}] /\ jobs'[w] = k
      /\ items' = [v \in Workers |-> items'[v]] /\ items'[w] = {}
      /\ \A v \in Workers \ {w} : jobs'[v] = jobs[v] /\ items'[v] = items[v] /\ WorkerOK(v)'
  BY <1>1, OthersKept
<1>3. TypeOK'
  <2>1. \A v \in Workers : \A x \in items'[v] : jobs'[v] # Idle /\ IsItem(x, jobs'[v])
    BY <1>2 DEF IInv, TypeOK
  <2>2. QED
    BY <1>2, <2>1 DEF TypeOK, Job, IsItem
<1>4. NeverOvercharged'
  BY <1>2 DEF IInv, NeverOvercharged
<1>5. WorkerOK(w)'
  <2>1. QuoteOK(w)'
    BY <1>2 DEF QuoteOK, SeedJob
  <2>2. k = Idle => LocalOK(w)' /\ SeedOK(w)'
    BY <1>2 DEF LocalOK, SeedOK
  <2>3. QED
    BY <2>1, <2>2 DEF WorkerOK
<1>6. QED
  BY <1>2, <1>3, <1>4, <1>5 DEF IInv

(* The nights of an item at the weekend price are no more than those of    *)
(* the stay that are a weekend's.                                          *)
Fair(x) ==
  Cardinality({n \in DOMAIN x.prices : x.prices[n] = "weekend"})
    <= Cardinality(Weekend \cap DOMAIN x.prices)

(* A step of a quote.                                                      *)
LEMMA QuoteStep ==
  ASSUME IInv, NEW w \in Workers, NEW k, NEW x, Running(w), jobs[w].op = "quote",
         Kept(w, k, x), UNCHANGED <<nextId, broken>>,
         \/ k = Idle /\ x = {}
         \/ /\ k \in QuoteJob /\ k.alone = jobs[w].alone
            /\ \A y \in x : IsItem(y, k) /\ Fair(y)
            /\ LocalOK(w)' /\ QuoteOK(w)'
  PROVE  IInv'
<1>1. k = Idle \/ (k \in Job /\ k.op = jobs[w].op /\ k.alone = jobs[w].alone)
  BY DEF Job, QuoteJob
<1>2. /\ AloneOK' /\ jobs' \in [Workers -> Job \cup {Idle}] /\ jobs'[w] = k
      /\ items' = [v \in Workers |-> items'[v]] /\ items'[w] = x
      /\ \A v \in Workers \ {w} : jobs'[v] = jobs[v] /\ items'[v] = items[v] /\ WorkerOK(v)'
  BY <1>1, OthersKept
<1>3. UNCHANGED <<types, inventory>>
  BY DEF Kept, tables
<1>4. TypeOK'
  <2>1. \A v \in Workers \ {w} : \A y \in items'[v] : jobs'[v] # Idle /\ IsItem(y, jobs'[v])
    BY <1>2 DEF IInv, TypeOK
  <2>2. \A y \in items'[w] : jobs'[w] # Idle /\ IsItem(y, jobs'[w])
    BY <1>2, SentinelAssumption
  <2>3. QED
    BY <1>2, <1>3, <2>1, <2>2 DEF IInv, TypeOK, Job, IsItem
<1>5. NeverOvercharged'
  <2>1. \A y \in items'[w] : Fair(y)
    BY <1>2
  <2>2. \A v \in Workers \ {w} : \A y \in items'[v] : Fair(y)
    BY <1>2 DEF IInv, NeverOvercharged, Fair
  <2>3. QED
    BY <2>1, <2>2 DEF NeverOvercharged, Fair
<1>6. WorkerOK(w)'
  <2>1. k = Idle => LocalOK(w)' /\ QuoteOK(w)'
    BY <1>2 DEF LocalOK, QuoteOK
  <2>2. SeedOK(w)'
    BY <1>2 DEF SeedOK, QuoteJob
  <2>3. QED
    BY <2>1, <2>2 DEF WorkerOK
<1>7. Stocked'
  <2>1. \A r, v : Filled(r)' = Filled(r)
    BY <1>3 DEF Filled
  <2>2. ASSUME NEW r, NEW v \in Workers, ToFill(r, v) PROVE ToFill(r, v)'
    BY <2>2, <1>2, <1>3 DEF ToFill
  <2>3. QED
    BY <1>3, <2>1, <2>2 DEF IInv, Stocked
<1>8. QED
  BY <1>2, <1>4, <1>5, <1>6, <1>7 DEF IInv

(* What a request knows when it is at one of its calls.                    *)
LEMMA SeedAt ==
  ASSUME IInv, NEW w \in Workers, Running(w), jobs[w].op = "seed"
  PROVE  /\ jobs[w] \in SeedJob /\ items[w] = {} /\ LocalOK(w) /\ SeedOK(w)
         /\ items = [items EXCEPT ![w] = {}]
         /\ types \subseteq RoomType /\ inventory \subseteq (1..MaxId) \X (1..Window)
         /\ nextId \in 1..MaxId + 1 /\ broken \in BOOLEAN
<1>1. jobs[w] \in SeedJob
  BY DEF IInv, TypeOK, Running, QuoteJob
<1>2. LocalOK(w) /\ SeedOK(w)
  BY DEF IInv, WorkerOK
<1>3. items[w] = {}
  BY <1>2 DEF LocalOK, Running
<1>4. QED
  BY <1>1, <1>2, <1>3 DEF IInv, TypeOK

LEMMA QuoteAt ==
  ASSUME IInv, NEW w \in Workers, Running(w), jobs[w].op = "quote"
  PROVE  /\ jobs[w] \in QuoteJob /\ LocalOK(w) /\ QuoteOK(w)
         /\ jobs[w].from \in Int /\ jobs[w].to \in Int /\ jobs[w].from < jobs[w].to
         /\ types \subseteq RoomType
         /\ \A y \in items[w] : IsItem(y, jobs[w]) /\ Fair(y)
<1>1. jobs[w] \in QuoteJob
  BY DEF IInv, TypeOK, Running, SeedJob
<1>2. LocalOK(w) /\ QuoteOK(w)
  BY DEF IInv, WorkerOK
<1>3. QED
  BY <1>1, <1>2, BoundAssumption
  DEF IInv, TypeOK, NeverOvercharged, Fair, LocalOK, Running, QuoteJob

-----------------------------------------------------------------------------
(* Quotes.                                                                 *)

LEMMA ExactsBy ==
  ASSUME NEW set, NEW j, NEW k, k.from = j.from, k.to = j.to
  PROVE  Exacts(set, k) = Exacts(set, j)
BY DEF Exacts, Exact

(* A complete catalog has a row for every night of the window, and the     *)
(* position of a row is that of its night.                                 *)
LEMMA CompletePrices ==
  ASSUME Complete, NEW r \in types, NEW from \in Int, NEW to \in Int,
         from >= 1, to - 1 <= Window
  PROVE  /\ Rows(r.id, from, to) = from..to - 1
         /\ Prices(Rows(r.id, from, to), from, to)
              = [n \in from..to - 1 |-> IF n \in Weekend THEN "weekend" ELSE "base"]
<1>1. Rows(r.id, from, to) = from..to - 1
  BY BoundAssumption DEF Rows, Complete
<1> DEFINE rank(d) == Cardinality({e \in from..to - 1 : e < d})
<1>2. ASSUME NEW d \in from..to - 1 PROVE rank(d) = d - from
  <2>1. {e \in from..to - 1 : e < d} = from..d - 1
    OBVIOUS
  <2>2. d - 1 \in Int /\ from <= d
    OBVIOUS
  <2>3. Cardinality(from..d - 1) = d - from
    BY <2>2, FS_Interval
  <2>4. QED
    BY <2>1, <2>3
<1> HIDE DEF rank
<1>3. ASSUME NEW n \in from..to - 1
      PROVE  (\E d \in from..to - 1 : d \in Weekend /\ rank(d) = n - from) <=> n \in Weekend
  BY <1>2
<1> USE DEF rank
<1>4. QED
  BY <1>1, <1>3 DEF Prices

(* Prices by position give no more weekend nights than there are.          *)
LEMMA FairPrices ==
  ASSUME NEW rows, NEW from \in Int, NEW to \in Int, rows \subseteq from..to - 1,
         NEW x, x.prices = Prices(rows, from, to)
  PROVE  Fair(x)
<1> DEFINE rank(d) == Cardinality({e \in rows : e < d})
           S == {n \in from..to - 1 : x.prices[n] = "weekend"}
           T == Weekend \cap (from..to - 1)
           row(n) == CHOOSE d \in T : d \in rows /\ rank(d) = n - from
           f == [n \in S |-> row(n)]
<1>1. DOMAIN x.prices = from..to - 1
  BY DEF Prices
<1>2. \A n \in S : \E d \in T : d \in rows /\ rank(d) = n - from
  BY DEF Prices
<1>3. \A n \in S : row(n) \in T /\ rank(row(n)) = n - from
  BY <1>2
<1>4. S \subseteq Int
  OBVIOUS
<1> HIDE DEF S, T, row, rank
<1>5. f \in Injection(S, T)
  BY <1>3, <1>4 DEF Injection, IsInjective
<1> USE DEF S, T
<1>6. IsFiniteSet(T)
  BY FS_Interval, FS_Subset
<1>7. Cardinality(S) <= Cardinality(T)
  BY <1>5, <1>6, FS_Injection
<1>8. QED
  BY <1>1, <1>7 DEF Fair

LEMMA ListTypesStep ==
  ASSUME IInv, NEW w \in Workers, ListTypes(w)
  PROVE  IInv'
<1> DEFINE j == [jobs[w] EXCEPT !.list = Large(jobs[w])]
<1>1. Running(w) /\ jobs[w].op = "quote" /\ jobs[w].at = "list"
  BY DEF ListTypes, At, Running
<1>2. /\ jobs[w] \in QuoteJob /\ LocalOK(w) /\ QuoteOK(w) /\ types \subseteq RoomType
      /\ jobs[w].from < jobs[w].to /\ \A y \in items[w] : IsItem(y, jobs[w]) /\ Fair(y)
  BY <1>1, QuoteAt
<1>3. /\ j \in QuoteJob /\ j.list = Large(jobs[w]) /\ j.alone = jobs[w].alone
      /\ j.from = jobs[w].from /\ j.to = jobs[w].to /\ j.guests = jobs[w].guests
  BY <1>2 DEF QuoteJob, Large
<1>4. PICK k \in Onward(j, "stock") : jobs' = [jobs EXCEPT ![w] = k]
  BY DEF ListTypes, Continue, Large
<1> HIDE DEF j
<1>5. /\ k \in QuoteJob /\ k.alone = jobs[w].alone
      /\ k.from = jobs[w].from /\ k.to = jobs[w].to /\ k.guests = jobs[w].guests
      /\ \/ Large(jobs[w]) = {} /\ k.at = "ok"
         \/ /\ k.at = "stock" /\ k.cur \in Large(jobs[w]) /\ k.cur # NoType
            /\ k.list = Large(jobs[w]) \ {k.cur}
  BY <1>3, <1>4, OnwardQuote
<1>6. jobs'[w] = k /\ items'[w] = items[w] /\ UNCHANGED <<types, inventory, nextId, broken>>
  BY <1>4 DEF ListTypes, IInv, TypeOK
<1>7. LocalOK(w)'
  BY <1>2, <1>5, <1>6 DEF LocalOK, QuoteJob
<1>8. QuoteOK(w)'
  <2> SUFFICES ASSUME k.alone, Complete, k.from >= 1, k.to - 1 <= Window
               PROVE  /\ k.at = "stock" =>
                           /\ k.cur \in Large(k) \ k.list /\ k.list \subseteq Large(k)
                           /\ items[w] = Exacts(Large(k) \ (k.list \cup {k.cur}), k)
                      /\ k.at = "ok" => items[w] = Exacts(Large(k), k)
    BY <1>5, <1>6 DEF QuoteOK, Complete, Large
  <2>1. items[w] = {}
    BY <1>1, <1>2, <1>5 DEF QuoteOK, Running
  <2>2. Large(k) = Large(jobs[w])
    BY <1>5 DEF Large
  <2>3. Exacts({}, k) = {}
    BY DEF Exacts
  <2>4. k.at = "stock" => Large(k) \ (k.list \cup {k.cur}) = {}
    BY <1>5, <2>2
  <2>5. QED
    BY <1>5, <2>1, <2>2, <2>3, <2>4
<1>9. Kept(w, k, items[w])
  BY <1>4, <1>6 DEF Kept, ListTypes, tables, IInv, TypeOK
<1>10. \A y \in items[w] : IsItem(y, k) /\ Fair(y)
  BY <1>2, <1>5 DEF IsItem
<1>11. QED
  BY <1>1, <1>5, <1>6, <1>7, <1>8, <1>9, <1>10, QuoteStep

LEMMA CheckStockStep ==
  ASSUME IInv, NEW w \in Workers, CheckStock(w)
  PROVE  IInv'
<1> DEFINE j == jobs[w]
           found == Rows(j.cur.id, j.from, j.to)
<1>1. Running(w) /\ j.op = "quote" /\ j.at = "stock"
  <2>1. jobs[w] \in SeedJob \cup QuoteJob
    BY DEF CheckStock, At, IInv, TypeOK
  <2>2. QED
    BY <2>1 DEF CheckStock, At, Running, SeedJob, QuoteJob
<1>2. /\ j \in QuoteJob /\ LocalOK(w) /\ QuoteOK(w) /\ types \subseteq RoomType
      /\ j.from \in Int /\ j.to \in Int /\ j.from < j.to
      /\ \A y \in items[w] : IsItem(y, j) /\ Fair(y)
  BY <1>1, QuoteAt
<1>3. PICK k : /\ jobs' = [jobs EXCEPT ![w] = k]
               /\ \/ found # {} /\ k = [j EXCEPT !.at = "prices"]
                  \/ found = {} /\ k \in Onward(j, "stock")
  BY DEF CheckStock, Continue
<1>4. UNCHANGED <<types, inventory, nextId, broken>> /\ jobs'[w] = k /\ items'[w] = items[w]
  BY <1>3 DEF CheckStock, IInv, TypeOK
<1>5. Kept(w, k, items[w])
  BY <1>3, <1>4 DEF Kept, CheckStock, tables, IInv, TypeOK
<1>6. /\ k \in QuoteJob /\ k.alone = j.alone
      /\ k.from = j.from /\ k.to = j.to /\ k.guests = j.guests
      /\ \/ found # {} /\ k.at = "prices" /\ k.cur = j.cur /\ k.list = j.list
         \/ /\ found = {}
            /\ k.at = "ok" \/ (k.at = "stock" /\ k.cur # NoType)
  <2>1. CASE found # {}
    BY <1>2, <1>3, <2>1 DEF QuoteJob
  <2>2. CASE found = {}
    BY <1>2, <1>3, <2>2, OnwardQuote
  <2>3. QED
    BY <2>1, <2>2
<1>7. LocalOK(w)'
  BY <1>1, <1>2, <1>4, <1>6 DEF LocalOK, Running, QuoteJob
<1>8. QuoteOK(w)'
  <2> SUFFICES ASSUME k.alone, Complete, k.from >= 1, k.to - 1 <= Window
               PROVE  /\ k.at \in {"stock", "prices"} =>
                           /\ k.cur \in Large(k) \ k.list /\ k.list \subseteq Large(k)
                           /\ items[w] = Exacts(Large(k) \ (k.list \cup {k.cur}), k)
                      /\ k.at = "ok" => items[w] = Exacts(Large(k), k)
    BY <1>4, <1>6 DEF QuoteOK, Complete, Large
  <2>1. /\ j.cur \in Large(j) \ j.list /\ j.list \subseteq Large(j)
        /\ items[w] = Exacts(Large(j) \ (j.list \cup {j.cur}), j)
    BY <1>1, <1>2, <1>6 DEF QuoteOK, Running
  <2>2. found # {}
    <3>1. j.cur \in types /\ j.from >= 1 /\ j.to - 1 <= Window
      BY <1>6, <2>1 DEF Large
    <3>2. found = j.from..j.to - 1
      BY <1>2, <3>1, CompletePrices
    <3>3. j.from \in j.from..j.to - 1
      BY <1>2
    <3>4. QED
      BY <3>2, <3>3
  <2>3. Large(k) = Large(j)
    BY <1>6 DEF Large
  <2>4. QED
    BY <1>6, <2>1, <2>2, <2>3, ExactsBy
<1>9. \A y \in items[w] : IsItem(y, k) /\ Fair(y)
  BY <1>2, <1>6 DEF IsItem
<1>10. QED
  BY <1>1, <1>4, <1>5, <1>6, <1>7, <1>8, <1>9, QuoteStep

LEMMA ReadPricesStep ==
  ASSUME IInv, NEW w \in Workers, ReadPrices(w)
  PROVE  IInv'
<1> DEFINE j == jobs[w]
           rows == Rows(j.cur.id, j.from, j.to)
           x == [type |-> j.cur, prices |-> Prices(rows, j.from, j.to)]
<1>1. Running(w) /\ j.op = "quote" /\ j.at = "prices"
  <2>1. jobs[w] \in SeedJob \cup QuoteJob
    BY DEF ReadPrices, At, IInv, TypeOK
  <2>2. QED
    BY <2>1 DEF ReadPrices, At, Running, SeedJob, QuoteJob
<1>2. /\ j \in QuoteJob /\ LocalOK(w) /\ QuoteOK(w) /\ types \subseteq RoomType
      /\ j.from \in Int /\ j.to \in Int /\ j.from < j.to
      /\ \A y \in items[w] : IsItem(y, j) /\ Fair(y)
  BY <1>1, QuoteAt
<1>3. PICK k \in Onward(j, "stock") : jobs' = [jobs EXCEPT ![w] = k]
  BY DEF ReadPrices, Continue
<1>4. /\ k \in QuoteJob /\ k.alone = j.alone
      /\ k.from = j.from /\ k.to = j.to /\ k.guests = j.guests
      /\ \/ j.list = {} /\ k.at = "ok"
         \/ /\ k.at = "stock" /\ k.cur \in j.list /\ k.cur # NoType
            /\ k.list = j.list \ {k.cur}
  BY <1>2, OnwardQuote
<1>5. /\ UNCHANGED <<types, inventory, nextId, broken>> /\ jobs'[w] = k
      /\ items' = [items EXCEPT ![w] = items[w] \cup {x}] /\ items'[w] = items[w] \cup {x}
  BY <1>3 DEF ReadPrices, IInv, TypeOK
<1>6. Kept(w, k, items[w] \cup {x})
  BY <1>3, <1>5 DEF Kept, tables
<1>7. LocalOK(w)'
  BY <1>1, <1>2, <1>4, <1>5 DEF LocalOK, Running, QuoteJob
<1>8. Fair(x) /\ IsItem(x, k)
  <2>1. rows \subseteq j.from..j.to - 1 /\ x.prices = Prices(rows, j.from, j.to)
    BY DEF Rows
  <2>2. Fair(x)
    BY <1>2, <2>1, FairPrices
  <2>3. x.type \in RoomType
    BY <1>1, <1>2 DEF LocalOK, QuoteJob, Running
  <2>4. Prices(rows, j.from, j.to) \in [j.from..j.to - 1 -> {"base", "weekend"}]
    BY DEF Prices
  <2>5. QED
    BY <1>4, <2>2, <2>3, <2>4 DEF IsItem
<1>9. QuoteOK(w)'
  <2> SUFFICES ASSUME k.alone, Complete, k.from >= 1, k.to - 1 <= Window
               PROVE  /\ k.at = "stock" =>
                           /\ k.cur \in Large(k) \ k.list /\ k.list \subseteq Large(k)
                           /\ items[w] \cup {x} = Exacts(Large(k) \ (k.list \cup {k.cur}), k)
                      /\ k.at = "ok" => items[w] \cup {x} = Exacts(Large(k), k)
    BY <1>4, <1>5 DEF QuoteOK, Complete, Large
  <2>1. /\ j.cur \in Large(j) \ j.list /\ j.list \subseteq Large(j)
        /\ items[w] = Exacts(Large(j) \ (j.list \cup {j.cur}), j)
    BY <1>1, <1>2, <1>4 DEF QuoteOK, Running
  <2>2. x = Exact(j.cur, j)
    BY <1>2, <1>4, <2>1, CompletePrices DEF Large, Exact
  <2>3. items[w] \cup {x} = Exacts(Large(j) \ j.list, j)
    BY <2>1, <2>2 DEF Exacts
  <2>4. Large(k) = Large(j) /\ \A set : Exacts(set, k) = Exacts(set, j)
    BY <1>4, ExactsBy DEF Large
  <2>5. k.at = "stock" => j.list = k.list \cup {k.cur}
    BY <1>4
  <2>6. k.at = "ok" => Large(j) \ j.list = Large(j)
    BY <1>4
  <2>7. QED
    BY <1>4, <2>1, <2>3, <2>4, <2>5, <2>6
<1>10. \A y \in items[w] \cup {x} : IsItem(y, k) /\ Fair(y)
  BY <1>2, <1>4, <1>8 DEF IsItem
<1>11. QED
  BY <1>1, <1>4, <1>5, <1>6, <1>7, <1>9, <1>10, QuoteStep

-----------------------------------------------------------------------------
(* Seeds.                                                                  *)

(* The samples that a seed inserts, one by one, are of all the names.      *)
LEMMA SampleNames ==
  Len(Samples) \in Nat /\ 1 <= Len(Samples) /\ \A k \in 1..Len(Samples) : Samples[k] \in Names
<1>1. Samples \in Seq(Names) /\ Len(Samples) > 0
  BY SampleAssumption
<1>2. QED
  BY <1>1 DEF Names

LEMMA InsertedNext ==
  ASSUME NEW n \in 1..Len(Samples)
  PROVE  Inserted(n + 1) = Inserted(n) \cup {Samples[n]} /\ Samples[n] \notin Inserted(n)
<1>1. 1..n + 1 - 1 = (1..n - 1) \cup {n}
  BY SampleNames
<1>2. \A k \in 1..n - 1 : k \in Names /\ n \in Names /\ k # n
  BY SampleNames DEF Names
<1>3. \A k \in 1..n - 1 : Samples[k] # Samples[n]
  BY <1>2, SampleAssumption
<1>4. QED
  BY <1>1, <1>3 DEF Inserted

LEMMA InsertedAll == Inserted(1) = {} /\ Inserted(Len(Samples) + 1) = Names
<1>1. 1..Len(Samples) + 1 - 1 = Names /\ 1..1 - 1 = {}
  BY SampleNames DEF Names
<1>2. {Samples[k] : k \in Names} = Names
  <2>1. \A n \in Names : \E k \in Names : Samples[k] = n
    BY SampleAssumption
  <2>2. \A k \in Names : Samples[k] \in Names
    BY SampleNames DEF Names
  <2>3. QED
    BY <2>1, <2>2
<1>3. QED
  BY <1>1, <1>2 DEF Inserted

(* Types that are to be filled stay so, or are filled, while the seeds go  *)
(* on.                                                                     *)
LEMMA StockedOn ==
  ASSUME IInv, NEW w \in Workers, NEW k, Kept(w, k, {}), Running(w),
         k = Idle => broken',
         ~broken' => ~broken,
         inventory \subseteq inventory',
         \A r \in types' \ types : ToFill(r, w)',
         \A r \in types : k # Idle /\ ToFill(r, w) => ToFill(r, w)' \/ Filled(r)'
  PROVE  Stocked'
<1> SUFFICES ASSUME ~broken', NEW r \in types'
             PROVE  Filled(r)' \/ \E v \in Workers : ToFill(r, v)'
  BY DEF Stocked
<1>1. CASE r \notin types
  BY <1>1
<1>2. CASE r \in types /\ Filled(r)
  BY <1>2 DEF Filled
<1>3. ASSUME r \in types, NEW v \in Workers, ToFill(r, v)
      PROVE  Filled(r)' \/ \E u \in Workers : ToFill(r, u)'
  <2>1. CASE v = w
    BY <1>3, <2>1
  <2>2. CASE v # w
    <3>1. jobs'[v] = jobs[v]
      BY <2>2 DEF Kept, IInv, TypeOK
    <3>2. ToFill(r, v)'
      BY <1>3, <3>1 DEF ToFill
    <3>3. QED
      BY <3>2
  <2>3. QED
    BY <2>1, <2>2
<1>4. QED
  BY <1>1, <1>2, <1>3 DEF IInv, Stocked

LEMMA WipeInventoryStep ==
  ASSUME IInv, NEW w \in Workers, NEW answer \in Answer, WipeInventory(w, answer)
  PROVE  IInv'
<1> DEFINE j == jobs[w]
           k == IF answer = "ok" THEN [j EXCEPT !.at = "types"] ELSE Idle
<1>1. Running(w) /\ j.op = "seed" /\ j.at = "inventory"
  BY DEF WipeInventory, At, Running, IInv, TypeOK, SeedJob, QuoteJob
<1>2. /\ j \in SeedJob /\ items[w] = {} /\ SeedOK(w) /\ items = [items EXCEPT ![w] = {}]
      /\ types \subseteq RoomType /\ nextId \in 1..MaxId + 1 /\ broken \in BOOLEAN
  BY <1>1, SeedAt
<1>3. Kept(w, k, {}) /\ jobs' = [jobs EXCEPT ![w] = k]
  BY <1>1, <1>2 DEF WipeInventory, Continue, Kept
<1>4. jobs'[w] = k /\ items'[w] = {} /\ inventory' = {} /\ UNCHANGED <<types, nextId>>
  BY <1>2, <1>3 DEF WipeInventory, IInv, TypeOK
<1>5. answer = "ok" => /\ k \in SeedJob /\ k.alone = j.alone /\ k.at = "types"
                       /\ k.next = j.next /\ k.day = j.day /\ k # Idle /\ k.op = "seed"
  BY <1>1, <1>2, SentinelAssumption DEF SeedJob
<1>6. k = Idle \/ (k \in SeedJob /\ k.alone = j.alone)
  BY <1>5
<1> HIDE DEF k
<1>7. k # Idle => LocalOK(w)' /\ SeedOK(w)'
  <2> SUFFICES ASSUME answer = "ok" PROVE LocalOK(w)' /\ SeedOK(w)'
    BY DEF k
  <2>1. j.next = 1 /\ j.day = 1
    BY <1>1 DEF IInv, WorkerOK, LocalOK, Running
  <2>2. QED
    BY <1>4, <1>5, <2>1 DEF LocalOK, SeedOK
<1>8. broken' \in BOOLEAN /\ (~broken' => answer = "ok")
  BY <1>2 DEF WipeInventory, Answer
<1>9. Stocked'
  BY <1>4, <1>5, <1>8 DEF Stocked, ToFill
<1>10. QED
  BY <1>1, <1>2, <1>3, <1>4, <1>6, <1>7, <1>8, <1>9, SeedStep

LEMMA WipeTypesStep ==
  ASSUME IInv, NEW w \in Workers, NEW answer \in Answer, WipeTypes(w, answer)
  PROVE  IInv'
<1> DEFINE j == jobs[w]
           k == IF answer = "ok" THEN [j EXCEPT !.at = "insert"] ELSE Idle
<1>1. Running(w) /\ j.op = "seed" /\ j.at = "types"
  BY DEF WipeTypes, At, Running, IInv, TypeOK, SeedJob, QuoteJob
<1>2. /\ j \in SeedJob /\ items[w] = {} /\ SeedOK(w) /\ items = [items EXCEPT ![w] = {}]
      /\ inventory \subseteq (1..MaxId) \X (1..Window) /\ nextId \in 1..MaxId + 1
  BY <1>1, SeedAt
<1>3. Kept(w, k, {}) /\ jobs' = [jobs EXCEPT ![w] = k]
  BY <1>1, <1>2 DEF WipeTypes, Continue, Kept
<1>4. jobs'[w] = k /\ types' = {} /\ UNCHANGED <<inventory, nextId, items>>
  BY <1>2, <1>3 DEF WipeTypes, IInv, TypeOK
<1>5. answer = "ok" => /\ k \in SeedJob /\ k.alone = j.alone /\ k.at = "insert"
                       /\ k.next = j.next /\ k.day = j.day /\ k # Idle /\ k.op = "seed"
  BY <1>1, <1>2, SentinelAssumption DEF SeedJob
<1>6. k = Idle \/ (k \in SeedJob /\ k.alone = j.alone)
  BY <1>5
<1> HIDE DEF k
<1>7. k # Idle => LocalOK(w)' /\ SeedOK(w)'
  <2> SUFFICES ASSUME answer = "ok" PROVE LocalOK(w)' /\ SeedOK(w)'
    BY DEF k
  <2>1. j.next = 1 /\ j.day = 1
    BY <1>1 DEF IInv, WorkerOK, LocalOK, Running
  <2>2. Inserted(1) = {}
    BY InsertedAll
  <2>3. 1 <= Len(Samples)
    BY SampleNames
  <2>4. LocalOK(w)'
    BY <1>2, <1>4, <1>5, <2>1, <2>3 DEF LocalOK
  <2>5. SeedOK(w)'
    BY <1>1, <1>2, <1>4, <1>5, <2>1, <2>2 DEF SeedOK, OneEach, Running
  <2>6. QED
    BY <2>4, <2>5
<1>8. broken' \in BOOLEAN /\ Stocked'
  BY <1>4 DEF WipeTypes, Answer, Stocked
<1>9. QED
  BY <1>1, <1>2, <1>3, <1>4, <1>6, <1>7, <1>8, SeedStep

LEMMA InsertTypeStep ==
  ASSUME IInv, NEW w \in Workers, NEW answer \in Answer, InsertType(w, answer)
  PROVE  IInv'
<1> DEFINE j == jobs[w]
           last == j.next = Len(Samples)
           new == [id |-> nextId, name |-> Samples[j.next]]
           k == IF answer = "ok"
                THEN [j EXCEPT !.next = @ + 1, !.at = IF last THEN "list" ELSE @] ELSE Idle
<1>1. Running(w) /\ j.op = "seed" /\ j.at = "insert"
  BY DEF InsertType, At, Running, IInv, TypeOK, SeedJob, QuoteJob
<1>2. /\ j \in SeedJob /\ items[w] = {} /\ LocalOK(w) /\ SeedOK(w)
      /\ items = [items EXCEPT ![w] = {}] /\ types \subseteq RoomType
      /\ inventory \subseteq (1..MaxId) \X (1..Window)
      /\ nextId \in 1..MaxId + 1 /\ broken \in BOOLEAN
  BY <1>1, SeedAt
<1>3. Len(Samples) \in Nat /\ j.next \in 1..Len(Samples) /\ Samples[j.next] \in Names
  <2>1. j.next \in 1..Len(Samples) + 1 /\ j.next <= Len(Samples)
    BY <1>1, <1>2 DEF LocalOK, Running, SeedJob
  <2>2. QED
    BY <2>1, SampleNames
<1>4. Kept(w, k, {}) /\ jobs' = [jobs EXCEPT ![w] = k]
  BY <1>1, <1>2 DEF InsertType, Continue, Kept
<1>5. /\ jobs'[w] = k /\ types' = types \cup {new} /\ nextId' = nextId + 1 /\ nextId <= MaxId
      /\ UNCHANGED <<inventory, items>> /\ broken' = (broken \/ answer = "failed")
  BY <1>2, <1>4 DEF InsertType, IInv, TypeOK
<1>6. answer = "ok" => /\ k \in SeedJob /\ k.alone = j.alone /\ k # Idle /\ k.op = "seed"
                       /\ k.next = j.next + 1 /\ k.day = j.day
                       /\ k.at = IF last THEN "list" ELSE "insert"
  <2> DEFINE next == j.next + 1
             at   == IF last THEN "list" ELSE "insert"
  <2>1. next \in 1..Len(Samples) + 1 /\ at \in {"insert", "list"}
    BY <1>3
  <2>2. answer = "ok" => k = [j EXCEPT !.next = next, !.at = at]
    BY <1>1
  <2> HIDE DEF next, at, last
  <2>3. [j EXCEPT !.next = next, !.at = at] \in SeedJob
    BY <1>2, <2>1 DEF SeedJob
  <2>4. /\ [j EXCEPT !.next = next, !.at = at].alone = j.alone
        /\ [j EXCEPT !.next = next, !.at = at].op = "seed"
        /\ [j EXCEPT !.next = next, !.at = at].next = next
        /\ [j EXCEPT !.next = next, !.at = at].day = j.day
        /\ [j EXCEPT !.next = next, !.at = at].at = at
    BY <1>1, <1>2 DEF SeedJob
  <2> HIDE DEF k
  <2>5. QED
    BY <2>2, <2>3, <2>4, SentinelAssumption DEF next, at
<1>7. new \in RoomType /\ nextId' \in 1..MaxId + 1
  BY <1>2, <1>3, <1>5, BoundAssumption DEF RoomType
<1>8. k = Idle \/ (k \in SeedJob /\ k.alone = j.alone)
  BY <1>6
<1> HIDE DEF k
<1>9. k # Idle => LocalOK(w)' /\ SeedOK(w)'
  <2> SUFFICES ASSUME answer = "ok" PROVE LocalOK(w)' /\ SeedOK(w)'
    BY DEF k
  <2>1. LocalOK(w)'
    BY <1>1, <1>2, <1>3, <1>5, <1>6 DEF LocalOK, Running
  <2>2. ASSUME j.alone PROVE OneEach(types', Inserted(j.next + 1)) /\ inventory' = {}
    <3>1. OneEach(types, Inserted(j.next)) /\ inventory = {}
      BY <1>1, <1>2, <2>2 DEF SeedOK, Running
    <3>2. Inserted(j.next + 1) = Inserted(j.next) \cup {Samples[j.next]}
      BY <1>3, InsertedNext
    <3>3. Samples[j.next] \notin Inserted(j.next)
      BY <1>3, InsertedNext
    <3>4. new.name = Samples[j.next]
      OBVIOUS
    <3> HIDE DEF new
    <3>5. QED
      BY <1>5, <3>1, <3>2, <3>3, <3>4 DEF OneEach
  <2>3. last => Inserted(j.next + 1) = Names
    BY InsertedAll
  <2>4. SeedOK(w)'
    BY <1>5, <1>6, <2>2, <2>3 DEF SeedOK
  <2>5. QED
    BY <2>1, <2>4
<1>10. Stocked'
  <2> SUFFICES ASSUME answer = "ok" PROVE Stocked'
    BY <1>5 DEF Answer, Stocked
  <2>1. \A r : ToFill(r, w)'
    BY <1>5, <1>6 DEF ToFill
  <2>2. QED
    BY <2>1 DEF Stocked
<1>11. types' \subseteq RoomType /\ broken' \in BOOLEAN
  BY <1>2, <1>5, <1>7
<1>12. QED
  BY <1>1, <1>2, <1>4, <1>5, <1>7, <1>8, <1>9, <1>10, <1>11, SeedStep

LEMMA ListSeededStep ==
  ASSUME IInv, NEW w \in Workers, ListSeeded(w)
  PROVE  IInv'
<1> DEFINE j == [jobs[w] EXCEPT !.list = types]
<1>1. Running(w) /\ jobs[w].op = "seed" /\ jobs[w].at = "list"
  BY DEF ListSeeded, At, Running
<1>2. /\ jobs[w] \in SeedJob /\ items[w] = {} /\ LocalOK(w) /\ SeedOK(w)
      /\ items = [items EXCEPT ![w] = {}] /\ types \subseteq RoomType
      /\ inventory \subseteq (1..MaxId) \X (1..Window)
      /\ nextId \in 1..MaxId + 1 /\ broken \in BOOLEAN
  BY <1>1, SeedAt
<1>3. j \in SeedJob /\ j.list = types /\ j.alone = jobs[w].alone /\ j.day = jobs[w].day
  BY <1>2 DEF SeedJob
<1>4. PICK k \in Onward(j, "fill") : jobs' = [jobs EXCEPT ![w] = k]
  BY DEF ListSeeded, Continue
<1> HIDE DEF j
<1>5. /\ k \in SeedJob /\ k.alone = jobs[w].alone /\ k.day = jobs[w].day
      /\ \/ types = {} /\ k.at = "ok"
         \/ k.at = "fill" /\ k.cur \in types /\ k.cur # NoType /\ k.list = types \ {k.cur}
  BY <1>3, <1>4, OnwardSeed
<1>6. /\ jobs'[w] = k /\ items'[w] = {} /\ UNCHANGED <<types, inventory, nextId, items, broken>>
      /\ k # Idle /\ k.op = "seed"
  BY <1>2, <1>4, <1>5, SentinelAssumption DEF ListSeeded, IInv, TypeOK, SeedJob
<1>7. Kept(w, k, {})
  BY <1>1, <1>2, <1>4, <1>6 DEF Kept
<1>8. jobs[w].day = 1
  BY <1>1, <1>2 DEF LocalOK, Running
<1>9. LocalOK(w)'
  BY <1>5, <1>6, <1>8 DEF LocalOK
<1>10. SeedOK(w)'
  <2> SUFFICES ASSUME k.alone
               PROVE  /\ OneEach(types, Names)
                      /\ k.at = "fill" =>
                           /\ k.cur \in types \ k.list /\ k.list \subseteq types
                           /\ inventory = Nights(types \ (k.list \cup {k.cur}))
                                            \cup ({k.cur.id} \X (1..k.day - 1))
                      /\ k.at = "ok" => inventory = Nights(types)
    BY <1>5, <1>6 DEF SeedOK, Nights
  <2>1. OneEach(types, Names) /\ inventory = {}
    BY <1>1, <1>2, <1>5 DEF SeedOK, Running
  <2>2. Nights({}) = {}
    BY DEF Nights
  <2>3. {k.cur.id} \X (1..k.day - 1) = {}
    BY <1>5, <1>8
  <2>4. k.at = "fill" => types \ (k.list \cup {k.cur}) = {}
    BY <1>5
  <2>5. QED
    BY <1>5, <2>1, <2>2, <2>3, <2>4
<1>11. Stocked'
  <2>1. \A r \in types : ToFill(r, w)'
    <3>1. 1..k.day - 1 = {}
      BY <1>5, <1>8
    <3>2. QED
      BY <1>5, <1>6, <3>1 DEF ToFill
  <2>2. QED
    BY <1>6, <2>1 DEF Stocked
<1>12. QED
  BY <1>1, <1>2, <1>5, <1>6, <1>7, <1>9, <1>10, <1>11, SeedStep

LEMMA FillNightStep ==
  ASSUME IInv, NEW w \in Workers, NEW answer \in Answer, FillNight(w, answer)
  PROVE  IInv'
<1> DEFINE j == jobs[w]
           i == [j EXCEPT !.day = 1]
<1>1. Running(w) /\ j.op = "seed" /\ j.at = "fill"
  BY DEF FillNight, At, Running, IInv, TypeOK, SeedJob, QuoteJob
<1>2. /\ j \in SeedJob /\ items[w] = {} /\ LocalOK(w) /\ SeedOK(w)
      /\ items = [items EXCEPT ![w] = {}] /\ types \subseteq RoomType
      /\ inventory \subseteq (1..MaxId) \X (1..Window)
      /\ nextId \in 1..MaxId + 1 /\ broken \in BOOLEAN
  BY <1>1, SeedAt
<1>3. /\ i \in SeedJob /\ i.list = j.list /\ i.alone = j.alone /\ i.day = 1
      /\ j.day \in 1..Window /\ Window \in Nat \ {0} /\ j.cur \in RoomType
  <2>1. Window \in Nat \ {0} /\ 1 \in 1..Window
    BY BoundAssumption
  <2>2. j.day \in 1..Window /\ j.cur \in RoomType
    BY <1>1, <1>2 DEF SeedJob, LocalOK, Running
  <2>3. i \in SeedJob /\ i.list = j.list /\ i.alone = j.alone /\ i.day = 1
    BY <1>2, <2>1 DEF SeedJob
  <2>4. QED
    BY <2>1, <2>2, <2>3
<1>4. PICK k : /\ jobs' = [jobs EXCEPT ![w] = IF answer = "ok" THEN k ELSE Idle]
               /\ \/ j.day < Window /\ k = [j EXCEPT !.day = j.day + 1]
                  \/ ~(j.day < Window) /\ k \in Onward(i, "fill")
  BY DEF FillNight, Continue, MoreNights
<1> HIDE DEF i
<1>5. /\ k \in SeedJob /\ k.alone = j.alone /\ k # Idle /\ k.op = "seed"
      /\ \/ /\ j.day < Window /\ k.day = j.day + 1 /\ k.at = "fill"
            /\ k.cur = j.cur /\ k.list = j.list
         \/ /\ j.day = Window /\ k.day = 1
            /\ \/ j.list = {} /\ k.at = "ok"
               \/ /\ k.at = "fill" /\ k.cur \in j.list /\ k.cur # NoType
                  /\ k.list = j.list \ {k.cur}
  <2>1. CASE j.day < Window /\ k = [j EXCEPT !.day = j.day + 1]
    <3>1. j.day + 1 \in 1..Window
      BY <1>3, <2>1
    <3>2. QED
      BY <1>1, <1>2, <2>1, <3>1, SentinelAssumption DEF SeedJob
  <2>2. CASE ~(j.day < Window) /\ k \in Onward(i, "fill")
    <3>1. /\ k \in SeedJob /\ k.alone = i.alone /\ k.day = i.day
          /\ \/ i.list = {} /\ k.at = "ok"
             \/ k.at = "fill" /\ k.cur \in i.list /\ k.cur # NoType /\ k.list = i.list \ {k.cur}
      BY <1>3, <2>2, OnwardSeed
    <3>2. j.day = Window
      BY <1>3, <2>2
    <3>3. k # Idle /\ k.op = "seed"
      BY <3>1, SentinelAssumption DEF SeedJob
    <3>4. QED
      BY <1>3, <3>1, <3>2, <3>3
  <2>3. QED
    BY <1>4, <2>1, <2>2
<1> DEFINE m == IF answer = "ok" THEN k ELSE Idle
<1>6. /\ jobs'[w] = m /\ jobs' = [jobs EXCEPT ![w] = m] /\ items'[w] = {}
      /\ UNCHANGED <<types, nextId, items>>
      /\ inventory' = inventory \cup {<<j.cur.id, j.day>>}
      /\ broken' = (broken \/ answer = "failed")
  BY <1>2, <1>4 DEF FillNight, IInv, TypeOK
<1>7. Kept(w, m, {})
  BY <1>1, <1>2, <1>6 DEF Kept
<1>8. inventory' \subseteq (1..MaxId) \X (1..Window) /\ broken' \in BOOLEAN
  BY <1>2, <1>3, <1>6 DEF RoomType
<1>9. m = Idle \/ (m \in SeedJob /\ m.alone = j.alone)
  BY <1>5
<1>10. m # Idle => m = k
  OBVIOUS
<1>11. m = Idle => broken'
  BY <1>5, <1>6 DEF Answer
<1> HIDE DEF m
<1>12. m # Idle => LocalOK(w)'
  <2>1. k.at \in {"fill", "ok"} /\ (k.at # "fill" => k.day = 1)
    BY <1>5
  <2>2. k.at = "fill" => k.cur # NoType
    BY <1>3, <1>5, SentinelAssumption
  <2>3. QED
    BY <1>5, <1>6, <1>10, <2>1, <2>2 DEF LocalOK
<1>13. m # Idle => SeedOK(w)'
  <2> SUFFICES ASSUME m = k, k.alone
               PROVE  /\ OneEach(types, Names)
                      /\ k.at = "fill" =>
                           /\ k.cur \in types \ k.list /\ k.list \subseteq types
                           /\ inventory' = Nights(types \ (k.list \cup {k.cur}))
                                             \cup ({k.cur.id} \X (1..k.day - 1))
                      /\ k.at = "ok" => inventory' = Nights(types)
    BY <1>5, <1>6, <1>10 DEF SeedOK, Nights
  <2>1. /\ OneEach(types, Names)
        /\ j.cur \in types \ j.list /\ j.list \subseteq types
        /\ inventory = Nights(types \ (j.list \cup {j.cur})) \cup ({j.cur.id} \X (1..j.day - 1))
    BY <1>1, <1>2, <1>5 DEF SeedOK, Running
  <2>2. ({j.cur.id} \X (1..j.day - 1)) \cup {<<j.cur.id, j.day>>} = {j.cur.id} \X (1..j.day)
    <3>1. 1..j.day = (1..j.day - 1) \cup {j.day}
      BY <1>3
    <3>2. QED
      BY <3>1
  <2>3. inventory' = Nights(types \ (j.list \cup {j.cur})) \cup ({j.cur.id} \X (1..j.day))
    BY <1>6, <2>1, <2>2
  <2>4. CASE j.day < Window
    <3>1. k.day - 1 = j.day /\ k.at = "fill" /\ k.cur = j.cur /\ k.list = j.list
      BY <1>3, <1>5, <2>4
    <3>2. QED
      BY <2>1, <2>3, <3>1
  <2>5. CASE j.day = Window
    <3>1. inventory' = Nights(types \ j.list)
      BY <2>1, <2>3, <2>5 DEF Nights
    <3>2. CASE j.list = {}
      BY <1>3, <1>5, <2>1, <2>5, <3>1, <3>2
    <3>3. CASE j.list # {}
      <4>1. /\ k.at = "fill" /\ k.cur \in j.list /\ k.list = j.list \ {k.cur} /\ k.day = 1
        BY <1>3, <1>5, <2>5, <3>3
      <4>2. {k.cur.id} \X (1..k.day - 1) = {}
        BY <4>1
      <4>3. k.list \cup {k.cur} = j.list
        BY <4>1
      <4>4. QED
        BY <2>1, <3>1, <4>1, <4>2, <4>3
    <3>4. QED
      BY <3>2, <3>3
  <2>6. QED
    BY <1>5, <2>4, <2>5
<1>14. Stocked'
  <2>1. ASSUME m # Idle, NEW r \in types, ToFill(r, w)
        PROVE  ToFill(r, w)' \/ Filled(r)'
    <3>1. CASE r \in j.list
      <4>1. k.at = "fill" /\ (r \in k.list \/ (r = k.cur /\ k.day = 1))
        BY <1>5, <3>1
      <4>2. 1..1 - 1 = {}
        OBVIOUS
      <4>3. QED
        BY <1>5, <1>6, <1>10, <2>1, <4>1, <4>2 DEF ToFill
    <3>2. CASE r = j.cur /\ \A d \in 1..j.day - 1 : <<r.id, d>> \in inventory
      <4>1. \A d \in 1..j.day : <<r.id, d>> \in inventory'
        BY <1>3, <1>6, <3>2
      <4>2. CASE j.day < Window
        <5>1. k.day - 1 = j.day /\ k.at = "fill" /\ k.cur = j.cur
          BY <1>3, <1>5, <4>2
        <5>2. QED
          BY <1>5, <1>6, <1>10, <2>1, <3>2, <4>1, <5>1 DEF ToFill
      <4>3. CASE j.day = Window
        BY <4>1, <4>3 DEF Filled
      <4>4. QED
        BY <1>5, <4>2, <4>3
    <3>3. QED
      BY <1>1, <2>1, <3>1, <3>2 DEF ToFill
  <2>2. QED
    BY <1>1, <1>6, <1>7, <1>11, <2>1, StockedOn
<1>15. QED
  BY <1>1, <1>2, <1>6, <1>7, <1>8, <1>9, <1>12, <1>13, <1>14, SeedStep

-----------------------------------------------------------------------------
(* Requests that begin, fail, or are lost.                                 *)

LEMMA FailStep ==
  ASSUME IInv, NEW w \in Workers, Fail(w)
  PROVE  IInv'
<1>1. /\ Running(w) /\ jobs' = [jobs EXCEPT ![w] = Idle] /\ items' = [items EXCEPT ![w] = {}]
      /\ broken' = (broken \/ Seeding(w)) /\ UNCHANGED <<types, inventory, nextId>>
  BY DEF Fail, Continue
<1>2. Kept(w, Idle, {})
  BY <1>1 DEF Kept, tables
<1>3. jobs[w].op \in {"seed", "quote"}
  BY <1>1 DEF IInv, TypeOK, Running, SeedJob, QuoteJob
<1>4. CASE jobs[w].op = "seed"
  <2>1. types \subseteq RoomType /\ inventory \subseteq (1..MaxId) \X (1..Window)
        /\ nextId \in 1..MaxId + 1
    BY <1>1, <1>4, SeedAt
  <2>2. broken'
    BY <1>1, <1>4 DEF Seeding
  <2>3. Stocked' /\ broken' \in BOOLEAN
    BY <1>1, <2>2 DEF Stocked, IInv, TypeOK
  <2>4. QED
    BY <1>1, <1>2, <1>4, <2>1, <2>3, SeedStep
<1>5. CASE jobs[w].op = "quote"
  <2>1. broken' = broken
    BY <1>1, <1>5 DEF Seeding, IInv, TypeOK
  <2>2. QED
    BY <1>1, <1>2, <1>5, <2>1, QuoteStep
<1>6. QED
  BY <1>3, <1>4, <1>5

LEMMA BeginStep ==
  ASSUME IInv, NEW w \in Workers, ~Running(w), NEW k \in Job,
         k.alone = (\A u \in Workers : ~Seeding(u)),
         jobs' = [v \in Workers |->
                    IF v = w THEN k
                    ELSE IF k.op = "quote" \/ jobs[v] = Idle THEN jobs[v]
                    ELSE [jobs[v] EXCEPT !.alone = FALSE]],
         items' = [items EXCEPT ![w] = {}],
         UNCHANGED <<types, inventory, nextId, broken>>,
         LocalOK(w)', SeedOK(w)', QuoteOK(w)'
  PROVE  IInv'
<1>1. jobs \in [Workers -> Job \cup {Idle}] /\ items = [v \in Workers |-> items[v]]
  BY DEF IInv, TypeOK, Job
<1>2. jobs'[w] = k /\ items'[w] = {} /\ items' = [v \in Workers |-> items'[v]]
  BY <1>1
<1>3. ASSUME NEW v \in Workers \ {w}
      PROVE  /\ jobs'[v] \in Job \cup {Idle} /\ items'[v] = items[v]
             /\ jobs'[v] = Idle <=> jobs[v] = Idle
             /\ jobs[v] # Idle =>
                  \/ k.op = "quote" /\ jobs'[v] = jobs[v]
                  \/ jobs'[v] = [jobs[v] EXCEPT !.alone = FALSE] /\ ~jobs'[v].alone
  <2>1. jobs'[v] = IF k.op = "quote" \/ jobs[v] = Idle THEN jobs[v]
                   ELSE [jobs[v] EXCEPT !.alone = FALSE]
    OBVIOUS
  <2>2. jobs[v] # Idle => /\ [jobs[v] EXCEPT !.alone = FALSE] \in Job
                          /\ ~[jobs[v] EXCEPT !.alone = FALSE].alone
    <3>1. CASE jobs[v] \in SeedJob
      BY <3>1 DEF Job, SeedJob
    <3>2. CASE jobs[v] \in QuoteJob
      BY <3>2 DEF Job, QuoteJob
    <3>3. QED
      BY <1>1, <3>1, <3>2 DEF Job
  <2>3. jobs[v] # Idle => [jobs[v] EXCEPT !.alone = FALSE] # Idle
    BY <2>2, SentinelAssumption DEF Job
  <2>4. items'[v] = items[v]
    BY <1>1
  <2>5. QED
    BY <1>1, <2>1, <2>2, <2>3, <2>4
<1>4. ASSUME NEW v \in Workers \ {w}, jobs[v] # Idle
      PROVE  /\ jobs'[v].op = jobs[v].op /\ jobs'[v].at = jobs[v].at
             /\ jobs'[v].list = jobs[v].list /\ jobs'[v].cur = jobs[v].cur
             /\ jobs[v].op = "seed" => jobs'[v].next = jobs[v].next /\ jobs'[v].day = jobs[v].day
             /\ jobs[v].op = "quote" => jobs'[v].from = jobs[v].from /\ jobs'[v].to = jobs[v].to
  BY <1>1, <1>3, <1>4 DEF Job, SeedJob, QuoteJob
<1>5. \A v \in Workers \ {w} : Seeding(v)' = Seeding(v)
  BY <1>3, <1>4 DEF Seeding, Running
<1>6. AloneOK'
  <2> SUFFICES ASSUME NEW a \in Workers, NEW v \in Workers, jobs'[a] # Idle, jobs'[a].alone,
                      v # a
               PROVE  ~Seeding(v)'
    BY DEF AloneOK
  <2>1. CASE a = w
    BY <1>2, <1>5, <2>1
  <2>2. CASE a # w
    <3>1. k.op = "quote" /\ jobs'[a] = jobs[a]
      BY <1>3, <2>2
    <3>2. CASE v = w
      BY <1>2, <3>1, <3>2 DEF Seeding
    <3>3. CASE v # w
      BY <1>5, <3>1, <3>3 DEF IInv, AloneOK
    <3>4. QED
      BY <3>2, <3>3
  <2>3. QED
    BY <2>1, <2>2
<1>7. TypeOK'
  <2>1. \A v \in Workers : \A x \in items'[v] : jobs'[v] # Idle /\ IsItem(x, jobs'[v])
    <3>1. ASSUME NEW v \in Workers \ {w}, NEW x \in items'[v]
          PROVE  jobs'[v] # Idle /\ IsItem(x, jobs'[v])
      <4>1. jobs[v] # Idle /\ IsItem(x, jobs[v]) /\ LocalOK(v)
        BY <1>3, <3>1 DEF IInv, TypeOK, WorkerOK
      <4>2. jobs[v].op = "quote"
        BY <1>1, <1>3, <4>1 DEF LocalOK, Job, SeedJob, QuoteJob
      <4>3. QED
        BY <1>3, <1>4, <4>1, <4>2 DEF IsItem
    <3>2. QED
      BY <1>2, <3>1
  <2>2. jobs' \in [Workers -> Job \cup {Idle}]
    BY <1>2, <1>3
  <2>3. QED
    BY <1>2, <2>1, <2>2 DEF IInv, TypeOK, Job, IsItem
<1>8. NeverOvercharged'
  BY <1>2, <1>3 DEF IInv, NeverOvercharged
<1>9. Stocked'
  <2>1. ASSUME NEW r, NEW v \in Workers, ToFill(r, v) PROVE ToFill(r, v)'
    <3>1. v # w
      BY <2>1 DEF ToFill, Running
    <3>2. QED
      BY <1>3, <1>4, <2>1, <3>1 DEF ToFill
  <2>2. QED
    BY <2>1 DEF IInv, Stocked, Filled
<1>10. ASSUME NEW v \in Workers \ {w} PROVE WorkerOK(v)'
  <2>1. WorkerOK(v)
    BY DEF IInv
  <2>2. LocalOK(v)'
    <3>1. jobs[v] # Idle =>
            /\ jobs[v].op \in {"seed", "quote"}
            /\ jobs[v].at \in {"inventory", "types", "insert"} => jobs[v].op = "seed"
      BY <1>1 DEF Job, SeedJob, QuoteJob
    <3>2. QED
      BY <2>1, <1>3, <1>4, <3>1 DEF WorkerOK, LocalOK
  <2>3. SeedOK(v)'
    BY <2>1, <1>3 DEF WorkerOK, SeedOK, Nights
  <2>4. QuoteOK(v)'
    BY <2>1, <1>3 DEF WorkerOK, QuoteOK, Complete, Large
  <2>5. QED
    BY <2>2, <2>3, <2>4 DEF WorkerOK
<1>11. QED
  BY <1>6, <1>7, <1>8, <1>9, <1>10 DEF IInv, WorkerOK

LEMMA StartSeedStep ==
  ASSUME IInv, NEW w \in Workers, StartSeed(w)
  PROVE  IInv'
<1> DEFINE k == [op |-> "seed", at |-> "inventory", next |-> 1, day |-> 1, list |-> {},
                 cur |-> NoType, alone |-> \A u \in Workers : ~Seeding(u)]
<1>1. k \in SeedJob
  <2>1. 1 \in 1..Len(Samples) + 1 /\ 1 \in 1..Window
    BY SampleNames, BoundAssumption
  <2>2. QED
    BY <2>1 DEF SeedJob
<1>2. /\ k.op = "seed" /\ k.at = "inventory" /\ k.next = 1 /\ k.day = 1
      /\ k.alone = (\A u \in Workers : ~Seeding(u))
  OBVIOUS
<1>3. /\ ~Running(w) /\ items' = [items EXCEPT ![w] = {}]
      /\ UNCHANGED <<types, inventory, nextId, broken>>
      /\ jobs' = [v \in Workers |->
                    IF v = w THEN k
                    ELSE IF k.op = "quote" \/ jobs[v] = Idle THEN jobs[v]
                    ELSE [jobs[v] EXCEPT !.alone = FALSE]]
  BY DEF StartSeed
<1> HIDE DEF k
<1>4. jobs'[w] = k /\ items'[w] = {}
  BY <1>3 DEF IInv, TypeOK
<1>5. LocalOK(w)' /\ SeedOK(w)' /\ QuoteOK(w)'
  BY <1>2, <1>4 DEF LocalOK, SeedOK, QuoteOK
<1>6. k \in Job
  BY <1>1 DEF Job
<1>7. QED
  BY <1>2, <1>3, <1>5, <1>6, BeginStep

LEMMA StartQuoteStep ==
  ASSUME IInv, NEW w \in Workers, NEW from \in Days, NEW to \in Days, NEW guests \in Guests,
         StartQuote(w, from, to, guests)
  PROVE  IInv'
<1> DEFINE k == [op |-> "quote", at |-> "list", from |-> from, to |-> to, guests |-> guests,
                 list |-> {}, cur |-> NoType, alone |-> \A u \in Workers : ~Seeding(u)]
<1>1. k \in QuoteJob
  BY DEF QuoteJob
<1>2. /\ k.op = "quote" /\ k.at = "list" /\ k.from < k.to
      /\ k.alone = (\A u \in Workers : ~Seeding(u))
  BY DEF StartQuote
<1>3. /\ ~Running(w) /\ items' = [items EXCEPT ![w] = {}]
      /\ UNCHANGED <<types, inventory, nextId, broken>>
      /\ jobs' = [jobs EXCEPT ![w] = k]
  BY DEF StartQuote
<1> HIDE DEF k
<1>4. jobs' = [v \in Workers |->
                 IF v = w THEN k
                 ELSE IF k.op = "quote" \/ jobs[v] = Idle THEN jobs[v]
                 ELSE [jobs[v] EXCEPT !.alone = FALSE]]
  BY <1>2, <1>3 DEF IInv, TypeOK
<1>5. jobs'[w] = k /\ items'[w] = {}
  BY <1>3 DEF IInv, TypeOK
<1>6. LocalOK(w)' /\ SeedOK(w)' /\ QuoteOK(w)'
  BY <1>2, <1>5 DEF LocalOK, SeedOK, QuoteOK
<1>7. k \in Job
  BY <1>1 DEF Job
<1>8. QED
  BY <1>2, <1>3, <1>4, <1>6, <1>7, BeginStep

LEMMA RestartStep ==
  ASSUME IInv, Restart
  PROVE  IInv'
<1>1. /\ \A w \in Workers : jobs'[w] = Idle /\ items'[w] = {}
      /\ broken' = (types' # {})
  BY DEF Restart
<1>2. TypeOK'
  <2>1. 1 \in 1..MaxId + 1
    BY BoundAssumption
  <2>2. QED
    BY <2>1 DEF Restart, IInv, TypeOK, IsItem
<1>3. Stocked' /\ NeverOvercharged' /\ AloneOK'
  BY <1>1 DEF Stocked, NeverOvercharged, AloneOK
<1>4. \A w \in Workers : WorkerOK(w)'
  BY <1>1 DEF WorkerOK, LocalOK, SeedOK, QuoteOK
<1>5. QED
  BY <1>2, <1>3, <1>4 DEF IInv

-----------------------------------------------------------------------------
LEMMA InitIInv == Init => IInv
<1> SUFFICES ASSUME Init PROVE IInv
  OBVIOUS
<1>1. TypeOK
  <2>1. 1 \in 1..MaxId + 1
    BY BoundAssumption
  <2>2. QED
    BY <2>1 DEF Init, TypeOK, IsItem
<1>2. Stocked /\ NeverOvercharged /\ AloneOK
  BY DEF Init, Stocked, NeverOvercharged, AloneOK
<1>3. \A w \in Workers : WorkerOK(w)
  BY DEF Init, WorkerOK, LocalOK, SeedOK, QuoteOK
<1>4. QED
  BY <1>1, <1>2, <1>3 DEF IInv

LEMMA StepIInv == IInv /\ [Next]_vars => IInv'
<1> SUFFICES ASSUME IInv, [Next]_vars PROVE IInv'
  OBVIOUS
<1>1. ASSUME NEW w \in Workers, StartSeed(w) PROVE IInv'
  BY <1>1, StartSeedStep
<1>2. ASSUME NEW w \in Workers, NEW from \in Days, NEW to \in Days, NEW guests \in Guests,
             StartQuote(w, from, to, guests)
      PROVE  IInv'
  BY <1>2, StartQuoteStep
<1>3. ASSUME NEW w \in Workers, HandlerStep(w) PROVE IInv'
  <2>1. ASSUME NEW answer \in Answer,
               \/ WipeInventory(w, answer) \/ WipeTypes(w, answer)
               \/ InsertType(w, answer) \/ FillNight(w, answer)
        PROVE  IInv'
    BY <2>1, WipeInventoryStep, WipeTypesStep, InsertTypeStep, FillNightStep
  <2>2. CASE ListSeeded(w) \/ ListTypes(w) \/ CheckStock(w) \/ ReadPrices(w)
    BY <2>2, ListSeededStep, ListTypesStep, CheckStockStep, ReadPricesStep
  <2>3. QED
    BY <1>3, <2>1, <2>2 DEF HandlerStep
<1>4. ASSUME NEW w \in Workers, Fail(w) PROVE IInv'
  BY <1>4, FailStep
<1>5. CASE Restart
  BY <1>5, RestartStep
<1>6. CASE UNCHANGED vars
  <2>1. TypeOK' /\ AloneOK' /\ NeverOvercharged'
    BY <1>6 DEF vars, IInv, TypeOK, IsItem, AloneOK, Seeding, Running, NeverOvercharged
  <2>2. Stocked'
    BY <1>6 DEF vars, IInv, Stocked, Filled, ToFill
  <2>3. ASSUME NEW w \in Workers PROVE WorkerOK(w)'
    <3>1. WorkerOK(w)
      BY DEF IInv
    <3>2. LocalOK(w)'
      BY <1>6, <3>1 DEF vars, WorkerOK, LocalOK
    <3>3. SeedOK(w)'
      BY <1>6, <3>1 DEF vars, WorkerOK, SeedOK
    <3>4. QuoteOK(w)'
      BY <1>6, <3>1 DEF vars, WorkerOK, QuoteOK, Large, Complete
    <3>5. QED
      BY <3>2, <3>3, <3>4 DEF WorkerOK
  <2>4. QED
    BY <2>1, <2>2, <2>3 DEF IInv
<1>7. QED
  BY <1>1, <1>2, <1>3, <1>4, <1>5, <1>6 DEF Next

(* The conjunction that every step of the service keeps.                   *)
THEOREM Invariant == Spec => []IInv
BY InitIInv, StepIInv, PTL DEF Spec

(* The tables, the requests and the answers keep their types.              *)
THEOREM TypeCorrect == Spec => []TypeOK
<1>1. IInv => TypeOK
  BY DEF IInv
<1>2. QED
  BY Invariant, <1>1, PTL

LEMMA SoleSeedComplete == IInv => SoleSeedCompletes
<1> SUFFICES ASSUME IInv, NEW w \in Workers, At(w, "ok"), jobs[w].op = "seed", jobs[w].alone
             PROVE  Complete
  BY DEF SoleSeedCompletes
<1>1. OneEach(types, Names) /\ inventory = Nights(types)
  BY DEF IInv, WorkerOK, SeedOK, At
<1>2. QED
  BY <1>1 DEF Complete, OneEach, Nights

(* A seed that was answered ok leaves the catalog complete, whatever it    *)
(* found, if no other overlapped it or came after it.                      *)
THEOREM SoleSeedCompletesAlways == Spec => []SoleSeedCompletes
BY Invariant, SoleSeedComplete, PTL

LEMMA QuietStocked == IInv => StockedWhenQuiet
<1> SUFFICES ASSUME IInv, ~broken, \A w \in Workers : ~Seeding(w), NEW r \in types
             PROVE  Filled(r)
  BY DEF StockedWhenQuiet, Filled
<1>1. \A w \in Workers : ~ToFill(r, w)
  BY DEF ToFill, Seeding, Running
<1>2. QED
  BY <1>1 DEF IInv, Stocked

(* When all seeds have ended and none has failed since the room types were *)
(* wiped, every type that is left has all of its nights.                   *)
THEOREM StockedWhenQuietAlways == Spec => []StockedWhenQuiet
BY Invariant, QuietStocked, PTL

LEMMA QuietExact == IInv => QuietQuoteExact
<1> SUFFICES ASSUME IInv, NEW w \in Workers, At(w, "ok"), jobs[w].op = "quote",
                    jobs[w].alone, Complete, jobs[w].from >= 1, jobs[w].to - 1 <= Window
             PROVE  items[w] =
                      {[type |-> r, prices |-> [n \in jobs[w].from..jobs[w].to - 1 |->
                                        IF n \in Weekend THEN "weekend" ELSE "base"]] :
                       r \in {s \in types :
                                s.name \in {n \in Names : jobs[w].guests <= Capacity[n]}}}
  BY DEF QuietQuoteExact
<1>1. items[w] = Exacts(Large(jobs[w]), jobs[w])
  BY DEF IInv, WorkerOK, QuoteOK, At
<1>2. jobs[w].guests \in Nat /\ types \subseteq RoomType
  BY BoundAssumption DEF IInv, TypeOK, At, SeedJob, QuoteJob
<1>3. Large(jobs[w]) =
        {s \in types : s.name \in {n \in Names : jobs[w].guests <= Capacity[n]}}
  <2>1. \A s \in types : s.name \in Names /\ Capacity[s.name] \in Nat
    BY <1>2, SampleAssumption DEF RoomType
  <2>2. \A s \in types : Fits(s, jobs[w].guests) <=> jobs[w].guests <= Capacity[s.name]
    BY <1>2, <2>1 DEF Fits
  <2>3. QED
    BY <2>1, <2>2 DEF Large
<1>4. QED
  BY <1>1, <1>3 DEF Exacts, Exact

(* A quote that reads a complete catalog and met no seed lists every type  *)
(* that is large enough, each night at the price of its day.               *)
THEOREM QuietQuoteExactAlways == Spec => []QuietQuoteExact
BY Invariant, QuietExact, PTL

(* No item of a quote has more nights at the weekend price than the stay   *)
(* has weekend nights, whatever seeds do to the rows meanwhile.            *)
THEOREM NeverOverchargedAlways == Spec => []NeverOvercharged
<1>1. IInv => NeverOvercharged
  BY DEF IInv
<1>2. QED
  BY Invariant, <1>1, PTL
-----------------------------------------------------------------------------
(* How far a request has come, and when it has less before it than it had: *)
(* it is at a later stage; or at the same one with more samples inserted,  *)
(* with fewer room types to go, or further with the one in hand.           *)
Stage ==
  [inventory |-> 5, types |-> 4, insert |-> 3, list |-> 2,
   fill |-> 1, stock |-> 1, prices |-> 1, ok |-> 0]

Nearer(k, j) ==
  /\ k.op = j.op
  /\ \/ Stage[k.at] < Stage[j.at]
     \/ /\ Stage[k.at] = Stage[j.at]
        /\ \/ k.at = "insert" /\ k.next > j.next
           \/ k.list \subseteq j.list /\ k.list # j.list
           \/ /\ k.list = j.list
              /\ \/ k.at = "fill" /\ k.day > j.day
                 \/ k.at = "prices" /\ j.at = "stock"

(* The request goes on as it was but for what it knows of other seeds.     *)
Unmoved(w) == jobs'[w] \in {[jobs[w] EXCEPT !.alone = b] : b \in BOOLEAN}

GoesNearer ==
  \A w \in Workers : Running(w) /\ jobs'[w] # Idle =>
    \/ Nearer(jobs'[w], jobs[w])
    \/ ~HandlerStep(w) /\ Unmoved(w)

(* Every step a request takes of its own is one nearer to its end; what    *)
(* other requests do to the tables never sets it back.                     *)
RequestsCount == [][GoesNearer]_vars

(* Each handler step that does not fail brings its request nearer.         *)
LEMMA HandlerNearer ==
  ASSUME IInv, NEW w \in Workers, HandlerStep(w), jobs'[w] # Idle
  PROVE  Nearer(jobs'[w], jobs[w])
<1> DEFINE j == jobs[w]
           k == jobs'[w]
<1>1. /\ j \in SeedJob \cup QuoteJob /\ DOMAIN jobs = Workers
      /\ jobs \in [Workers -> SeedJob \cup QuoteJob \cup {Idle}]
  BY DEF IInv, TypeOK, HandlerStep, WipeInventory, WipeTypes, InsertType, FillNight,
         ListSeeded, ListTypes, CheckStock, ReadPrices, At
<1>2. ASSUME NEW answer \in Answer, WipeInventory(w, answer) PROVE Nearer(k, j)
  <2>1. k = [j EXCEPT !.at = "types"] /\ j.at = "inventory"
    BY <1>1, <1>2 DEF WipeInventory, Continue, At
  <2>2. QED
    BY <1>1, <2>1 DEF Nearer, Stage, SeedJob, QuoteJob
<1>3. ASSUME NEW answer \in Answer, WipeTypes(w, answer) PROVE Nearer(k, j)
  <2>1. k = [j EXCEPT !.at = "insert"] /\ j.at = "types"
    BY <1>1, <1>3 DEF WipeTypes, Continue, At
  <2>2. QED
    BY <1>1, <2>1 DEF Nearer, Stage, SeedJob, QuoteJob
<1>4. ASSUME NEW answer \in Answer, InsertType(w, answer) PROVE Nearer(k, j)
  <2>1. /\ k = [j EXCEPT !.next = @ + 1, !.at = IF j.next = Len(Samples) THEN "list" ELSE @]
        /\ j.at = "insert"
    BY <1>1, <1>4 DEF InsertType, Continue, At
  <2>2. j \in SeedJob
    BY <1>1, <2>1 DEF SeedJob, QuoteJob
  <2>3. j.next \in Int
    BY <2>2, SampleAssumption DEF SeedJob
  <2>4. k.op = j.op /\ k.next = j.next + 1 /\ k.at \in {"list", "insert"}
    BY <2>1, <2>2 DEF SeedJob
  <2>5. QED
    BY <2>1, <2>3, <2>4 DEF Nearer, Stage
<1>5. ASSUME NEW answer \in Answer, FillNight(w, answer) PROVE Nearer(k, j)
  <2>1. j.at = "fill"
    BY <1>5 DEF FillNight, At
  <2>2. j \in SeedJob
    BY <1>1, <2>1 DEF SeedJob, QuoteJob
  <2>3. j.day \in 1..Window /\ Window \in Nat
    BY <2>2, BoundAssumption DEF SeedJob
  <2>4. k \in IF MoreNights(j.day) THEN {[j EXCEPT !.day = @ + 1]}
              ELSE Onward([j EXCEPT !.day = 1], "fill")
    BY <1>1, <1>5 DEF FillNight, Continue
  <2>5. CASE k = [j EXCEPT !.day = @ + 1]
    BY <2>1, <2>2, <2>3, <2>5 DEF Nearer, Stage, SeedJob
  <2>6. CASE k \in Onward([j EXCEPT !.day = 1], "fill")
    <3> DEFINE i == [j EXCEPT !.day = 1]
    <3>1. i \in SeedJob /\ i.list = j.list /\ i.op = j.op
      BY <2>2, <2>3 DEF SeedJob
    <3> HIDE DEF i
    <3>2. /\ k \in SeedJob
          /\ \/ k.at = "ok"
             \/ k.at = "fill" /\ k.cur \in i.list /\ k.list = i.list \ {k.cur}
      BY <2>6, <3>1, OnwardSeed DEF i
    <3>3. k.op = j.op
      BY <2>2, <3>2 DEF SeedJob
    <3>4. QED
      BY <2>1, <3>1, <3>2, <3>3 DEF Nearer, Stage
  <2>7. QED
    BY <2>4, <2>5, <2>6
<1>6. CASE ListSeeded(w)
  <2>1. j.at = "list" /\ j.op = "seed" /\ types \in SUBSET RoomType
    BY <1>6 DEF ListSeeded, At, IInv, TypeOK
  <2>2. j \in SeedJob
    BY <1>1, <2>1 DEF SeedJob, QuoteJob
  <2>3. k \in Onward([j EXCEPT !.list = types], "fill")
    BY <1>1, <1>6 DEF ListSeeded, Continue
  <2>4. [j EXCEPT !.list = types] \in SeedJob
    BY <2>1, <2>2 DEF SeedJob
  <2>5. k \in SeedJob /\ k.at \in {"ok", "fill"}
    BY <2>3, <2>4, OnwardSeed
  <2>6. QED
    BY <2>1, <2>2, <2>5 DEF Nearer, Stage, SeedJob
<1>7. CASE ListTypes(w)
  <2> DEFINE large == {r \in types : Fits(r, j.guests)}
  <2>1. j.at = "list" /\ j.op = "quote" /\ large \in SUBSET RoomType
    BY <1>7 DEF ListTypes, At, IInv, TypeOK
  <2>2. j \in QuoteJob
    BY <1>1, <2>1 DEF SeedJob, QuoteJob
  <2>3. k \in Onward([j EXCEPT !.list = large], "stock")
    BY <1>1, <1>7 DEF ListTypes, Continue
  <2> HIDE DEF large
  <2>4. [j EXCEPT !.list = large] \in QuoteJob
    BY <2>1, <2>2 DEF QuoteJob
  <2>5. k \in QuoteJob /\ k.at \in {"ok", "stock"}
    BY <2>3, <2>4, OnwardQuote
  <2>6. QED
    BY <2>1, <2>2, <2>5 DEF Nearer, Stage, QuoteJob
<1>8. ASSUME j \in QuoteJob, j.at \in {"stock", "prices"}, k \in Onward(j, "stock")
      PROVE  Nearer(k, j)
  <2>1. /\ k \in QuoteJob
        /\ \/ k.at = "ok"
           \/ k.at = "stock" /\ k.cur \in j.list /\ k.list = j.list \ {k.cur}
    BY <1>8, OnwardQuote
  <2>2. k.op = j.op
    BY <1>8, <2>1 DEF QuoteJob
  <2>3. QED
    BY <1>8, <2>1, <2>2 DEF Nearer, Stage
<1>9. CASE CheckStock(w)
  <2>1. j.at = "stock"
    BY <1>9 DEF CheckStock, At
  <2>2. j \in QuoteJob
    BY <1>1, <2>1 DEF SeedJob, QuoteJob
  <2>3. k = [j EXCEPT !.at = "prices"] \/ k \in Onward(j, "stock")
    BY <1>1, <1>9 DEF CheckStock, Continue
  <2>4. CASE k = [j EXCEPT !.at = "prices"]
    BY <2>1, <2>2, <2>4 DEF Nearer, Stage, QuoteJob
  <2>5. QED
    BY <1>8, <2>1, <2>2, <2>3, <2>4
<1>10. CASE ReadPrices(w)
  <2>1. j.at = "prices"
    BY <1>10 DEF ReadPrices, At
  <2>2. j \in QuoteJob
    BY <1>1, <2>1 DEF SeedJob, QuoteJob
  <2>3. k \in Onward(j, "stock")
    BY <1>1, <1>10 DEF ReadPrices, Continue
  <2>4. QED
    BY <1>8, <2>1, <2>2, <2>3
<1>11. QED
  BY <1>2, <1>3, <1>4, <1>5, <1>6, <1>7, <1>9, <1>10 DEF HandlerStep

(* The loops over room types and nights end: each is over what was listed  *)
(* when it began, so seeds that overlap cannot keep one another running.   *)
THEOREM RequestsRunOut == Spec => RequestsCount
<1>1. ASSUME IInv, [Next]_vars, NEW w \in Workers, Running(w), jobs'[w] # Idle,
             ~Nearer(jobs'[w], jobs[w])
      PROVE  ~HandlerStep(w) /\ Unmoved(w)
  <2>1. /\ jobs \in [Workers -> SeedJob \cup QuoteJob \cup {Idle}]
        /\ jobs[w] \in SeedJob \cup QuoteJob
    BY <1>1 DEF IInv, TypeOK, Running
  <2>2. ~HandlerStep(w)
    BY <1>1, HandlerNearer
  <2>3. ASSUME jobs'[w] = jobs[w] PROVE Unmoved(w)
    <3>1. jobs[w] = [jobs[w] EXCEPT !.alone = jobs[w].alone] /\ jobs[w].alone \in BOOLEAN
      BY <2>1 DEF SeedJob, QuoteJob
    <3>2. QED
      BY <2>3, <3>1 DEF Unmoved
  <2>4. ASSUME NEW u \in Workers, StartSeed(u) PROVE Unmoved(w)
    BY <1>1, <2>1, <2>3, <2>4 DEF StartSeed, Running, Unmoved
  <2>5. ASSUME NEW u \in Workers, NEW from \in Days, NEW to \in Days, NEW guests \in Guests,
               StartQuote(u, from, to, guests)
        PROVE  Unmoved(w)
    <3>1. u # w
      BY <1>1, <2>5 DEF StartQuote
    <3>2. QED
      BY <2>1, <2>3, <2>5, <3>1 DEF StartQuote
  <2>6. ASSUME NEW u \in Workers, HandlerStep(u) PROVE Unmoved(w)
    <3>1. u # w
      BY <2>2, <2>6
    <3>2. jobs'[w] = jobs[w]
      BY <2>1, <2>6, <3>1 DEF HandlerStep, WipeInventory, WipeTypes, InsertType, FillNight,
           ListSeeded, ListTypes, CheckStock, ReadPrices, Continue
    <3>3. QED
      BY <2>3, <3>2
  <2>7. ASSUME NEW u \in Workers, Fail(u) PROVE Unmoved(w)
    <3>1. u # w
      BY <1>1, <2>1, <2>7 DEF Fail, Continue
    <3>2. QED
      BY <2>1, <2>3, <2>7, <3>1 DEF Fail, Continue
  <2>8. ASSUME UNCHANGED vars PROVE Unmoved(w)
    BY <2>3, <2>8 DEF vars
  <2>9. ~Restart
    BY <1>1 DEF Restart
  <2>10. Unmoved(w)
    BY <1>1, <2>4, <2>5, <2>6, <2>7, <2>8, <2>9 DEF Next
  <2>11. QED
    BY <2>2, <2>10
<1>2. IInv /\ [Next]_vars => GoesNearer
  BY <1>1 DEF GoesNearer
<1>3. QED
  BY <1>2, Invariant, PTL DEF Spec, RequestsCount
=============================================================================
