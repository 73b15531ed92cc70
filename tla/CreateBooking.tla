---------------------------- MODULE CreateBooking ----------------------------
(***************************************************************************)
(* Creating a booking: Service.Create of the booking service, which asks   *)
(* the catalog service (CatalogService) for the price of each item.        *)
(*                                                                         *)
(* Each price is a request over HTTP of its own, which the catalog serves  *)
(* call by call while seeds and restarts change its tables; the booking    *)
(* service waits five seconds for it.  The item takes the price of the     *)
(* first night and the whole stay is charged at it.  Nothing is written    *)
(* before the last item has its price (BookingStore has the writing).      *)
(*                                                                         *)
(* An order asks the catalog through the request slot of its own name.     *)
(***************************************************************************)
EXTENDS FiniteSets, Integers, Sequences

CONSTANTS Samples, Capacity, Window, Days, Weekend, Guests, MaxId, Workers,
          NoType, Idle,   \* see CatalogService
          Orders,         \* the request slots of the catalog that orders use
          BasePrice,      \* the base price of each name of room types
          CheckIns,       \* bound: the instants, in hours, at which stays begin;
          CheckOuts,      \*   those at which they end (hour 24 begins day 1)
          Quantities,     \* bound: the numbers of rooms clients ask for
          MaxItems,       \* bound: the items of an order
          Word            \* int64 holds -Word..Word - 1

VARIABLES types, inventory, nextId, jobs, items, broken,  \* see CatalogService
          orders        \* what each POST /bookings under way has done so far

C == INSTANCE CatalogService

catalogVars == <<types, inventory, nextId, jobs, items, broken>>
vars == <<catalogVars, orders>>

Int64 == -Word..Word - 1
Pick  == [type : C!RoomType, quantity : Quantities]

(* night: "base" or "weekend".  sure is history: no seed was under way     *)
(* while the price was asked for.                                          *)
Line == [type : C!RoomType, quantity : Quantities, night : {"base", "weekend"},
         total : Int64, sure : BOOLEAN]

(* at: what the order does next, or "ok" once it was answered 201; an      *)
(* order answered an error leaves nothing behind.  stale is history: the   *)
(* catalog restarted since the client picked its room types.               *)
Order ==
  [at : {"ask", "wait", "insert", "ok"}, picks : Seq(Pick), lines : Seq(Line),
   from : CheckIns, to : CheckOuts, nights : Nat \ {0}, subtotal : Int64, stale : BOOLEAN]

ASSUME CatalogAssumption ==   \* that of CatalogService
  /\ Samples \in Seq(C!Names) /\ Len(Samples) > 0
  /\ \A n \in C!Names : \E k \in C!Names : Samples[k] = n
  /\ \A k, l \in C!Names : Samples[k] = Samples[l] => k = l
  /\ Capacity \in [C!Names -> Nat]
  /\ Window \in Nat \ {0} /\ MaxId \in Nat
  /\ Days \subseteq Int /\ Guests \subseteq Nat
  /\ NoType \notin C!RoomType /\ Idle \notin C!SeedJob \cup C!QuoteJob
ASSUME PriceAssumption ==
  BasePrice \in [C!Names -> Nat] /\ Word \in Nat \ {0} /\ MaxItems \in Nat
ASSUME StayAssumption ==
  /\ CheckIns \cup CheckOuts \subseteq Nat /\ Quantities \subseteq Nat \ {0}
  /\ {h \div 24 : h \in CheckIns} \cup {h \div 24 + 1 : h \in CheckIns} \subseteq Days
ASSUME SlotAssumption == Orders \subseteq Workers /\ 0 \in Guests

TypeOK ==
  /\ C!TypeOK
  /\ orders \in [Orders -> Order \cup {Idle}]

Init == C!Init /\ orders = [o \in Orders |-> Idle]

At(o, at)  == orders[o] # Idle /\ orders[o].at = at
Running(o) == orders[o] # Idle /\ orders[o].at # "ok"
Refuse(o)  == orders' = [orders EXCEPT ![o] = Idle]

-----------------------------------------------------------------------------
(* Amounts.                                                                *)

(* What int64 arithmetic makes of a sum or a product.                      *)
Wide(n) == n
Wrap(n) == ((n + Word) % (2 * Word)) - Word

(* The largest power of two that is not greater than n, for n > 0.         *)
FloorPower[n \in Nat] == IF n < 2 THEN 1 ELSE 2 * FloorPower[n \div 2]

(* int64(float64(base) * 1.15), for prices up to 2^50.  The double next to *)
(* 1.15 lies below it, so where 115% of the base is a whole number n the   *)
(* product may round to less.  It does if the error, 0.4 * base * 2^-52,   *)
(* exceeds half of what n is apart from the next double.                   *)
WeekendPrice(base) ==
  LET n == (115 * base) \div 100
  IN  IF base > 0 /\ 100 * n = 115 * base /\ 4 * base > 5 * FloorPower[n] THEN n - 1 ELSE n

PriceOf(name, night) ==
  IF night = "weekend" THEN WeekendPrice(BasePrice[name]) ELSE BasePrice[name]

(* int64(quantity) * int64(nights) * perNight                              *)
LineTotal(quantity, nights, price) == Wrap(Wrap(quantity * nights) * price)

(* daysBetween: the hours of the stay in whole days.                       *)
RoundedUp(from, to) == IF to < from THEN 0 ELSE (to - from + 23) \div 24
Nights(from, to)    == IF to < from THEN 0 ELSE (to - from) \div 24

LastNight(o)  == o.to \div 24 - 1
FirstNight(o) == o.from \div 24

-----------------------------------------------------------------------------
(* A client orders room types that it sees in the catalog; the order may   *)
(* reach the service much later.  A stay that daysBetween finds to have no *)
(* night is refused, and changes nothing.                                  *)
StartOrder(o, from, to, picks) ==
  /\ ~Running(o) /\ Nights(from, to) > 0
  /\ orders' = [orders EXCEPT ![o] =
       [at |-> "ask", picks |-> picks, lines |-> <<>>, from |-> from, to |-> to,
        nights |-> Nights(from, to), subtotal |-> 0, stale |-> FALSE]]
  /\ UNCHANGED catalogVars

(* inv.Price asks for the night of the check-in.                           *)
AskPrice(o) ==
  /\ At(o, "ask")
  /\ C!StartQuote(o, FirstNight(orders[o]), FirstNight(orders[o]) + 1, 0)
  /\ orders' = [orders EXCEPT ![o].at = "wait"]

(* The item's price is in the answer: the next item, or the booking.       *)
AddLine(o, item) ==
  LET order == orders[o]
      pick  == order.picks[Len(order.lines) + 1]
      night == item.prices[FirstNight(order)]
      total == LineTotal(pick.quantity, order.nights, PriceOf(item.type.name, night))
      line  == [type |-> item.type, quantity |-> pick.quantity, night |-> night,
                total |-> total, sure |-> jobs[o].alone]
  IN  orders' = [orders EXCEPT ![o] =
        [order EXCEPT !.lines = Append(@, line), !.subtotal = Wrap(@ + total),
                      !.at = IF Len(order.lines) + 1 = Len(order.picks) THEN "insert" ELSE "ask"]]

AnyItem(x, id)  == TRUE
IsPicked(x, id) == x.type.id = id

(* The catalog has answered, or its call failed or its process stopped:    *)
(* an answer without the room type is an error as well.                    *)
TakePrice(o) ==
  /\ At(o, "wait") /\ ~C!Running(o)
  /\ LET wanted == orders[o].picks[Len(orders[o].lines) + 1].type.id
         found  == {x \in items[o] : IsPicked(x, wanted)}
     IN  IF found = {} THEN Refuse(o) ELSE \E x \in found : AddLine(o, x)
  /\ UNCHANGED catalogVars

NoTimeout(o) == FALSE /\ UNCHANGED vars

(* The client's timer runs off, or the answer is lost.  The catalog sees   *)
(* the connection closed and gives its request up.                         *)
Timeout(o) ==
  /\ At(o, "wait") /\ Refuse(o)
  /\ IF C!Running(o) THEN C!Fail(o) ELSE UNCHANGED catalogVars

(* repo.Create; RequestPayment is a no-op.                                 *)
InsertBooking(o) ==
  /\ At(o, "insert")
  /\ orders' = [orders EXCEPT ![o].at = "ok"]
  /\ UNCHANGED catalogVars

(* repo.Create fails, and the order is answered an error.                  *)
FailInsert(o) == At(o, "insert") /\ Refuse(o) /\ UNCHANGED catalogVars

(* The booking service stops: its orders are lost, its connections close.  *)
Crash ==
  /\ orders' = [o \in Orders |-> Idle]
  /\ jobs'  = [w \in Workers |-> IF w \in Orders THEN Idle ELSE jobs[w]]
  /\ items' = [w \in Workers |-> IF w \in Orders THEN {} ELSE items[w]]
  /\ UNCHANGED <<types, inventory, nextId, broken>>

(* The catalog goes on: with the orders' requests, and with seeds.         *)
CatalogStep ==
  /\ \E w \in Workers :
       \/ w \notin Orders /\ C!StartSeed(w)
       \/ C!HandlerStep(w)
       \/ C!Fail(w)
  /\ UNCHANGED orders

RestartCatalog ==
  /\ C!Restart
  /\ orders' = [o \in Orders |-> IF orders[o] = Idle THEN Idle ELSE [orders[o] EXCEPT !.stale = TRUE]]

Picks == {[type |-> r, quantity |-> q] : r \in types, q \in Quantities}

OrderStep(o) ==
  \/ AskPrice(o) \/ TakePrice(o) \/ Timeout(o) \/ InsertBooking(o) \/ FailInsert(o)

Next ==
  \/ \E o \in Orders :
       \/ \E from \in CheckIns, to \in CheckOuts, n \in 1..MaxItems :
            \E picks \in [1..n -> Picks] : StartOrder(o, from, to, picks)
       \/ OrderStep(o)
  \/ Crash \/ CatalogStep \/ RestartCatalog

Spec == Init /\ [][Next]_vars

(* The goroutine of an order goes on, and its timer runs.  The catalog may *)
(* never answer.                                                           *)
Fairness ==
  \A o \in Orders :
    /\ WF_vars(AskPrice(o)) /\ WF_vars(TakePrice(o)) /\ WF_vars(Timeout(o))
    /\ WF_vars(InsertBooking(o))

FairSpec == Spec /\ Fairness

-----------------------------------------------------------------------------
(* The items of a booking are of the room types the client saw and picked, *)
(* by name, though an item keeps only an id and seeds replace the types    *)
(* and their ids between the picking and the pricing; unless the catalog   *)
(* restarted in between, which begins the ids anew.                        *)
(* (booking_service.go:54-73, catalog_service.go:50-66)                    *)
BookedAsPicked ==
  \A o \in Orders : orders[o] # Idle =>
    \A i \in DOMAIN orders[o].lines :
      ~orders[o].stale => orders[o].lines[i].type = orders[o].picks[i].type

(* No item is charged the weekend price for a night that is no weekend's;  *)
(* and one of a weekend night is, unless a seed was under way as its price *)
(* was read.  (booking_service.go:56, catalog_service.go:133-147)          *)
PricedByDay ==
  \A o \in Orders : orders[o] # Idle =>
    LET weekend == orders[o].from \div 24 \in Weekend
    IN  \A i \in DOMAIN orders[o].lines :
          LET line == orders[o].lines[i]
          IN  /\ line.night = "weekend" => weekend
              /\ line.sure /\ weekend => line.night = "weekend"

(* What the stay of an order costs: whole days of 24 hours, and no wrap.   *)
WholeDays(from, to) == Cardinality({d \in 1..to : from + 24 * d <= to})
Cost(line, days)    == line.quantity * days * PriceOf(line.type.name, line.night)

Owed(order) ==
  LET cost(i) == Cost(order.lines[i], WholeDays(order.from, order.to))
      sum[i \in 0..Len(order.lines)] == IF i = 0 THEN 0 ELSE sum[i - 1] + cost(i)
  IN  sum[Len(order.lines)]

(* The total of a booking is what its lines cost for whole days of 24      *)
(* hours, whenever int64 can hold that.  (booking_service.go:33-39, 66-77) *)
TotalExact ==
  \A o \in Orders : At(o, "insert") \/ At(o, "ok") =>
    (Owed(orders[o]) \in Int64 => orders[o].subtotal = Owed(orders[o]))

(* Every order is answered, even if the catalog never answers.             *)
(* (inventory_http.go:21)                                                  *)
OrderAnswered == \A o \in Orders : Running(o) ~> ~Running(o)
=============================================================================
