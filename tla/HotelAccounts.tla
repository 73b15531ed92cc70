---------------------------- MODULE HotelAccounts ----------------------------
(***************************************************************************)
(* The auth service and the booking service at work together.              *)
(*                                                                         *)
(* They never call each other and share no table.  What connects them is   *)
(* the token: the auth service signs the id of a user into it, the client  *)
(* carries it, and the middleware of the booking service takes the user of *)
(* a request out of it.  A booking names its owner by that id, and a       *)
(* client comes back to it with another token of a later login.            *)
(***************************************************************************)
EXTENDS AuthService, FiniteSets

CONSTANTS Bookings, Totals, Requests, NoRow      \* see BookingService

VARIABLES bookings, attained,   \* see BookingService
          calls,                \* its request slots
          madeBy                \* history: the address whose token made each booking

B == INSTANCE BookingService WITH Users <- Ids, req <- calls

ASSUME HotelAssumption ==
  NoUser \notin Emails /\ NoRow \notin B!Row /\ Idle \notin B!Handler

bookingVars == <<bookings, attained, calls>>
hotelVars   == <<vars, bookingVars, madeBy>>

HotelTypeOK ==
  /\ TypeOK /\ B!TypeOK
  /\ madeBy \in [Bookings -> Emails \cup {NoUser}]
  /\ \A b \in Bookings : B!Issued(b) <=> madeBy[b] # NoUser

HotelInit == Init /\ B!Init /\ madeBy = [b \in Bookings |-> NoUser]

-----------------------------------------------------------------------------
(* The auth service never hears of a booking.                              *)
AuthStep == Next /\ UNCHANGED <<bookingVars, madeBy>>

(* requireUser: the user of a request is the one its token names.          *)
RequestUser(t) == t.id

(* repo.ListByUser and the check of GetMineByID: what a user gets to see.  *)
ListAll(u)  == {b \in Bookings : B!Exists(b)}
ListMine(u) == {b \in Bookings : B!Exists(b) /\ bookings[b].user = u}

(* A client makes a booking with a token it holds.                         *)
PostBooking(b, t, total) ==
  /\ B!PostBooking(b, RequestUser(t), total)
  /\ madeBy' = [madeBy EXCEPT ![b] = t.email]
  /\ UNCHANGED vars

(* It asks for a check-in, check-out, refund or delete with one.           *)
StartRequest(r, op, b, t) ==
  /\ B!Start(r, op, b, RequestUser(t))
  /\ UNCHANGED <<vars, madeBy>>

(* What the booking service does without looking at a token again.         *)
BookingStep ==
  /\ \/ \E r \in Requests : B!RequestStep(r)
     \/ B!Crash
     \/ \E b \in Bookings, posted \in B!Posted : B!PostInternalUpdateStatus(b, posted)
  /\ UNCHANGED <<vars, madeBy>>

HotelNext ==
  \/ AuthStep
  \/ BookingStep
  \/ \E b \in Bookings, t \in tokens :
       \/ \E total \in Totals : PostBooking(b, t, total)
       \/ \E r \in Requests, op \in B!Ops : StartRequest(r, op, b, t)

HotelSpec == HotelInit /\ [][HotelNext]_hotelVars

-----------------------------------------------------------------------------
(* Whichever of its tokens a client presents, from whichever login and     *)
(* however it spelt its address, it finds exactly the bookings that were   *)
(* made with a token of that address: registrations that raced each other  *)
(* split no owner in two and merge no two owners.                          *)
(* (auth_service.go:79-107, booking_handler.go:192-238, booking_repository *)
(* .go:41-51)                                                              *)
FindsOwnBookings ==
  \A t \in tokens :
    ListMine(RequestUser(t)) = {b \in Bookings : B!Exists(b) /\ madeBy[b] = Lower[t.email]}

(* A booking is removed only on the request of a client of the address it  *)
(* was made by.  (booking_service.go:198-207)                              *)
DeletedByItsAddress ==
  [][\A b \in Bookings :
       B!Exists(b) /\ ~B!Exists(b)' =>
         \E r \in Requests, t \in tokens :
           /\ calls[r] # Idle /\ calls[r].op = "delete" /\ calls[r].id = b
           /\ calls[r].user = RequestUser(t) /\ t.email = madeBy[b]]_hotelVars
=============================================================================
