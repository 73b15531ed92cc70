------------------------ MODULE HotelAccounts_proofs ------------------------
(***************************************************************************)
(* Theorems about HotelAccounts, for any number of addresses, users,       *)
(* bookings and concurrent requests.  Every step of the composition is a   *)
(* step of each service, so both inductive invariants hold; one more part  *)
(* relates the owner of a booking to the account it was made by.           *)
(***************************************************************************)
EXTENDS HotelAccounts, AuthService_proofs

BP == INSTANCE BookingService_proofs WITH Users <- Ids, req <- calls

LEMMA SameBooking ==
  /\ B!Init <=> BP!Init
  /\ B!vars = BP!vars
  /\ B!Posted = BP!Posted /\ B!Ops = BP!Ops
  /\ B!Row = BP!Row /\ B!Handler = BP!Handler
  /\ B!TypeOK <=> BP!TypeOK
  /\ B!Crash <=> BP!Crash
  /\ \A r : B!RequestStep(r) <=> BP!RequestStep(r)
  /\ \A r, op, b, u : B!Start(r, op, b, u) <=> BP!Start(r, op, b, u)
  /\ \A b, u, t : B!PostBooking(b, u, t) <=> BP!PostBooking(b, u, t)
  /\ \A b, s : B!PostInternalUpdateStatus(b, s) <=> BP!PostInternalUpdateStatus(b, s)
  /\ \A b : (B!Exists(b) <=> BP!Exists(b)) /\ (B!Issued(b) <=> BP!Issued(b))
BY DEF B!Init, BP!Init, B!vars, BP!vars, B!dbVars, BP!dbVars,
       B!Posted, BP!Posted, B!Row, BP!Row, B!Handler, BP!Handler, B!TypeOK, BP!TypeOK,
       B!PostInternalUpdateStatus, BP!PostInternalUpdateStatus,
       B!StatusOf, BP!StatusOf, B!Status, BP!Status, B!Ops, BP!Ops, B!PostBooking, BP!PostBooking,
       B!Issued, BP!Issued, B!Exists, BP!Exists, B!Running, BP!Running, B!Start, BP!Start,
       B!RequestStep, BP!RequestStep, B!Load, BP!Load, B!WriteStatus, BP!WriteStatus,
       B!DeleteRow, BP!DeleteRow, B!Fail, BP!Fail, B!Crash, BP!Crash, B!Step, BP!Step,
       B!UpdateStatus, BP!UpdateStatus, B!Delete, BP!Delete, B!Allowed, BP!Allowed,
       B!MayCheckIn, BP!MayCheckIn, B!MayCheckOut, BP!MayCheckOut, B!MayRefund, BP!MayRefund,
       B!MayDelete, BP!MayDelete, B!Target, BP!Target, B!Answer, BP!Answer

(* The assumptions on the constants are those of both services.            *)
LEMMA Sentinels ==
  NoUser \notin Emails /\ NoRow \notin BP!Row /\ Idle \notin BP!Handler
BY HotelAssumption, SameBooking

(* A booking was made by an account, and names it as its owner.            *)
OwnerKnown ==
  \A b \in Bookings :
    /\ madeBy[b] \in Emails \cup {NoUser}
    /\ BP!Issued(b) <=> madeBy[b] # NoUser
    /\ BP!Exists(b) => /\ users[madeBy[b]] # NoUser
                       /\ bookings[b].user = users[madeBy[b]].id

(* A request acts for the user of a token that some client holds.          *)
CallsTokened ==
  \A r \in Requests : calls[r] # Idle => \E t \in tokens : t.id = calls[r].user

HotelIInv ==
  /\ IInv /\ BP!IInv
  /\ madeBy \in [Bookings -> Emails \cup {NoUser}]
  /\ OwnerKnown
  /\ CallsTokened

-----------------------------------------------------------------------------
(* Every step is a step of each service.                                   *)

LEMMA TokenKnown ==
  ASSUME IInv, NEW t \in tokens
  PROVE  /\ t.id \in Ids /\ t.email \in Emails /\ Lower[t.email] = t.email
         /\ users[t.email] # NoUser /\ users[t.email].id = t.id
BY DEF IInv, TypeOK, Token, TokensTrue, Taken

LEMMA AuthSide ==
  ASSUME [HotelNext]_hotelVars PROVE [Next]_vars
BY DEF HotelNext, hotelVars, AuthStep, BookingStep, PostBooking, StartRequest

LEMMA BookingSide ==
  ASSUME IInv, [HotelNext]_hotelVars PROVE [BP!Next]_(BP!vars)
<1>1. CASE BookingStep
  BY <1>1, SameBooking DEF BookingStep, BP!Next, BP!OwnStep
<1>2. ASSUME NEW b \in Bookings, NEW t \in tokens, NEW total \in Totals, PostBooking(b, t, total)
      PROVE  BP!Next
  BY <1>2, TokenKnown, SameBooking DEF PostBooking, RequestUser, BP!Next, BP!OwnStep
<1>3. ASSUME NEW b \in Bookings, NEW t \in tokens, NEW r \in Requests, NEW op \in B!Ops,
             StartRequest(r, op, b, t)
      PROVE  BP!Next
  BY <1>3, TokenKnown, SameBooking DEF StartRequest, RequestUser, BP!Next, BP!OwnStep
<1>4. AuthStep \/ UNCHANGED hotelVars => UNCHANGED BP!vars
  BY DEF AuthStep, hotelVars, bookingVars, BP!vars
<1>5. QED
  BY <1>1, <1>2, <1>3, <1>4 DEF HotelNext

(* Only creating a booking gives an id a row.                              *)
LEMMA NoNewBooking ==
  ASSUME BP!IInv,
         \/ AuthStep \/ BookingStep \/ UNCHANGED hotelVars
         \/ \E r \in Requests, op \in B!Ops, b \in Bookings, t \in tokens : StartRequest(r, op, b, t),
         NEW c \in Bookings
  PROVE  /\ BP!Issued(c)' <=> BP!Issued(c)
         /\ BP!Exists(c)' => BP!Exists(c) /\ bookings'[c].user = bookings[c].user
<1> DEFINE Goal == /\ BP!Issued(c)' <=> BP!Issued(c)
                   /\ BP!Exists(c)' => BP!Exists(c) /\ bookings'[c].user = bookings[c].user
<1>0. BP!TypeOK
  BY DEF BP!IInv
<1>1. UNCHANGED <<bookings, attained>> => Goal
  BY DEF BP!Issued, BP!Exists
<1>2. ASSUME NEW b \in Bookings, NEW s \in BP!Status, BP!UpdateStatus(b, s)
      PROVE  Goal
  <2>1. CASE BP!Exists(b)
    BY <1>0, <1>2, <2>1, Sentinels, BP!UpdateEffect
    DEF BP!UpdateStatus, BP!Issued, BP!TypeOK, BP!IInv, BP!HistoryOK
  <2>2. CASE ~BP!Exists(b)
    BY <1>1, <1>2, <2>2 DEF BP!UpdateStatus, BP!dbVars
  <2>3. QED
    BY <2>1, <2>2
<1>3. ASSUME NEW b \in Bookings, BP!Delete(b)
      PROVE  Goal
  BY <1>0, <1>3 DEF BP!Delete, BP!TypeOK, BP!Issued, BP!Exists
<1>4. ASSUME NEW r \in Requests, BP!RequestStep(r)
      PROVE  Goal
  <2>1. CASE BP!Load(r) \/ BP!Fail(r)
    BY <1>1, <2>1 DEF BP!Load, BP!Fail, BP!dbVars
  <2>2. ASSUME NEW answer \in BP!Answer, BP!WriteStatus(r, answer)
        PROVE  Goal
    <3>1. calls[r] \in BP!Handler
      BY <1>0, <2>2 DEF BP!TypeOK, BP!WriteStatus, BP!Running
    <3>2. calls[r].id \in Bookings /\ BP!Target(calls[r].op) \in BP!Status
      BY <3>1, <2>2 DEF BP!Handler, BP!Ops, BP!WriteStatus, BP!Target, BP!Status
    <3>3. QED
      BY <1>2, <2>2, <3>2 DEF BP!WriteStatus
  <2>3. ASSUME NEW answer \in BP!Answer, BP!DeleteRow(r, answer)
        PROVE  Goal
    <3>1. calls[r].id \in Bookings
      BY <1>0, <2>3 DEF BP!TypeOK, BP!DeleteRow, BP!Running, BP!Handler
    <3>2. QED
      BY <1>1, <1>3, <2>3, <3>1 DEF BP!DeleteRow, BP!dbVars
  <2>4. QED
    BY <1>4, <2>1, <2>2, <2>3 DEF BP!RequestStep
<1>5. ASSUME NEW b \in Bookings, NEW posted \in BP!Posted, BP!PostInternalUpdateStatus(b, posted)
      PROVE  Goal
  <2>1. BP!StatusOf(posted) \in BP!Status
    BY DEF BP!StatusOf, BP!Posted, BP!Status
  <2>2. QED
    BY <1>2, <1>5, <2>1 DEF BP!PostInternalUpdateStatus
<1>6. CASE BookingStep
  BY <1>1, <1>4, <1>5, <1>6, SameBooking DEF BookingStep, BP!Crash, BP!dbVars
<1>7. CASE AuthStep \/ UNCHANGED hotelVars
  BY <1>1, <1>7 DEF AuthStep, hotelVars, bookingVars
<1>8. ASSUME NEW r \in Requests, NEW op \in B!Ops, NEW b \in Bookings, NEW t \in tokens,
             StartRequest(r, op, b, t)
      PROVE  Goal
  BY <1>1, <1>8, SameBooking DEF StartRequest, BP!Start, BP!dbVars
<1>9. QED
  BY <1>6, <1>7, <1>8

(* A request keeps its user to its end, and tokens are never taken back.   *)
LEMMA TokensKept ==
  ASSUME [Next]_vars PROVE tokens \subseteq tokens'
BY DEF Next, vars, StartStep, HandlerStep, Start, FindFree, Login, Fail, InsertUser, Insert, Crash

LEMMA CallKept ==
  ASSUME BP!TypeOK, NEW q \in Requests,
         \/ AuthStep \/ BookingStep \/ UNCHANGED hotelVars
         \/ \E b \in Bookings, t \in tokens, total \in Totals : PostBooking(b, t, total)
  PROVE  calls'[q] # Idle => calls[q] # Idle /\ calls'[q].user = calls[q].user
<1> DEFINE Goal == calls'[q] # Idle => calls[q] # Idle /\ calls'[q].user = calls[q].user
<1>1. UNCHANGED calls => Goal
  OBVIOUS
<1>2. ASSUME NEW r \in Requests, BP!Running(r), NEW at \in {"write", "ok", "failed"}, BP!Step(r, at)
      PROVE  Goal
  <2>1. calls \in [Requests -> BP!Handler \cup {Idle}] /\ calls[r] \in BP!Handler
    BY <1>2 DEF BP!TypeOK, BP!Running
  <2>2. CASE at = "failed"
    BY <1>2, <2>1, <2>2 DEF BP!Step
  <2>3. CASE at # "failed"
    BY <1>2, <2>1, <2>3 DEF BP!Step, BP!Running, BP!Handler
  <2>4. QED
    BY <2>2, <2>3
<1>3. ASSUME NEW r \in Requests, BP!RequestStep(r)
      PROVE  Goal
  <2>1. BP!Load(r) => Goal
    BY <1>2 DEF BP!Load
  <2>2. ASSUME NEW answer \in BP!Answer, BP!WriteStatus(r, answer) \/ BP!DeleteRow(r, answer)
        PROVE  Goal
    BY <1>2, <2>2 DEF BP!WriteStatus, BP!DeleteRow, BP!Answer
  <2>3. BP!Fail(r) => Goal
    BY <1>2 DEF BP!Fail
  <2>4. QED
    BY <1>3, <2>1, <2>2, <2>3 DEF BP!RequestStep
<1>4. CASE BookingStep
  BY <1>1, <1>3, <1>4, SameBooking DEF BookingStep, BP!Crash, BP!PostInternalUpdateStatus
<1>5. CASE AuthStep \/ UNCHANGED hotelVars
  BY <1>1, <1>5 DEF AuthStep, hotelVars, bookingVars
<1>6. ASSUME NEW b \in Bookings, NEW t \in tokens, NEW total \in Totals, PostBooking(b, t, total)
      PROVE  Goal
  BY <1>1, <1>6, SameBooking DEF PostBooking, BP!PostBooking
<1>7. QED
  BY <1>4, <1>5, <1>6

LEMMA CallsTokenedKept ==
  ASSUME HotelIInv, [HotelNext]_hotelVars PROVE CallsTokened'
<1>0. BP!TypeOK /\ CallsTokened /\ tokens \subseteq tokens'
  BY AuthSide, TokensKept DEF HotelIInv, BP!IInv
<1>1. CASE \/ AuthStep \/ BookingStep \/ UNCHANGED hotelVars
           \/ \E b \in Bookings, t \in tokens, total \in Totals : PostBooking(b, t, total)
  BY <1>0, <1>1, CallKept DEF CallsTokened
<1>2. ASSUME NEW r \in Requests, NEW op \in B!Ops, NEW b \in Bookings, NEW t \in tokens,
             StartRequest(r, op, b, t)
      PROVE  CallsTokened'
  <2>1. calls' = [calls EXCEPT ![r] = [op |-> op, id |-> b, user |-> t.id, at |-> "load"]]
    BY <1>2, SameBooking DEF StartRequest, RequestUser, BP!Start
  <2>2. calls \in [Requests -> BP!Handler \cup {Idle}]
    BY <1>0 DEF BP!TypeOK
  <2>3. \A q \in Requests : calls'[q] = IF q = r THEN [op |-> op, id |-> b, user |-> t.id, at |-> "load"]
                                        ELSE calls[q]
    BY <2>1, <2>2
  <2>4. QED
    BY <1>0, <2>3 DEF CallsTokened
<1>3. QED
  BY <1>1, <1>2 DEF HotelNext

-----------------------------------------------------------------------------
LEMMA HotelInitIInv == HotelInit => HotelIInv
<1> SUFFICES ASSUME HotelInit PROVE HotelIInv
  OBVIOUS
<1>1. IInv
  BY InitIInv DEF HotelInit
<1>2. BP!IInv
  BY Sentinels, SameBooking, BP!InitOK DEF HotelInit
<1>3. QED
  BY <1>1, <1>2, SameBooking DEF HotelInit, HotelIInv, OwnerKnown, CallsTokened, BP!Init, BP!Issued, BP!Exists

LEMMA HotelNextIInv == HotelIInv /\ [HotelNext]_hotelVars => HotelIInv'
<1> SUFFICES ASSUME HotelIInv, [HotelNext]_hotelVars PROVE HotelIInv'
  OBVIOUS
<1>0. IInv /\ BP!IInv /\ OwnerKnown /\ madeBy \in [Bookings -> Emails \cup {NoUser}]
  BY DEF HotelIInv
<1>1. IInv'
  BY <1>0, Sentinels, AuthSide, NextIInv
<1>2. BP!IInv'
  BY <1>0, Sentinels, BookingSide, BP!NextOK
<1>3. \A e \in Emails : users[e] # NoUser => users'[e] = users[e]
  BY <1>0, Sentinels, AuthSide, AccountKept DEF Taken
<1>4. ASSUME NEW b \in Bookings, NEW t \in tokens, NEW total \in Totals, PostBooking(b, t, total)
      PROVE  OwnerKnown' /\ madeBy' \in [Bookings -> Emails \cup {NoUser}]
  <2>1. /\ t.id \in Ids /\ t.email \in Emails
        /\ users[t.email] # NoUser /\ users[t.email].id = t.id
    BY <1>0, TokenKnown
  <2>2. /\ bookings' = [bookings EXCEPT ![b] = [user |-> t.id, total |-> total, status |-> "UNPAID"]]
        /\ attained' = [attained EXCEPT ![b] = {"UNPAID"}]
        /\ madeBy' = [madeBy EXCEPT ![b] = t.email]
    BY <1>4, SameBooking DEF PostBooking, RequestUser, BP!PostBooking
  <2>3. bookings \in [Bookings -> BP!Row \cup {NoRow}] /\ attained \in [Bookings -> SUBSET BP!Status]
    BY <1>0 DEF BP!IInv, BP!TypeOK
  <2>4. madeBy' \in [Bookings -> Emails \cup {NoUser}]
    BY <1>0, <2>1, <2>2
  <2>5. ASSUME NEW c \in Bookings
        PROVE  /\ madeBy'[c] \in Emails \cup {NoUser}
               /\ BP!Issued(c)' <=> madeBy'[c] # NoUser
               /\ BP!Exists(c)' => /\ users'[madeBy'[c]] # NoUser
                                   /\ bookings'[c].user = users'[madeBy'[c]].id
    <3>1. CASE c = b
      BY <1>0, <1>3, <2>1, <2>2, <2>3, <3>1, Sentinels DEF BP!Issued
    <3>2. CASE c # b
      <4>1. bookings'[c] = bookings[c] /\ attained'[c] = attained[c] /\ madeBy'[c] = madeBy[c]
        BY <1>0, <2>2, <2>3, <3>2
      <4>2. BP!Exists(c) => madeBy[c] \in Emails
        BY <1>0 DEF OwnerKnown, BP!IInv, BP!HistoryOK, BP!Issued
      <4>3. QED
        BY <1>0, <1>3, <4>1, <4>2 DEF OwnerKnown, BP!Issued, BP!Exists
    <3>3. QED
      BY <3>1, <3>2
  <2>6. QED
    BY <2>4, <2>5 DEF OwnerKnown
<1>5. ASSUME \/ AuthStep \/ BookingStep \/ UNCHANGED hotelVars
             \/ \E r \in Requests, op \in B!Ops, b \in Bookings, t \in tokens : StartRequest(r, op, b, t)
      PROVE  OwnerKnown' /\ madeBy' \in [Bookings -> Emails \cup {NoUser}]
  <2>1. madeBy' = madeBy
    BY <1>5 DEF AuthStep, BookingStep, StartRequest, hotelVars
  <2>2. ASSUME NEW c \in Bookings
        PROVE  /\ madeBy'[c] \in Emails \cup {NoUser}
               /\ BP!Issued(c)' <=> madeBy'[c] # NoUser
               /\ BP!Exists(c)' => /\ users'[madeBy'[c]] # NoUser
                                   /\ bookings'[c].user = users'[madeBy'[c]].id
    <3>1. /\ BP!Issued(c)' <=> BP!Issued(c)
          /\ BP!Exists(c)' => BP!Exists(c) /\ bookings'[c].user = bookings[c].user
      BY <1>0, <1>5, NoNewBooking
    <3>2. BP!Exists(c) => madeBy[c] \in Emails
      BY <1>0 DEF OwnerKnown, BP!IInv, BP!HistoryOK, BP!Issued
    <3>3. QED
      BY <1>0, <1>3, <2>1, <3>1, <3>2 DEF OwnerKnown
  <2>3. QED
    BY <1>0, <2>1, <2>2 DEF OwnerKnown
<1>6. OwnerKnown' /\ madeBy' \in [Bookings -> Emails \cup {NoUser}]
  BY <1>4, <1>5 DEF HotelNext
<1>7. QED
  BY <1>1, <1>2, <1>6, CallsTokenedKept DEF HotelIInv

THEOREM HotelInvariant == HotelSpec => []HotelIInv
BY HotelInitIInv, HotelNextIInv, PTL DEF HotelSpec

(* The variables of the composition keep their types.                      *)
THEOREM HotelTypeCorrect == HotelSpec => []HotelTypeOK
<1>1. HotelIInv => HotelTypeOK
  BY SameBooking DEF HotelIInv, OwnerKnown, IInv, BP!IInv, HotelTypeOK
<1>2. QED
  BY <1>1, HotelInvariant, PTL

(* The composition is an auth service: what is proved of that holds here.  *)
THEOREM AuthServiceRefined == HotelSpec => Spec
<1>1. HotelInit => Init
  BY DEF HotelInit
<1>2. QED
  BY <1>1, AuthSide, PTL DEF HotelSpec, Spec

(* A client finds exactly the bookings made with its address.              *)
THEOREM FindsOwnBookingsAlways == HotelSpec => []FindsOwnBookings
<1>1. HotelIInv => FindsOwnBookings
  <2> SUFFICES ASSUME HotelIInv, NEW t \in tokens, NEW b \in Bookings, BP!Exists(b)
               PROVE  bookings[b].user = t.id <=> madeBy[b] = Lower[t.email]
    BY SameBooking DEF FindsOwnBookings, ListMine, RequestUser
  <2>1. /\ t.email \in Emails /\ Lower[t.email] = t.email
        /\ users[t.email] # NoUser /\ users[t.email].id = t.id
    BY TokenKnown DEF HotelIInv
  <2>2. /\ madeBy[b] \in Emails /\ users[madeBy[b]] # NoUser
        /\ bookings[b].user = users[madeBy[b]].id
    BY DEF HotelIInv, OwnerKnown, BP!IInv, BP!HistoryOK, BP!Issued
  <2>3. QED
    BY <2>1, <2>2 DEF HotelIInv, IInv, IdsDistinct, Taken
<1>2. QED
  BY <1>1, HotelInvariant, PTL

(* A booking is removed only for a client of the address it was made by.   *)
THEOREM DeletedByItsAddressAlways == HotelSpec => DeletedByItsAddress
<1>1. ASSUME HotelIInv, [HotelNext]_hotelVars, NEW b \in Bookings, BP!Exists(b), ~BP!Exists(b)'
      PROVE  \E r \in Requests, t \in tokens :
               /\ calls[r] # Idle /\ calls[r].op = "delete" /\ calls[r].id = b
               /\ calls[r].user = RequestUser(t) /\ t.email = madeBy[b]
  <2>1. BP!Next
    <3>1. [BP!Next]_(BP!vars)
      BY <1>1, BookingSide DEF HotelIInv
    <3>2. bookings' # bookings
      BY <1>1 DEF BP!Exists
    <3>3. QED
      BY <3>1, <3>2 DEF BP!vars
  <2>2. PICK r \in Requests : /\ calls[r] # Idle /\ calls[r].op = "delete"
                              /\ calls[r].id = b /\ calls[r].user = bookings[b].user
    BY <1>1, <2>1, BP!RowStep, Sentinels DEF HotelIInv, BP!Exists
  <2>3. PICK t \in tokens : t.id = calls[r].user
    BY <1>1, <2>2 DEF HotelIInv, CallsTokened
  <2>4. /\ t.email \in Emails /\ users[t.email] # NoUser /\ users[t.email].id = t.id
    BY <1>1, TokenKnown DEF HotelIInv
  <2>5. /\ madeBy[b] \in Emails /\ users[madeBy[b]] # NoUser
        /\ bookings[b].user = users[madeBy[b]].id
    BY <1>1 DEF HotelIInv, OwnerKnown, BP!IInv, BP!HistoryOK, BP!Issued
  <2>6. t.email = madeBy[b]
    BY <1>1, <2>2, <2>3, <2>4, <2>5 DEF HotelIInv, IInv, IdsDistinct, Taken
  <2>7. QED
    BY <2>2, <2>3, <2>6 DEF RequestUser
<1>2. HotelIInv /\ [HotelNext]_hotelVars =>
        [\A b \in Bookings :
           B!Exists(b) /\ ~B!Exists(b)' =>
             \E r \in Requests, t \in tokens :
               /\ calls[r] # Idle /\ calls[r].op = "delete" /\ calls[r].id = b
               /\ calls[r].user = RequestUser(t) /\ t.email = madeBy[b]]_hotelVars
  BY <1>1 DEF B!Exists, BP!Exists
<1>3. QED
  BY <1>2, HotelInvariant, PTL DEF HotelSpec, DeletedByItsAddress

(* What the booking service promises on its own it keeps when its users    *)
(* are those of tokens: above all, only the owner's token deletes, and a   *)
(* stay was paid for.                                                      *)
THEOREM BookingPromisesKept ==
  HotelSpec => /\ [](BP!StayWasPaid /\ BP!Entitled /\ BP!OkMeansDone /\ BP!DeleteAnsweredOnce)
               /\ BP!DeletedStaysDeleted /\ BP!OnlyOwnerDeletes /\ BP!ImplementsLifecycle
<1>1. HotelIInv =>
        BP!StayWasPaid /\ BP!Entitled /\ BP!OkMeansDone /\ BP!DeleteAnsweredOnce
  BY DEF HotelIInv, BP!IInv
<1>2. HotelInit => BP!Init
  BY SameBooking DEF HotelInit
<1>3. HotelIInv /\ [HotelNext]_hotelVars => [BP!Next]_(BP!vars)
  BY BookingSide DEF HotelIInv
<1>4. BP!Spec => BP!DeletedStaysDeleted
  BY Sentinels, BP!DeletedForGood
<1>5. BP!Spec => BP!OnlyOwnerDeletes
  BY Sentinels, BP!OnlyOwner
<1>6. BP!Spec => BP!ImplementsLifecycle
  BY Sentinels, BP!Refinement
<1>7. QED
  BY <1>1, <1>2, <1>3, <1>4, <1>5, <1>6, HotelInvariant, PTL DEF HotelSpec, BP!Spec
=============================================================================
