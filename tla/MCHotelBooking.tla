--------------------------- MODULE MCHotelBooking ---------------------------
(* Finite instances of HotelBooking for TLC: the configurations give the   *)
(* bookings, amounts, webhook statuses, request slots and what callers     *)
(* other than the two services and the provider send.                      *)
EXTENDS HotelBooking, TLC

(* The slots of the payment service are interchangeable.  Used in runs that *)
(* check no liveness.                                                      *)
Symmetric == Permutations(Workers)
=============================================================================
