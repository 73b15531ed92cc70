-------------------------- MODULE MCBookingService --------------------------
(* Finite instances of BookingService for TLC: the configurations give the *)
(* bookings, users, totals and request slots.                              *)
EXTENDS BookingService
=============================================================================
