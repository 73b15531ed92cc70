------------------------- MODULE MCBookingRepository -------------------------
(* The finite instance of BookingRepository: the configuration gives the   *)
(* bookings, their items and the sessions.                                 *)
EXTENDS BookingRepository
=============================================================================
