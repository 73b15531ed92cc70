--------------------------- MODULE MCCreateBooking ---------------------------
EXTENDS CreateBooking

(* Deluxe and Suite, at the prices of SeedSample.                          *)
MCSamples   == <<2, 1>>
MCCapacity  == <<2, 3>>
MCBasePrice == <<750000, 1550000>>

(* From day 1 at 14:00 or day 2, a weekend's, at 10:00 to day 3 at 14:00:  *)
(* stays of 48 and 28 hours.                                               *)
MCCheckIns  == {38, 58}
MCCheckOuts == {86}

(* Far less than int64 holds, so that a line of three rooms overflows.     *)
MCWord == 2^22
=============================================================================
