--------------------------- MODULE MCHotelAccounts ---------------------------
EXTENDS HotelAccounts, TLC

CONSTANTS Ann, ann, bob, short, long

(* Ann and ann are one address; the hash takes no long password.           *)
LowerOf  == (Ann :> ann) @@ (ann :> ann) @@ (bob :> bob)
DigestOf == (short :> short) @@ (long :> long)

Symmetry == Permutations(Ids) \cup Permutations(Slots)
=============================================================================
