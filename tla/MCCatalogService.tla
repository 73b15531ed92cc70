-------------------------- MODULE MCCatalogService --------------------------
(* Finite instances of CatalogService for TLC: two room types, inserted in *)
(* the reverse of the order in which they are listed, and a window of two  *)
(* nights, the first of them a weekend's.  Stays are of the night before   *)
(* the window, of the window, or of both; day 4 adds the night after it.   *)
EXTENDS CatalogService, TLC

MCSamples  == <<2, 1>>
MCCapacity == <<2, 3>>
MCDays     == {0, 1, 3}

(* For AvailableEveryNight: a stay that leaves the window.                 *)
LaterDays  == {1, 3, 4}

(* Request slots are interchangeable; no liveness is checked.              *)
Symmetric == Permutations(Workers)
=============================================================================
