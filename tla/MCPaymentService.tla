-------------------------- MODULE MCPaymentService --------------------------
(* Finite instances of PaymentService for TLC: the configurations give the *)
(* bookings, amounts, webhook statuses and request slots.                  *)
EXTENDS PaymentService
=============================================================================
