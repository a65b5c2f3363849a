--------------------------- MODULE MCFinancePeriods ---------------------------
(* A small instance of the period close: one shift without entries is enough. *)
EXTENDS FinancePeriods

OneEach == [p \in BookingPayments |-> 1]
===============================================================================
