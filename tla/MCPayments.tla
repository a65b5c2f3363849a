------------------------------ MODULE MCPayments ------------------------------
(* Small instances of Payments: calls, invoices and events are interchangeable. *)
EXTENDS Payments, TLC

Interchangeable == Permutations(Keys) \cup Permutations(Invoices) \cup Permutations(Events)
                   \cup Permutations(Calls)
===============================================================================
