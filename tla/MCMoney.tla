------------------------------- MODULE MCMoney -------------------------------
(***************************************************************************)
(* Small instances of the two parts that keep money: the payments at the   *)
(* invoice provider and the accountant shifts of a center.  To a shift a   *)
(* payment is only captured or not (PaymentChanges), so a behaviour moves  *)
(* one of the two and the other one rests.                                 *)
(***************************************************************************)
EXTENDS Payments, FinanceCustody, TLC

VARIABLE moves

OneEach == [p \in BookingPayments |-> 1]

\* The two parts share some of their model values, so that one permutation serves both.
Interchangeable == Permutations(Invoices) \cup Permutations(Events) \cup Permutations(Calls)
                   \cup Permutations(Shifts)

MoneyInit == Init /\ ShiftInit /\ moves \in {"payments", "shifts"}
MoneyNext == /\ UNCHANGED moves
             /\ \/ moves = "payments" /\ Next /\ UNCHANGED shiftVars
                \/ moves = "shifts" /\ ShiftNext /\ UNCHANGED vars
MoneySpec == MoneyInit /\ [][MoneyNext]_<<vars, shiftVars, moves>>
===============================================================================
