---------------------------- MODULE FinanceCustody ----------------------------
(* A center's shifts seen as the drawers that hold its cash. *)
EXTENDS FinanceShifts

\* An open shift is live unless it was submitted for close.
Phase == [s \in Shifts |->
            CASE shift[s].status = "ABSENT" -> "unused"
              [] shift[s].status = "HANDED_OVER" -> "passed"
              [] shift[s].status = "CLOSED" -> "sealed"
              [] shift[s].status = "OPEN" /\ ~Submitted(s) -> "live"
              [] OTHER -> "counting"]

Cash == [s \in Shifts |-> ExpectedCash(s)]

Custody == INSTANCE CashCustody WITH Drawers <- Shifts, phase <- Phase, cash <- Cash

\* Whatever the accountants, the collections and the reviewers do to the shifts of a center is
\* a step of its cash drawers: none changes while it is counted, and what leaves one for
\* another was counted first and enters an empty live one, once.
ImplementsCustody == Custody!Spec

===============================================================================
