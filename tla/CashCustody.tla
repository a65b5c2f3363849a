---------------------------- MODULE CashCustody ----------------------------
(***************************************************************************)
(* What a center's accountant shifts promise about its cash, without       *)
(* saying how: each drawer has one keeper at a time in it; its cash moves  *)
(* only while it is live, stands still while it is counted, and is then    *)
(* sealed or passed, as counted, to one empty live drawer.  Accounts,      *)
(* payments, submissions and reviews do not appear: the detailed           *)
(* specification implements this one (FinanceCustody).                     *)
(***************************************************************************)
EXTENDS Integers

CONSTANT Drawers

VARIABLES
    phase,  \* "unused", "live", "counting", "passed" or "sealed"
    cash    \* what each drawer should hold

Goes(d, next) == phase' = [phase EXCEPT ![d] = next]
OnlyCashOf(d) == cash' = [cash EXCEPT ![d] = cash'[d]]

Init ==
    /\ phase = [d \in Drawers |-> "unused"]
    /\ cash = [d \in Drawers |-> 0]

\* A drawer is put to use with some cash in it.
Open(d) ==
    /\ phase[d] = "unused"
    /\ cash'[d] \in Nat /\ OnlyCashOf(d)
    /\ Goes(d, "live")

\* Cash goes into a live drawer or out of it.
Move(d) ==
    /\ phase[d] = "live"
    /\ cash'[d] \in Int /\ OnlyCashOf(d)
    /\ UNCHANGED phase

\* The keeper starts to count, or is sent back.
Count(d) == phase[d] = "live" /\ Goes(d, "counting") /\ UNCHANGED cash
Recount(d) == phase[d] = "counting" /\ Goes(d, "live") /\ UNCHANGED cash

\* What was counted in one drawer is passed to a live, empty one.
Pass(d, e) ==
    /\ phase[d] = "counting"
    /\ phase[e] = "live" /\ cash[e] = 0
    /\ Goes(d, "passed")
    /\ cash'[e] \in Nat /\ OnlyCashOf(e)

\* The count of a drawer is accepted, and it is not used again.
Seal(d) == phase[d] = "counting" /\ Goes(d, "sealed") /\ UNCHANGED cash

Next ==
    \E d \in Drawers :
       \/ Open(d) \/ Move(d) \/ Count(d) \/ Recount(d) \/ Seal(d)
       \/ \E e \in Drawers : Pass(d, e)

Spec == Init /\ [][Next]_<<phase, cash>>

=============================================================================
