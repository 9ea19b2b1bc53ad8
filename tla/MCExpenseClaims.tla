-------------------------- MODULE MCExpenseClaims --------------------------
(* Instance of ExpenseClaims for TLC: expenses of 1 and 2 baht.            *)
EXTENDS ExpenseClaims, TLC

CONSTANTS e1, e2

MCAmount == e1 :> 1 @@ e2 :> 2

\* Requests are interchangeable, and so are claim rows.
MCSymmetry == Permutations(Requests) \cup Permutations(Claims)
=============================================================================
