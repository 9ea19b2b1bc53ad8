--------------------------- MODULE MCCashAdvance ---------------------------
(* Instance of CashAdvance for TLC.                                        *)
EXTENDS CashAdvance, TLC

\* Transactions and advances are interchangeable.
MCSymmetry == Permutations(Transactions) \cup Permutations(Advances)
=============================================================================
