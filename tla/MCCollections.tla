--------------------------- MODULE MCCollections ---------------------------
(* Instance of Collections for TLC.                                        *)
EXTENDS Collections, TLC

\* 101 satang divided 50 / 50 / 0 leave the last payer with -1.
MCShares == {-1, 2}

\* Invoices are interchangeable, and so are keys.
MCSymmetry == Permutations(Invoices) \cup Permutations(Keys)
=============================================================================
