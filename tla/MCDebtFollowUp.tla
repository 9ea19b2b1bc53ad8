--------------------------- MODULE MCDebtFollowUp ---------------------------
(* Instance of DebtFollowUp for TLC.                                       *)
EXTENDS DebtFollowUp, TLC

\* Reminders, contacts and owners are interchangeable.
MCSymmetry == Permutations(Reminders) \cup Permutations(Contacts) \cup Permutations(Owners)
=============================================================================
