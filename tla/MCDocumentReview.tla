-------------------------- MODULE MCDocumentReview --------------------------
(* Instance of DocumentReview for TLC.                                     *)
EXTENDS DocumentReview, TLC

\* Rounds, reviewers and requests are interchangeable.
MCSymmetry == Permutations(Rounds) \cup Permutations(Reviewers) \cup Permutations(Calls)
=============================================================================
