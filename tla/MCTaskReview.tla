---------------------------- MODULE MCTaskReview ----------------------------
(* Instance of TaskReview for TLC.                                         *)
EXTENDS TaskReview, TLC

CONSTANTS lead, owner, worker, ext

MCDelegable == {<<lead, worker>>, <<owner, lead>>, <<owner, worker>>}

\* The body of an update that mentions nothing.
Nothing == [status |-> Unset, requiresReview |-> Unset, assignee |-> Unset, reviewer |-> Unset]

MCEdits ==
  {[Nothing EXCEPT !.status = s] : s \in {"TODO", "DONE"}}
    \cup {[Nothing EXCEPT !.assignee = worker]}
    \cup {[Nothing EXCEPT !.requiresReview = TRUE, !.reviewer = owner],
          [Nothing EXCEPT !.requiresReview = FALSE, !.reviewer = None],
          [Nothing EXCEPT !.status = "DONE", !.requiresReview = FALSE]}

MCSymmetry == Permutations(Requests)
=============================================================================
