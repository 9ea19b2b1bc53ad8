-------------------------- MODULE TaskReviewProofs --------------------------
(***************************************************************************)
(* Proofs about TaskReview, for any users, roles, edits and requests.      *)
(***************************************************************************)
EXTENDS TaskReview, TLAPS

\* The next occurrence exists, will be created, or was lost by a stop, or by a creation
\* as DONE.
Ran == occurrences = 1 \/ Completing \/ stopped \/ createdDone

\* An update never writes a status of the review.
UpdatesAreOrdinary ==
  \A r \in Requests :
    req[r].op = "update" => req[r].body.status \notin {"PENDING_REVIEW", "NEEDS_REVISION"}

\* A request that will close the task without a review, and leave its terms as
\* they are, closes a task that needs none, unless somebody changed the terms.
ClosersMayClose ==
  \A r \in Requests : termsKept =>
    /\ req[r].op = "update" /\ req[r].body.status = "DONE" /\ req[r].body.requiresReview = Unset
         => ~task.requiresReview
    /\ req[r].op = "step" /\ ~req[r].toReview => ~task.requiresReview

\* An update that read DONE may leave the next occurrence to another request.
SeenDoneRan == \A r \in Requests : req[r].op = "update" /\ req[r].seen = "DONE" => Ran

\* A task created to be reviewed names its reviewer.
TermsNameReviewer == termsKept /\ task.requiresReview => task.reviewer # None

IInv ==
  /\ TypeOK
  /\ DatesFollowStatus
  /\ HandInsDecidedOnce
  /\ ReviewedWorkWasAccepted
  /\ RecursOnce
  /\ UpdatesAreOrdinary
  /\ ClosersMayClose
  /\ SeenDoneRan
  /\ TermsNameReviewer

\* The initial state satisfies the invariant.
LEMMA InitIInv == Init => IInv
  <1> SUFFICES ASSUME Init PROVE IInv
    OBVIOUS
  <1>1. TypeOK
    BY DEF Init, TypeOK, TaskStatus, Row, Req
  <1>2. DatesFollowStatus /\ HandInsDecidedOnce /\ ReviewedWorkWasAccepted /\ RecursOnce
    <2>1. /\ task.status \in {"TODO", "IN_PROGRESS", "DONE"} /\ task.completedAt = (task.status = "DONE")
          /\ task.status = "DONE" => ~task.requiresReview /\ createdDone
      BY DEF Init
    <2>2. task.status # "PENDING_REVIEW" /\ (task.completedAt => task.status = "DONE")
      BY <2>1
    <2>3. decisions = 0 /\ handIns = 0 /\ occurrences = 0
      BY DEF Init
    <2> QED BY <2>1, <2>2, <2>3 DEF DatesFollowStatus, HandInsDecidedOnce, ReviewedWorkWasAccepted, RecursOnce
  <1>3. UpdatesAreOrdinary /\ ClosersMayClose /\ SeenDoneRan
    BY DEF Init, UpdatesAreOrdinary, ClosersMayClose, SeenDoneRan, Idle
  <1>4. TermsNameReviewer
    BY NoneAssumption, UserAssumption DEF Init, TermsNameReviewer, ReviewerFits
  <1> QED BY <1>1, <1>2, <1>3, <1>4 DEF IInv

\* The facts about a request that the type invariant gives, by its operation.
LEMMA ReqTypes ==
  ASSUME TypeOK, NEW r \in Requests
  PROVE  /\ req[r].op = "update" => req[r].body \in Edits /\ req[r].seen \in TaskStatus
         /\ req[r].op = "handoff" => req[r].by \in Users /\ req[r].assignee \in Users \cup {None}
         /\ req[r].op \in {"accept", "reject"} => req[r].worker \in Users
         /\ req[r].op = "reassign" => req[r].to \in Users
         /\ req[r].op = "step" => req[r].by \in Users
  BY DEF TypeOK, Req, Idle, Completion

\* A request that has ended, or goes on to onTaskCompleted, is well typed.
LEMMA FinishTypes ==
  ASSUME TypeOK, NEW r \in Requests, NEW done \in BOOLEAN, Finish(r, done)
  PROVE  req' \in [Requests -> Req]
  BY DEF TypeOK, Finish, Req

\* Every step keeps every variable in its type.
LEMMA StepTypeOK == IInv /\ [Next]_vars => TypeOK'
  <1> SUFFICES ASSUME IInv, [Next]_vars PROVE TypeOK'
    OBVIOUS
  <1> USE DEF IInv, TypeOK
  <1>0. ASSUME NEW r \in Requests, NEW q \in Req, Begin(r, q) PROVE TypeOK'
    BY <1>0 DEF Begin, history
  <1>1. ASSUME NEW r \in Requests, NEW u \in Users \ External, NEW d \in Edits, ReadForUpdate(r, u, d)
        PROVE  TypeOK'
    <2>1. [op |-> "update", body |-> d, seen |-> task.status] \in Req
      BY DEF Req, Row
    <2> QED BY <1>0, <1>1, <2>1 DEF ReadForUpdate
  <1>2. ASSUME NEW r \in Requests, NEW u \in Users \ External, ReadForHandoff(r, u) PROVE TypeOK'
    <2>1. [op |-> "handoff", by |-> u, assignee |-> task.assignee, started |-> task.status # "TODO"] \in Req
      BY DEF Req, Row
    <2> QED BY <1>0, <1>2, <2>1 DEF ReadForHandoff
  <1>3. ASSUME NEW r \in Requests, NEW u \in Users \ External, NEW op \in {"accept", "reject"},
               ReadForReview(r, u, op)
        PROVE  TypeOK'
    <2>1. [op |-> op, worker |-> task.assignee] \in Req
      BY <1>3 DEF Req, Row, ReadForReview
    <2> QED BY <1>0, <1>3, <2>1 DEF ReadForReview
  <1>4. ASSUME NEW r \in Requests, NEW u \in Users \ External, NEW v \in Users \ External,
               ReadForReassign(r, u, v)
        PROVE  TypeOK'
    <2>1. [op |-> "reassign", to |-> v] \in Req
      BY DEF Req
    <2> QED BY <1>0, <1>4, <2>1 DEF ReadForReassign
  <1>5. ASSUME NEW r \in Requests, NEW u \in Users, ReadForStep(r, u) PROVE TypeOK'
    <2>1. [op |-> "step", by |-> u, toReview |-> task.requiresReview /\ task.reviewer # None] \in Req
      BY DEF Req
    <2> QED BY <1>0, <1>5, <2>1 DEF ReadForStep
  <1>6. ASSUME NEW r \in Requests, StartWork(r) PROVE TypeOK'
    <2>1. task' \in Row /\ (task'.status # "PENDING_REVIEW" \/ task' = task)
      BY <1>6 DEF StartWork, Row, TaskStatus
    <2>2. req' \in [Requests -> Req]
      <3>1. req[r] \in [op : {"handoff"}, by : Users, assignee : Users \cup {None}, started : BOOLEAN]
        BY <1>6 DEF StartWork, Req, Idle, Completion
      <3>2. [req[r] EXCEPT !.started = TRUE] \in Req
        BY <3>1 DEF Req
      <3>3. req' = [req EXCEPT ![r] = [req[r] EXCEPT !.started = TRUE]]
        BY <1>6 DEF StartWork
      <3> QED BY <3>2, <3>3
    <2> QED BY <1>6, <2>1, <2>2 DEF StartWork, history
  <1>7. ASSUME NEW r \in Requests, CommitUpdate(r) PROVE TypeOK'
    <2> DEFINE q == req[r]
               d == q.body
    <2>1. /\ d.status \in TaskStatus \cup {Unset}
          /\ d.assignee \in Users \cup {Unset}
          /\ d.reviewer \in Users \cup {None, Unset}
          /\ d.requiresReview \in BOOLEAN \cup {Unset}
      BY <1>7, ReqTypes, EditAssumption DEF CommitUpdate
    <2>2. /\ Written(d.status, task.status) \in TaskStatus
          /\ Written(d.assignee, task.assignee) \in Users \cup {None}
          /\ Written(d.reviewer, task.reviewer) \in Users \cup {None}
      BY <2>1 DEF Written, Row
    <2>3. Written(d.requiresReview, task.requiresReview) \in BOOLEAN
      BY <2>1 DEF Written, Row
    <2>4. CompletedAt(q) \in BOOLEAN
      BY DEF CompletedAt
    <2>5. task' \in Row
      BY <1>7, <2>2, <2>3, <2>4 DEF CommitUpdate, Row
    <2>6. task'.status = "PENDING_REVIEW" => task'.assignee # None
      BY <1>7, <2>1, NoneAssumption DEF CommitUpdate, Written, Row, UpdatesAreOrdinary
    <2>7. req' \in [Requests -> Req]
      BY <1>7, FinishTypes DEF CommitUpdate
    <2> QED BY <1>7, <2>5, <2>6, <2>7 DEF CommitUpdate
  <1>8. ASSUME NEW r \in Requests, CommitHandoff(r) PROVE TypeOK'
    <2>1. Or(req[r].assignee, req[r].by) \in Users
      BY <1>8, ReqTypes, NoneAssumption DEF CommitHandoff, Or
    <2>2. task' \in Row /\ task'.assignee # None
      BY <1>8, <2>1, NoneAssumption DEF CommitHandoff, HandIn, Row, TaskStatus
    <2>3. req' \in [Requests -> Req]
      BY <1>8, FinishTypes DEF CommitHandoff
    <2>4. /\ occurrences' \in Nat /\ handIns' \in Nat /\ decisions' \in Nat
          /\ termsKept' \in BOOLEAN /\ createdDone' \in BOOLEAN /\ stopped' \in BOOLEAN
      BY <1>8 DEF CommitHandoff
    <2>5. accepted' \in BOOLEAN
      BY <1>8, Zenon DEF CommitHandoff
    <2> QED BY <2>2, <2>3, <2>4, <2>5
  <1>9. ASSUME NEW r \in Requests, CommitAccept(r) PROVE TypeOK'
    <2>1. task' \in Row /\ task'.status # "PENDING_REVIEW"
      BY <1>9 DEF CommitAccept, Row, TaskStatus
    <2>2. req' \in [Requests -> Req]
      BY <1>9, FinishTypes DEF CommitAccept
    <2>3. /\ occurrences' \in Nat /\ handIns' \in Nat /\ decisions' \in Nat
          /\ termsKept' \in BOOLEAN /\ stopped' \in BOOLEAN
      BY <1>9 DEF CommitAccept
    <2>4. accepted' \in BOOLEAN /\ createdDone' \in BOOLEAN
      BY <1>9, Zenon DEF CommitAccept
    <2> QED BY <2>1, <2>2, <2>3, <2>4
  <1>10. ASSUME NEW r \in Requests, CommitReject(r) PROVE TypeOK'
    <2>1. task' \in Row /\ task'.status # "PENDING_REVIEW"
      BY <1>10, ReqTypes DEF CommitReject, Row, TaskStatus
    <2>2. req' \in [Requests -> Req]
      BY <1>10, FinishTypes DEF CommitReject
    <2>3. /\ occurrences' \in Nat /\ handIns' \in Nat /\ decisions' \in Nat
          /\ termsKept' \in BOOLEAN /\ createdDone' \in BOOLEAN /\ stopped' \in BOOLEAN
      BY <1>10 DEF CommitReject
    <2>4. accepted' \in BOOLEAN
      BY <1>10, Zenon DEF CommitReject
    <2> QED BY <2>1, <2>2, <2>3, <2>4
  <1>11. ASSUME NEW r \in Requests, CommitReassign(r) PROVE TypeOK'
    <2>1. task' \in Row /\ task'.assignee # None
      BY <1>11, ReqTypes, NoneAssumption DEF CommitReassign, Row
    <2>2. req' \in [Requests -> Req]
      BY <1>11, FinishTypes DEF CommitReassign
    <2> QED BY <1>11, <2>1, <2>2 DEF CommitReassign, history
  <1>12. ASSUME NEW r \in Requests, CommitStep(r) PROVE TypeOK'
    <2>1. task.assignee # None
      BY <1>12, ReqTypes, NoneAssumption DEF CommitStep, StillOpen
    <2>2. task' \in Row /\ task'.assignee = task.assignee
      BY <1>12 DEF CommitStep, HandIn, Row, TaskStatus
    <2>3. req' \in [Requests -> Req]
      BY <1>12, FinishTypes DEF CommitStep
    <2>4. /\ occurrences' \in Nat /\ handIns' \in Nat /\ decisions' \in Nat
          /\ termsKept' \in BOOLEAN /\ stopped' \in BOOLEAN
      BY <1>12 DEF CommitStep
    <2>5. accepted' \in BOOLEAN /\ createdDone' \in BOOLEAN
      BY <1>12, Zenon DEF CommitStep
    <2> QED BY <2>1, <2>2, <2>3, <2>4, <2>5
  <1>13. ASSUME NEW r \in Requests, Refuse(r) PROVE TypeOK'
    BY <1>13, FinishTypes DEF Refuse, history
  <1>14. ASSUME NEW r \in Requests, OnTaskCompleted(r) PROVE TypeOK'
    BY <1>14, FinishTypes DEF OnTaskCompleted, WithNext, history
  <1>15. CASE Stop
    BY <1>15 DEF Stop, history, Req
  <1>16. CASE UNCHANGED vars
    BY <1>16 DEF vars, history
  <1> QED BY <1>1, <1>2, <1>3, <1>4, <1>5, <1>6, <1>7, <1>8, <1>9, <1>10, <1>11, <1>12, <1>13, <1>14,
             <1>15, <1>16 DEF Next

\* A step leaves a request's wish to update or to complete a step alone, ends it,
\* or begins it with what the task is at that moment.
LEMMA NewRequest ==
  ASSUME TypeOK, [Next]_vars, NEW p \in Requests
  PROVE  \/ req'[p] = req[p]
         \/ req'[p].op \notin {"update", "step"}
         \/ \E u \in Users, d \in Edits :
              ReadForUpdate(p, u, d) /\ req'[p] = [op |-> "update", body |-> d, seen |-> task.status]
         \/ \E u \in Users :
              /\ ReadForStep(p, u)
              /\ req'[p] = [op |-> "step", by |-> u,
                            toReview |-> task.requiresReview /\ task.reviewer # None]
  <1> DEFINE Same == req'[p] = req[p] \/ req'[p].op \notin {"update", "step"}
  <1> USE DEF TypeOK
  <1>1. ASSUME NEW r \in Requests, NEW q, Begin(r, q) PROVE req'[p] = IF p = r THEN q ELSE req[p]
    BY <1>1 DEF Begin
  <1>2. ASSUME NEW r \in Requests, NEW done, Finish(r, done) PROVE Same
    BY <1>2 DEF Finish, Idle, Completion
  <1>4. ASSUME NEW r \in Requests, StartWork(r) PROVE Same
    BY <1>4 DEF StartWork
  <1>5. ASSUME NEW r \in Requests,
               CommitHandoff(r) \/ CommitAccept(r) \/ CommitReject(r) \/ CommitReassign(r) \/ Refuse(r)
                 \/ OnTaskCompleted(r)
        PROVE  Same
    BY <1>2, <1>5 DEF CommitHandoff, CommitAccept, CommitReject, CommitReassign, Refuse, OnTaskCompleted
  <1>6. ASSUME NEW r \in Requests, CommitUpdate(r) PROVE Same
    BY <1>2, <1>6 DEF CommitUpdate
  <1>7. ASSUME NEW r \in Requests, CommitStep(r) PROVE Same
    <2>1. Finish(r, ~req[r].toReview)
      BY <1>7 DEF CommitStep
    <2> QED BY <1>2, <2>1
  <1>8. ASSUME NEW r \in Requests, NEW u \in Users \ External, NEW d \in Edits, ReadForUpdate(r, u, d)
        PROVE  \/ req'[p] = req[p]
               \/ ReadForUpdate(p, u, d) /\ req'[p] = [op |-> "update", body |-> d, seen |-> task.status]
    <2>1. Begin(r, [op |-> "update", body |-> d, seen |-> task.status])
      BY <1>8 DEF ReadForUpdate
    <2> QED BY <1>1, <1>8, <2>1
  <1>9. ASSUME NEW r \in Requests, NEW u \in Users, ReadForStep(r, u)
        PROVE  \/ req'[p] = req[p]
               \/ ReadForStep(p, u) /\ req'[p] = [op |-> "step", by |-> u,
                                                  toReview |-> task.requiresReview /\ task.reviewer # None]
    <2>1. Begin(r, [op |-> "step", by |-> u, toReview |-> task.requiresReview /\ task.reviewer # None])
      BY <1>9 DEF ReadForStep
    <2> QED BY <1>1, <1>9, <2>1
  <1>10. CASE Stop
    BY <1>10 DEF Stop, Idle
  <1>11. CASE UNCHANGED vars
    BY <1>11 DEF vars
  <1>12. ASSUME NEW r \in Requests, NEW u \in Users \ External, ReadForHandoff(r, u) PROVE Same
    BY <1>1, <1>12 DEF ReadForHandoff
  <1>13. ASSUME NEW r \in Requests, NEW u \in Users \ External, NEW op \in {"accept", "reject"},
                ReadForReview(r, u, op)
         PROVE  Same
    BY <1>1, <1>13 DEF ReadForReview
  <1>14. ASSUME NEW r \in Requests, NEW u \in Users \ External, NEW v \in Users \ External,
                ReadForReassign(r, u, v)
         PROVE  Same
    BY <1>1, <1>14 DEF ReadForReassign
  <1> QED BY <1>4, <1>5, <1>6, <1>7, <1>8, <1>9, <1>10, <1>11, <1>12, <1>13, <1>14 DEF Next

\* Every step leaves the terms of review alone or records that they changed.
LEMMA TermsStep ==
  ASSUME TypeOK, [Next]_vars, termsKept'
  PROVE  termsKept /\ task'.requiresReview = task.requiresReview /\ task'.reviewer = task.reviewer
  <1> USE DEF TypeOK, Row
  <1>1. ASSUME NEW r \in Requests, CommitUpdate(r)
        PROVE  termsKept /\ task'.requiresReview = task.requiresReview /\ task'.reviewer = task.reviewer
    <2>1. termsKept /\ Mentions(req[r].body) \cap {"requiresReview", "reviewer"} = {}
      BY <1>1 DEF CommitUpdate
    <2>2. req[r].body.requiresReview = Unset /\ req[r].body.reviewer = Unset
      BY <2>1 DEF Mentions
    <2> QED BY <1>1, <2>1, <2>2 DEF CommitUpdate, Written
  <1>2. ASSUME NEW r \in Requests,
               StartWork(r) \/ CommitHandoff(r) \/ CommitAccept(r) \/ CommitReject(r) \/ CommitReassign(r)
                 \/ CommitStep(r)
        PROVE  termsKept /\ task'.requiresReview = task.requiresReview /\ task'.reviewer = task.reviewer
    BY <1>2 DEF StartWork, CommitHandoff, CommitAccept, CommitReject, CommitReassign, CommitStep, HandIn, history
  <1>3. ASSUME UNCHANGED <<task, history>>
        PROVE  termsKept /\ task'.requiresReview = task.requiresReview /\ task'.reviewer = task.reviewer
    BY <1>3 DEF history
  <1> QED BY <1>1, <1>2, <1>3
       DEF Next, Begin, ReadForUpdate, ReadForHandoff, ReadForReview, ReadForReassign, ReadForStep, Refuse,
           OnTaskCompleted, Stop, vars

\* Every step keeps what the requests in flight rely on, apart from SeenDoneRan.
LEMMA StepRequests == IInv /\ [Next]_vars => (UpdatesAreOrdinary /\ ClosersMayClose /\ TermsNameReviewer)'
  <1> SUFFICES ASSUME IInv, [Next]_vars PROVE (UpdatesAreOrdinary /\ ClosersMayClose /\ TermsNameReviewer)'
    OBVIOUS
  <1>1. TypeOK
    BY DEF IInv
  <1>2. UpdatesAreOrdinary'
    <2> SUFFICES ASSUME NEW r \in Requests, req'[r].op = "update"
                 PROVE  req'[r].body.status \notin {"PENDING_REVIEW", "NEEDS_REVISION"}
      BY DEF UpdatesAreOrdinary
    <2>1. CASE req'[r] = req[r]
      BY <2>1 DEF IInv, UpdatesAreOrdinary
    <2>2. ASSUME NEW u \in Users, NEW d \in Edits, ReadForUpdate(r, u, d),
                 req'[r] = [op |-> "update", body |-> d, seen |-> task.status]
          PROVE  req'[r].body.status \notin {"PENDING_REVIEW", "NEEDS_REVISION"}
      BY <2>2 DEF ReadForUpdate
    <2>3. ASSUME NEW u \in Users, NEW b, req'[r] = [op |-> "step", by |-> u, toReview |-> b]
          PROVE  FALSE
      BY <2>3
    <2> QED BY <1>1, <2>1, <2>2, <2>3, NewRequest
  <1>3. TermsNameReviewer'
    BY <1>1, TermsStep DEF IInv, TermsNameReviewer
  <1>4. ClosersMayClose'
    <2> SUFFICES ASSUME NEW r \in Requests, termsKept'
                 PROVE  /\ req'[r].op = "update" /\ req'[r].body.status = "DONE"
                             /\ req'[r].body.requiresReview = Unset => ~task'.requiresReview
                        /\ req'[r].op = "step" /\ ~req'[r].toReview => ~task'.requiresReview
      BY DEF ClosersMayClose
    <2>1. termsKept /\ task'.requiresReview = task.requiresReview
      BY <1>1, TermsStep
    <2>2. CASE req'[r] = req[r]
      BY <2>1, <2>2 DEF IInv, ClosersMayClose
    <2>3. ASSUME NEW u \in Users, NEW d \in Edits, ReadForUpdate(r, u, d),
                 req'[r] = [op |-> "update", body |-> d, seen |-> task.status]
          PROVE  req'[r].op = "update" /\ req'[r].body = d
                   /\ (d.status = "DONE" /\ d.requiresReview = Unset => ~task.requiresReview)
      BY <2>3 DEF ReadForUpdate, NeedsReview, Or
    <2>4. ASSUME NEW u \in Users,
                 req'[r] = [op |-> "step", by |-> u,
                            toReview |-> task.requiresReview /\ task.reviewer # None]
          PROVE  req'[r].op = "step" /\ (~req'[r].toReview => ~task.requiresReview)
      <3>1. task.requiresReview => task.reviewer # None
        BY <2>1 DEF IInv, TermsNameReviewer
      <3>2. CASE ~task.requiresReview
        BY <2>4, <3>2
      <3>3. CASE task.requiresReview
        <4> DEFINE named == task.requiresReview /\ task.reviewer # None
        <4>1. named = TRUE
          BY <3>1, <3>3
        <4>2. req'[r] = [op |-> "step", by |-> u, toReview |-> named]
          BY <2>4
        <4> HIDE DEF named
        <4>3. req'[r] = [op |-> "step", by |-> u, toReview |-> TRUE]
          BY <4>1, <4>2
        <4> QED BY <4>3
      <3> QED BY <3>2, <3>3
    <2> QED BY <1>1, <2>1, <2>2, <2>3, <2>4, NewRequest
  <1> QED BY <1>2, <1>3, <1>4

\* Every step keeps the times of completion and submission in step with the status.
LEMMA StepDates == IInv /\ [Next]_vars => DatesFollowStatus'
  <1> SUFFICES ASSUME IInv, [Next]_vars PROVE DatesFollowStatus'
    OBVIOUS
  <1> USE DEF IInv, TypeOK, Row, DatesFollowStatus
  <1>1. ASSUME NEW r \in Requests, CommitUpdate(r) PROVE DatesFollowStatus'
    <2> DEFINE q == req[r]
    <2>1. task'.completedAt = CompletedAt(q) /\ task'.status = Written(q.body.status, task.status)
            /\ task'.submittedAt = task.submittedAt
      BY <1>1 DEF CommitUpdate
    <2>2. q.body.status # "PENDING_REVIEW"
      BY <1>1 DEF CommitUpdate, UpdatesAreOrdinary
    <2>3. CompletedAt(q) => Written(q.body.status, task.status) = "DONE"
      BY NoneAssumption DEF CompletedAt, Written, TaskStatus
    <2>4. Written(q.body.status, task.status) = "PENDING_REVIEW" => task.submittedAt
      BY <2>2 DEF Written
    <2> QED BY <2>1, <2>3, <2>4
  <1>2. ASSUME NEW r \in Requests, StartWork(r) PROVE DatesFollowStatus'
    BY <1>2 DEF StartWork
  <1>3. ASSUME NEW r \in Requests, CommitHandoff(r) PROVE DatesFollowStatus'
    BY <1>3 DEF CommitHandoff, HandIn
  <1>4. ASSUME NEW r \in Requests, CommitAccept(r) PROVE DatesFollowStatus'
    BY <1>4 DEF CommitAccept
  <1>5. ASSUME NEW r \in Requests, CommitReject(r) PROVE DatesFollowStatus'
    BY <1>5 DEF CommitReject, StillOpen
  <1>6. ASSUME NEW r \in Requests, CommitReassign(r) PROVE DatesFollowStatus'
    BY <1>6 DEF CommitReassign
  <1>7. ASSUME NEW r \in Requests, CommitStep(r) PROVE DatesFollowStatus'
    BY <1>7 DEF CommitStep, HandIn
  <1>8. ASSUME task' = task PROVE DatesFollowStatus'
    BY <1>8
  <1> QED BY <1>1, <1>2, <1>3, <1>4, <1>5, <1>6, <1>7, <1>8
       DEF Next, Begin, ReadForUpdate, ReadForHandoff, ReadForReview, ReadForReassign, ReadForStep, Refuse,
           OnTaskCompleted, Stop, vars

\* Every step keeps the decisions at most as many as the hand-ins: a hand-in adds
\* to a task that is not waiting, a decision takes from one that is.
LEMMA StepHandIns == IInv /\ [Next]_vars => HandInsDecidedOnce'
  <1> SUFFICES ASSUME IInv, [Next]_vars PROVE HandInsDecidedOnce'
    OBVIOUS
  <1> USE DEF IInv, TypeOK, HandInsDecidedOnce
  <1>1. ASSUME NEW r \in Requests, CommitUpdate(r) PROVE HandInsDecidedOnce'
    BY <1>1 DEF CommitUpdate, UpdatesAreOrdinary, Written, Row
  <1>2. ASSUME NEW r \in Requests, StartWork(r) PROVE HandInsDecidedOnce'
    BY <1>2 DEF StartWork, history, Row
  <1>3. ASSUME NEW r \in Requests, CommitHandoff(r) PROVE HandInsDecidedOnce'
    BY <1>3 DEF CommitHandoff, StillOpen, HandInStatus
  <1>4. ASSUME NEW r \in Requests, CommitAccept(r) PROVE HandInsDecidedOnce'
    BY <1>4 DEF CommitAccept, StillOpen, Row
  <1>5. ASSUME NEW r \in Requests, CommitReject(r) PROVE HandInsDecidedOnce'
    BY <1>5 DEF CommitReject, StillOpen, Row
  <1>6. ASSUME NEW r \in Requests, CommitReassign(r) PROVE HandInsDecidedOnce'
    BY <1>6 DEF CommitReassign, history, Row
  <1>7. ASSUME NEW r \in Requests, CommitStep(r) PROVE HandInsDecidedOnce'
    <2>1. CASE req[r].toReview
      BY <1>7, <2>1 DEF CommitStep, StillOpen, HandIn, Row
    <2>2. CASE ~req[r].toReview
      BY <1>7, <2>2 DEF CommitStep, Row
    <2> QED BY <2>1, <2>2
  <1>8. ASSUME UNCHANGED <<task, history>> PROVE HandInsDecidedOnce'
    BY <1>8 DEF history
  <1> QED BY <1>1, <1>2, <1>3, <1>4, <1>5, <1>6, <1>7, <1>8
       DEF Next, Begin, ReadForUpdate, ReadForHandoff, ReadForReview, ReadForReassign, ReadForStep, Refuse,
           OnTaskCompleted, Stop, vars

\* Every step that closes a task that must be reviewed, on unchanged terms, is an
\* acceptance.
LEMMA StepAccepted == IInv /\ [Next]_vars => ReviewedWorkWasAccepted'
  <1> SUFFICES ASSUME IInv, [Next]_vars, task'.status = "DONE", task'.requiresReview, termsKept'
               PROVE  accepted'
    BY DEF ReviewedWorkWasAccepted
  <1>1. TypeOK
    BY DEF IInv
  <1>2. termsKept /\ task.requiresReview
    BY <1>1, TermsStep
  <1>3. task.status = "DONE" => accepted
    BY <1>2 DEF IInv, ReviewedWorkWasAccepted
  <1> USE DEF TypeOK, Row
  <1>4. ASSUME NEW r \in Requests, CommitUpdate(r) PROVE accepted'
    <2> DEFINE d == req[r].body
    <2>1. Mentions(d) \cap {"requiresReview", "reviewer"} = {}
      BY <1>4 DEF CommitUpdate
    <2>2. d.requiresReview = Unset
      BY <2>1 DEF Mentions
    <2>3. d.status # "DONE"
      BY <1>2, <1>4, <2>2 DEF IInv, ClosersMayClose, CommitUpdate
    <2>4. d.status = Unset /\ task.status = "DONE"
      BY <1>1, <1>4, <2>3 DEF CommitUpdate, Written
    <2> QED BY <1>3, <1>4, <2>4 DEF CommitUpdate
  <1>5. ASSUME NEW r \in Requests, StartWork(r) PROVE accepted'
    BY <1>1, <1>3, <1>5 DEF StartWork, history
  <1>6. ASSUME NEW r \in Requests, CommitHandoff(r) \/ CommitReject(r) PROVE FALSE
    <2>1. task'.status = "PENDING_REVIEW" \/ task'.status = "NEEDS_REVISION"
      BY <1>1, <1>6 DEF CommitHandoff, CommitReject, HandIn
    <2> QED BY <2>1
  <1>7. ASSUME NEW r \in Requests, CommitAccept(r) PROVE accepted'
    BY <1>7 DEF CommitAccept
  <1>8. ASSUME NEW r \in Requests, CommitReassign(r) PROVE accepted'
    BY <1>1, <1>3, <1>8 DEF CommitReassign, history
  <1>9. ASSUME NEW r \in Requests, CommitStep(r) PROVE FALSE
    <2>1. req[r].toReview
      BY <1>2, <1>9 DEF IInv, ClosersMayClose, CommitStep
    <2> QED BY <1>1, <1>9, <2>1 DEF CommitStep, HandIn
  <1>10. ASSUME UNCHANGED <<task, history>> PROVE accepted'
    BY <1>3, <1>10 DEF history
  <1> QED BY <1>4, <1>5, <1>6, <1>7, <1>8, <1>9, <1>10
       DEF Next, Begin, ReadForUpdate, ReadForHandoff, ReadForReview, ReadForReassign, ReadForStep, Refuse,
           OnTaskCompleted, Stop, vars

\* A completion that ran, or is still to run, does not become undone.
LEMMA RanStep ==
  ASSUME TypeOK, RecursOnce, [Next]_vars, Ran
  PROVE  Ran'
  <1> USE DEF TypeOK
  <1>1. CASE Stop
    BY <1>1 DEF Stop, Ran
  <1>2. ASSUME NEW r \in Requests, OnTaskCompleted(r) PROVE Ran'
    <2>1. occurrences' = 1
      BY <1>2 DEF OnTaskCompleted, WithNext, RecursOnce
    <2> QED BY <2>1 DEF Ran
  <1>3. ASSUME UNCHANGED <<occurrences, stopped, createdDone>>, NEW r \in Requests, req[r].op # "complete",
               \A p \in Requests : p # r => req'[p] = req[p]
        PROVE  Ran'
    <2>1. CASE occurrences = 1 \/ stopped \/ createdDone
      BY <1>3, <2>1, Zenon DEF Ran
    <2>2. CASE Completing
      BY <1>3, <2>2 DEF Ran, Completing
    <2> QED BY <2>1, <2>2 DEF Ran
  <1>4. CASE UNCHANGED vars
    BY <1>4 DEF vars, history, Ran, Completing
  <1>5. ASSUME NEW r \in Requests, NEW q, req[r] = Idle, Begin(r, q) PROVE Ran'
    BY <1>3, <1>5 DEF Begin, Idle, history
  <1>6. ASSUME NEW r \in Requests, StartWork(r) PROVE Ran'
    BY <1>3, <1>6 DEF StartWork, history
  <1>10. ASSUME NEW r \in Requests, Finish(r, TRUE) PROVE Ran'
    BY <1>10 DEF Finish, Completion, Ran, Completing
  <1>11. ASSUME UNCHANGED <<occurrences, stopped, createdDone>>, NEW r \in Requests, req[r].op # "complete",
                Finish(r, FALSE)
         PROVE  Ran'
    BY <1>3, <1>11 DEF Finish
  <1>7. ASSUME NEW r \in Requests, CommitUpdate(r) PROVE Ran'
    <2>1. CASE req[r].body.status = "DONE" /\ req[r].seen # "DONE"
      BY <1>7, <1>10, <2>1 DEF CommitUpdate
    <2>2. CASE ~(req[r].body.status = "DONE" /\ req[r].seen # "DONE")
      <3>1. createdDone' = createdDone /\ UNCHANGED <<occurrences, stopped>> /\ req[r].op # "complete"
        BY <1>7, <2>2 DEF CommitUpdate
      <3>2. Finish(r, FALSE)
        BY <1>7, <2>2 DEF CommitUpdate, Finish
      <3> QED BY <1>11, <3>1, <3>2
    <2> QED BY <2>1, <2>2
  <1>8. ASSUME NEW r \in Requests, CommitStep(r) PROVE Ran'
    <2>1. CASE req[r].toReview
      <3>1. createdDone' = createdDone /\ UNCHANGED <<occurrences, stopped>> /\ req[r].op # "complete"
        BY <1>8, <2>1 DEF CommitStep
      <3>2. Finish(r, FALSE)
        BY <1>8, <2>1 DEF CommitStep, Finish
      <3> QED BY <1>11, <3>1, <3>2
    <2>2. CASE ~req[r].toReview
      BY <1>8, <1>10, <2>2 DEF CommitStep, Finish
    <2> QED BY <2>1, <2>2
  <1>9. ASSUME NEW r \in Requests, CommitHandoff(r) \/ CommitReject(r) \/ CommitReassign(r) \/ Refuse(r)
        PROVE  Ran'
    BY <1>9, <1>11 DEF CommitHandoff, CommitReject, CommitReassign, Refuse, history
  <1>12. ASSUME NEW r \in Requests, CommitAccept(r) PROVE Ran'
    BY <1>10, <1>12 DEF CommitAccept
  <1> QED BY <1>12, <1>1, <1>2, <1>4, <1>5, <1>6, <1>7, <1>8, <1>9
       DEF Next, ReadForUpdate, ReadForHandoff, ReadForReview, ReadForReassign, ReadForStep

\* Every step that closes the task leaves its next occurrence to somebody, and no
\* step creates a second one.
LEMMA StepRecurs == IInv /\ [Next]_vars => (RecursOnce /\ SeenDoneRan)'
  <1> SUFFICES ASSUME IInv, [Next]_vars PROVE (RecursOnce /\ SeenDoneRan)'
    OBVIOUS
  <1>1. TypeOK /\ RecursOnce
    BY DEF IInv
  <1>2. task.status = "DONE" => Ran
    BY DEF IInv, RecursOnce, Ran
  <1>3. Ran => Ran'
    BY <1>1, RanStep
  <1>4. SeenDoneRan'
    <2> SUFFICES ASSUME NEW r \in Requests, req'[r].op = "update", req'[r].seen = "DONE" PROVE Ran'
      BY DEF SeenDoneRan
    <2>1. CASE req'[r] = req[r]
      BY <1>3, <2>1 DEF IInv, SeenDoneRan
    <2>2. ASSUME NEW d \in Edits, req'[r] = [op |-> "update", body |-> d, seen |-> task.status] PROVE Ran'
      BY <1>2, <1>3, <2>2
    <2>3. ASSUME NEW u \in Users, NEW b, req'[r] = [op |-> "step", by |-> u, toReview |-> b] PROVE FALSE
      BY <2>3
    <2> QED BY <1>1, <2>1, <2>2, <2>3, NewRequest
  <1>5. occurrences' <= 1
    <2>1. ASSUME NEW r \in Requests, OnTaskCompleted(r) PROVE occurrences' <= 1
      BY <1>1, <2>1 DEF OnTaskCompleted, WithNext, RecursOnce
    <2>2. ASSUME occurrences' = occurrences PROVE occurrences' <= 1
      BY <1>1, <2>2 DEF RecursOnce
    <2>3. \/ \E r \in Requests : OnTaskCompleted(r)
          \/ occurrences' = occurrences
      BY Zenon DEF Next, Begin, ReadForUpdate, ReadForHandoff, ReadForReview, ReadForReassign, ReadForStep,
                   StartWork, CommitUpdate, CommitHandoff, CommitAccept, CommitReject, CommitReassign,
                   CommitStep, Refuse, Stop, vars
    <2> QED BY <2>1, <2>2, <2>3
  <1>6. task'.status = "DONE" => Ran'
    <2> SUFFICES ASSUME task'.status = "DONE", task.status # "DONE" PROVE Ran'
      BY <1>2, <1>3
    <2> USE DEF TypeOK, Row
    <2>0. ASSUME NEW r \in Requests, Finish(r, TRUE) PROVE Ran'
      BY <1>1, <2>0 DEF Finish, Completion, Ran, Completing
    <2>1. ASSUME NEW r \in Requests, CommitUpdate(r) PROVE Ran'
      <3>1. req[r].body.status = "DONE"
        BY <1>1, <2>1 DEF CommitUpdate, Written
      <3>2. CASE req[r].seen = "DONE"
        BY <1>3, <2>1, <3>2 DEF IInv, SeenDoneRan, CommitUpdate
      <3>3. CASE req[r].seen # "DONE"
        BY <2>0, <2>1, <3>1, <3>3 DEF CommitUpdate
      <3> QED BY <3>2, <3>3
    <2>2. ASSUME NEW r \in Requests, CommitAccept(r) PROVE Ran'
      BY <2>0, <2>2 DEF CommitAccept
    <2>3. ASSUME NEW r \in Requests, CommitStep(r) PROVE Ran'
      <3>1. ~req[r].toReview
        <4> SUFFICES ASSUME req[r].toReview PROVE FALSE
          OBVIOUS
        <4>1. task' = HandIn
          BY <2>3 DEF CommitStep
        <4>2. task'.status = "PENDING_REVIEW"
          BY <1>1, <4>1 DEF HandIn
        <4> QED BY <4>2
      <3>2. Finish(r, TRUE)
        BY <2>3, <3>1 DEF CommitStep, Finish
      <3> QED BY <2>0, <3>2
    <2>4. ASSUME NEW r \in Requests,
                 StartWork(r) \/ CommitHandoff(r) \/ CommitReject(r) \/ CommitReassign(r)
          PROVE  FALSE
      BY <1>1, <2>4 DEF StartWork, CommitHandoff, CommitReject, CommitReassign, HandIn
    <2>5. task' # task
      OBVIOUS
    <2> QED BY <2>1, <2>2, <2>3, <2>4, <2>5
         DEF Next, Begin, ReadForUpdate, ReadForHandoff, ReadForReview, ReadForReassign, ReadForStep, Refuse,
             OnTaskCompleted, Stop, vars
  <1> QED BY <1>4, <1>5, <1>6 DEF RecursOnce, Ran, Completing

\* The invariant is inductive, so it holds of every behaviour.
THEOREM Invariance == Spec => []IInv
  <1>1. IInv /\ [Next]_vars => IInv'
    BY StepTypeOK, StepRequests, StepDates, StepHandIns, StepAccepted, StepRecurs DEF IInv
  <1> QED BY InitIInv, <1>1, PTL DEF Spec

\* Type correctness, and with it that every task waiting for review has a worker.
THEOREM TypeCorrect == Spec => []TypeOK
  BY Invariance, PTL DEF IInv

\* The times of completion and submission follow the status.
THEOREM DatesFollow == Spec => []DatesFollowStatus
  BY Invariance, PTL DEF IInv

\* A hand-in is accepted or sent back once at most.
THEOREM DecidedOnce == Spec => []HandInsDecidedOnce
  BY Invariance, PTL DEF IInv

\* A task to be reviewed on the terms it was created with is closed by acceptance.
THEOREM Accepted == Spec => []ReviewedWorkWasAccepted
  BY Invariance, PTL DEF IInv

\* A task that a request completed has exactly one next occurrence unless the process
\* stopped, also if it was created DONE before.
THEOREM Recurs == Spec => []RecursOnce
  BY Invariance, PTL DEF IInv

=============================================================================
