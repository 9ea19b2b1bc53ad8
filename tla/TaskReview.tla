----------------------------- MODULE TaskReview -----------------------------
(***************************************************************************)
(* One task of a case from work through review to its closing              *)
(* (src/apps/api/src/tasks/tasks.service.ts).                              *)
(*                                                                         *)
(* handoff, accept, reject and completeWorkflowStep repeat the status they *)
(* rely on in their UPDATE; the general update does not.  Closing a task   *)
(* and creating its next occurrence are two steps.  The task recurs and    *)
(* follows no routine.                                                     *)
(***************************************************************************)
EXTENDS Integers

CONSTANTS Requests,    \* requests that can be in flight at once (a bound)
          Users,
          Lead,        \* the case's lead lawyer
          Owners,      \* users with the role OWNER
          Managers,    \* users with the role OFFICE_MANAGER
          Seniors,     \* users with the role OWNER or SENIOR_LAWYER
          External,    \* freelancers, who only see their workflow steps
          Delegable,   \* the pairs <<u, v>> such that u may give work to v
          Edits,       \* the bodies of an update
          MaxHandIns,  \* bound: no further hand-in starts once there are as many
          Unset,       \* a field that an update does not mention
          None         \* a null column

TaskStatus == {"TODO", "IN_PROGRESS", "PENDING_REVIEW", "NEEDS_REVISION", "DONE"}

ASSUME UserAssumption ==
  /\ Lead \in Users \ External
  /\ Owners \cup Managers \cup Seniors \subseteq Users \ External
  /\ Delegable \subseteq Users \X (Users \ External)

ASSUME EditAssumption ==
  Edits \subseteq [status : TaskStatus \cup {Unset}, requiresReview : BOOLEAN \cup {Unset},
                   assignee : (Users \ External) \cup {Unset}, reviewer : Users \cup {None, Unset}]

ASSUME NoneAssumption ==
  /\ None \notin Users
  /\ Unset \notin Users \cup {None} /\ Unset \notin TaskStatus /\ Unset \notin BOOLEAN

VARIABLES
  task,         \* the row
  occurrences,  \* tasks with the request key recurrence:<id>
  req,          \* what each request in flight has read
  handIns,      \* history: hand-ins
  decisions,    \* history: hand-ins accepted or sent back
  accepted,     \* history: the task is DONE by an acceptance
  termsKept,    \* history: requiresReview and reviewer are as they were created
  createdDone,  \* history: the task was created DONE, and no request has completed it since
  stopped       \* the process stopped once

history == <<handIns, decisions, accepted, termsKept, createdDone>>
vars == <<task, occurrences, req, history, stopped>>

Row == [status : TaskStatus, assignee : Users \cup {None}, reviewer : Users \cup {None},
        requiresReview : BOOLEAN, completedAt : BOOLEAN, submittedAt : BOOLEAN]

Idle == [op |-> "idle"]
Completion == [op |-> "complete"]
Req == {Idle, Completion}
         \cup [op : {"update"}, body : Edits, seen : TaskStatus]
         \cup [op : {"handoff"}, by : Users, assignee : Users \cup {None}, started : BOOLEAN]
         \cup [op : {"accept", "reject"}, worker : Users]
         \cup [op : {"reassign"}, to : Users]
         \cup [op : {"step"}, by : Users, toReview : BOOLEAN]

\* `new ?? old`, and a column that is written with an optional field.
Or(new, old) == IF new \in {Unset, None} THEN old ELSE new
Written(new, old) == IF new = Unset THEN old ELSE new

Reviewer == IF task.reviewer # None THEN task.reviewer ELSE Lead

\* validateReview with isEligibleReviewer.
ReviewerFits(required, reviewer, assignee) ==
  \/ ~required /\ reviewer = None
  \/ reviewer \in (Seniors \cup {Lead}) \ (Managers \cup {assignee})

LeadOrOffice(u) == u \in Owners \cup Managers \cup {Lead}
MayAssign(u, v) == u = v \/ <<u, v>> \in Delegable

\* create, or a workflow step of a run. A task that needs no review may be created DONE;
\* create does not go on to onTaskCompleted then.
Init ==
  /\ task \in [status : {"TODO", "IN_PROGRESS", "DONE"}, assignee : Users \cup {None},
               reviewer : Users \cup {None}, requiresReview : BOOLEAN,
               completedAt : BOOLEAN, submittedAt : {FALSE}]
  /\ task.status = "DONE" => ~task.requiresReview
  /\ task.completedAt = (task.status = "DONE")
  /\ ReviewerFits(task.requiresReview, task.reviewer, task.assignee)
  /\ occurrences = 0
  /\ req = [r \in Requests |-> Idle]
  /\ handIns = 0 /\ decisions = 0
  /\ accepted = FALSE /\ termsKept = TRUE
  /\ createdDone = (task.status = "DONE")
  /\ stopped = FALSE

Begin(r, q) ==
  /\ req' = [req EXCEPT ![r] = q]
  /\ UNCHANGED <<task, occurrences, history, stopped>>

-----------------------------------------------------------------------------
\* Fault: whether the task needs review is taken from the body alone.
NeedsReview_BodyOnly(d) == d.requiresReview = TRUE

NeedsReview(d) == Or(d.requiresReview, task.requiresReview)

Mentions(d) == {f \in {"status", "assignee", "requiresReview", "reviewer"} : d[f] # Unset}

\* update up to its write.
ReadForUpdate(r, u, d) ==
  /\ req[r] = Idle
  /\ "assignee" \in Mentions(d) =>
       LeadOrOffice(u) /\ (d.assignee # task.assignee => MayAssign(u, d.assignee))
  /\ Mentions(d) \cap {"requiresReview", "reviewer"} # {} =>
       /\ u \in Seniors
       /\ ReviewerFits(Or(d.requiresReview, task.requiresReview), Written(d.reviewer, task.reviewer),
                       Or(d.assignee, task.assignee))
  /\ d.status = "DONE" => ~NeedsReview(d)
  /\ d.status \notin {"PENDING_REVIEW", "NEEDS_REVISION"}
  /\ task.status = "PENDING_REVIEW" => Mentions(d) \cap {"status", "assignee"} = {}
  /\ NeedsReview(d) => Or(d.assignee, task.assignee) # Or(d.reviewer, task.reviewer)
  /\ "status" \in Mentions(d) => task.assignee \in {None, u} \/ LeadOrOffice(u)
  /\ Begin(r, [op |-> "update", body |-> d, seen |-> task.status])

\* Fault: a task that is taken up again keeps the time of its completion.
CompletedAt_Kept(q) == q.body.status = "DONE" \/ task.completedAt

CompletedAt(q) ==
  IF q.body.status = "DONE" THEN q.seen # "DONE" \/ task.completedAt
  ELSE q.body.status = Unset /\ task.completedAt

\* The request goes on to onTaskCompleted, or it has ended.
Finish(r, done) == req' = [req EXCEPT ![r] = IF done THEN Completion ELSE Idle]

\* The write of update, which repeats nothing of what was read.
CommitUpdate(r) ==
  LET q == req[r]
      d == q.body
      completes == d.status = "DONE" /\ q.seen # "DONE"
  IN  /\ q.op = "update"
      /\ task' = [task EXCEPT !.status = Written(d.status, @),
                              !.assignee = Written(d.assignee, @),
                              !.requiresReview = Written(d.requiresReview, @),
                              !.reviewer = Written(d.reviewer, @),
                              !.completedAt = CompletedAt(q)]
      /\ accepted' = (accepted /\ d.status = Unset)
      /\ termsKept' = (termsKept /\ Mentions(d) \cap {"requiresReview", "reviewer"} = {})
      /\ createdDone' = (createdDone /\ ~completes)
      /\ Finish(r, completes)
      /\ UNCHANGED <<occurrences, handIns, decisions, stopped>>

-----------------------------------------------------------------------------
HandInStatus == TaskStatus \ {"PENDING_REVIEW"}

\* handoff up to its transition.
ReadForHandoff(r, u) ==
  /\ req[r] = Idle
  /\ handIns < MaxHandIns
  /\ Reviewer # u
  /\ task.assignee \in {None, u}
  /\ task.status \in HandInStatus
  /\ Begin(r, [op |-> "handoff", by |-> u, assignee |-> task.assignee, started |-> task.status # "TODO"])

\* prepareHandoff records that a task that was still to do is in progress.
StartWork(r) ==
  /\ req[r].op = "handoff" /\ ~req[r].started
  /\ task' = IF task.status = "TODO" THEN [task EXCEPT !.status = "IN_PROGRESS"] ELSE task
  /\ req' = [req EXCEPT ![r].started = TRUE]
  /\ UNCHANGED <<occurrences, history, stopped>>

\* accept and reject up to their transition.
ReadForReview(r, u, op) ==
  /\ req[r] = Idle
  /\ task.status = "PENDING_REVIEW"
  /\ u \notin Managers \cup {task.assignee}
  /\ u = Reviewer \/ (task.reviewer = None /\ u \in Owners)
  /\ Begin(r, [op |-> op, worker |-> task.assignee])

\* reassign up to its write.
ReadForReassign(r, u, v) ==
  /\ req[r] = Idle
  /\ LeadOrOffice(u) /\ MayAssign(u, v)
  /\ task.status # "PENDING_REVIEW"
  /\ task.reviewer # v
  /\ Begin(r, [op |-> "reassign", to |-> v])

\* completeWorkflowStep, which a freelancer calls, up to its write.
ReadForStep(r, u) ==
  /\ req[r] = Idle
  /\ handIns < MaxHandIns
  /\ u \in External /\ task.assignee = u
  /\ Begin(r, [op |-> "step", by |-> u, toReview |-> task.requiresReview /\ task.reviewer # None])

-----------------------------------------------------------------------------
\* Fault: the status is not tested again.
StillOpen_AsRead(q) == TRUE

\* What the WHERE of each guarded write repeats.
StillOpen(q) ==
  \/ q.op = "handoff" /\ task.status \in HandInStatus
  \/ q.op \in {"accept", "reject"} /\ task.status = "PENDING_REVIEW"
  \/ q.op = "reassign" /\ task.status # "PENDING_REVIEW"
  \/ q.op = "step" /\ task.status \notin {"DONE", "PENDING_REVIEW"} /\ task.assignee = q.by

HandIn == [task EXCEPT !.status = "PENDING_REVIEW", !.completedAt = FALSE, !.submittedAt = TRUE]

CommitHandoff(r) ==
  /\ req[r].op = "handoff" /\ req[r].started
  /\ StillOpen(req[r])
  /\ task' = [HandIn EXCEPT !.assignee = Or(req[r].assignee, req[r].by)]
  /\ handIns' = handIns + 1 /\ accepted' = FALSE
  /\ Finish(r, FALSE)
  /\ UNCHANGED <<occurrences, decisions, termsKept, createdDone, stopped>>

CommitAccept(r) ==
  /\ req[r].op = "accept"
  /\ StillOpen(req[r])
  /\ task' = [task EXCEPT !.status = "DONE", !.completedAt = TRUE]
  /\ decisions' = decisions + 1 /\ accepted' = TRUE /\ createdDone' = FALSE
  /\ Finish(r, TRUE)
  /\ UNCHANGED <<occurrences, handIns, termsKept, stopped>>

CommitReject(r) ==
  /\ req[r].op = "reject"
  /\ StillOpen(req[r])
  /\ task' = [task EXCEPT !.status = "NEEDS_REVISION", !.assignee = req[r].worker, !.submittedAt = FALSE]
  /\ decisions' = decisions + 1 /\ accepted' = FALSE
  /\ Finish(r, FALSE)
  /\ UNCHANGED <<occurrences, handIns, termsKept, createdDone, stopped>>

CommitReassign(r) ==
  /\ req[r].op = "reassign"
  /\ StillOpen(req[r])
  /\ task' = [task EXCEPT !.assignee = req[r].to]
  /\ Finish(r, FALSE)
  /\ UNCHANGED <<occurrences, history, stopped>>

CommitStep(r) ==
  /\ req[r].op = "step"
  /\ StillOpen(req[r])
  /\ IF req[r].toReview
       THEN task' = HandIn /\ handIns' = handIns + 1
       ELSE task' = [task EXCEPT !.status = "DONE", !.completedAt = TRUE, !.submittedAt = FALSE]
            /\ UNCHANGED handIns
  /\ accepted' = FALSE
  /\ createdDone' = (createdDone /\ req[r].toReview)
  /\ Finish(r, ~req[r].toReview)
  /\ UNCHANGED <<occurrences, decisions, termsKept, stopped>>

\* The write finds that the task was dealt with meanwhile.
Refuse(r) ==
  /\ req[r].op \in {"handoff", "accept", "reject", "reassign", "step"}
  /\ req[r].op = "handoff" => req[r].started
  /\ ~StillOpen(req[r])
  /\ Finish(r, FALSE)
  /\ UNCHANGED <<task, occurrences, history, stopped>>

-----------------------------------------------------------------------------
\* Fault: every completion creates an occurrence.
WithNext_Created == occurrences + 1

\* The upsert under the key of this task.
WithNext == IF occurrences = 0 THEN 1 ELSE occurrences

\* onTaskCompleted.
OnTaskCompleted(r) ==
  /\ req[r].op = "complete"
  /\ occurrences' = WithNext
  /\ Finish(r, FALSE)
  /\ UNCHANGED <<task, history, stopped>>

\* The process stops: the requests in flight go no further.
Stop ==
  /\ ~stopped
  /\ stopped' = TRUE
  /\ req' = [r \in Requests |-> Idle]
  /\ UNCHANGED <<task, occurrences, history>>

Next ==
  \/ Stop
  \/ \E r \in Requests :
       \/ \E u \in Users \ External, d \in Edits : ReadForUpdate(r, u, d)
       \/ \E u \in Users \ External : ReadForHandoff(r, u)
       \/ \E u \in Users \ External, op \in {"accept", "reject"} : ReadForReview(r, u, op)
       \/ \E u, v \in Users \ External : ReadForReassign(r, u, v)
       \/ \E u \in Users : ReadForStep(r, u)
       \/ StartWork(r)
       \/ CommitUpdate(r)
       \/ CommitHandoff(r)
       \/ CommitAccept(r)
       \/ CommitReject(r)
       \/ CommitReassign(r)
       \/ CommitStep(r)
       \/ Refuse(r)
       \/ OnTaskCompleted(r)

Spec == Init /\ [][Next]_vars

-----------------------------------------------------------------------------
\* Every variable has its type, and a task that was handed in has a worker.
TypeOK ==
  /\ task \in Row
  /\ task.status = "PENDING_REVIEW" => task.assignee # None
  /\ req \in [Requests -> Req]
  /\ occurrences \in Nat /\ handIns \in Nat /\ decisions \in Nat
  /\ accepted \in BOOLEAN /\ termsKept \in BOOLEAN /\ createdDone \in BOOLEAN /\ stopped \in BOOLEAN

\* A task has a completion time only while it is DONE, and a submission time
\* while it waits for review, although six handlers write these columns and one
\* of them writes on what it read (update, transition, completeWorkflowStep).
DatesFollowStatus ==
  /\ task.completedAt => task.status = "DONE"
  /\ task.status = "PENDING_REVIEW" => task.submittedAt

\* Every hand-in is accepted or sent back once at most, and the one that is
\* waiting not yet, when two reviewers decide together ("the loser is refused",
\* transition).
HandInsDecidedOnce ==
  /\ decisions <= handIns
  /\ task.status = "PENDING_REVIEW" => decisions < handIns

\* A task that was created to be reviewed, and whose terms of review nobody
\* changed, is DONE only by an acceptance: not by update, by a workflow step or
\* by a request that read an earlier state (update's guard on DONE).
ReviewedWorkWasAccepted ==
  task.status = "DONE" /\ task.requiresReview /\ termsKept => accepted

Completing == \E r \in Requests : req[r].op = "complete"

\* A task that was completed has exactly one next occurrence, however often it is closed,
\* taken up and closed again, also when it was created DONE before; only a stop between
\* the two steps can lose it ("Runs once when a task transitions to DONE",
\* onTaskCompleted). A task that was created DONE, and was not completed by any request
\* since, has none: create leaves onTaskCompleted out.
RecursOnce ==
  /\ occurrences <= 1
  /\ task.status = "DONE" /\ ~createdDone => occurrences = 1 \/ Completing \/ stopped

=============================================================================
