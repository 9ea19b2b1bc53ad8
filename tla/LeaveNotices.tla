---------------------------- MODULE LeaveNotices ----------------------------
(***************************************************************************)
(* One leave request (src/apps/api/src/leave) and the LINE notices about   *)
(* it: to those who may approve it, to the applicant once it is decided,   *)
(* to the colleagues when it is sick leave and when it is cancelled.       *)
(*                                                                         *)
(* sendOnce keeps a notice from going out twice: it claims the notice's    *)
(* row in LeaveNoticeLog for five minutes, pushes, and marks the row sent. *)
(* Requests and the ten-minute job send at the same time, a push may fail, *)
(* lose its answer or take longer than the lease, and the process may stop.*)
(***************************************************************************)
EXTENDS Naturals

CONSTANTS Senders,    \* requests and job runs that can be in flight at once (a bound)
          Members,    \* the colleagues LINE can reach
          Approvers,  \* those of them who may approve leave
          Applicant,
          MaxFaults,  \* bound: stops, slow pushes, lost answers, failing updates
          None        \* no row

ASSUME NoticeAssumption == Approvers \subseteq Members /\ MaxFaults \in Nat

VARIABLES
  leave,    \* the LeaveRequest: its status and whether it is sick leave
  log,      \* LeaveNoticeLog: whose claim each notice's row holds, whether it is old, sentAt
  sender,   \* what each request or job run is doing
  told,     \* history: how often each notice was delivered
  excused,  \* history: how often its lease lapsed, or a delivery went unanswered or unrecorded
  faults

vars == <<leave, log, sender, told, excused, faults>>

Verdicts == {"APPROVED", "REJECTED"}
Kinds == {"request", "decision", "sick", "cancel"}

\* Who gets a notice of the kind.
To(kind) == CASE kind = "request" -> Approvers
              [] kind = "decision" -> {Applicant}
              [] OTHER -> Members

Notices == UNION {{<<kind, m>> : m \in To(kind)} : kind \in Kinds}

Idle == [pc |-> "idle"]
Deciding == [pc : {"decide"}, verdict : Verdicts]
Cancelling == [pc : {"cancel"}, approved : BOOLEAN]
Sending == [pc : {"next"}, kind : Kinds, todo : SUBSET (Members \cup {Applicant}), text : Verdicts \cup {None}]
Pushing == [pc : {"push", "sent", "failed"}, kind : Kinds, todo : SUBSET (Members \cup {Applicant}),
            text : Verdicts \cup {None}, to : Members \cup {Applicant}, lapsed : BOOLEAN]

Sends(kind, text) == [pc |-> "next", kind |-> kind, todo |-> To(kind), text |-> text]

Claims == [by : Senders, old : BOOLEAN, sent : BOOLEAN, text : Verdicts \cup {None}]

ASSUME NoneAssumption == None \notin Claims

Init ==
  /\ leave = [status |-> "none", sick |-> FALSE]
  /\ log = [n \in Notices |-> None]
  /\ sender = [s \in Senders |-> Idle]
  /\ told = [n \in Notices |-> 0]
  /\ excused = [n \in Notices |-> 0]
  /\ faults = 0

Fault == faults < MaxFaults /\ faults' = faults + 1

-----------------------------------------------------------------------------
(* The request's life.                                                      *)

\* create: sick leave and an owner's leave need no approval.
Create(s, sick, owner) ==
  /\ leave.status = "none"
  /\ sender[s] = Idle
  /\ leave' = [leave EXCEPT !.status = IF sick \/ owner THEN "APPROVED" ELSE "PENDING", !.sick = sick]
  /\ sender' = [sender EXCEPT ![s] = IF sick THEN Sends("sick", None)
                                     ELSE IF owner THEN Idle ELSE Sends("request", None)]
  /\ UNCHANGED <<log, told, excused, faults>>

ReadForDecision(s, verdict) ==
  /\ sender[s] = Idle
  /\ leave.status = "PENDING"
  /\ sender' = [sender EXCEPT ![s] = [pc |-> "decide", verdict |-> verdict]]
  /\ UNCHANGED <<leave, log, told, excused, faults>>

\* Fault: the row is updated by its id alone.
StillPending_Unchecked == leave.status \notin {"none", "deleted"}

StillPending == leave.status = "PENDING"

\* decide: whoever comes second is told that it was decided already.
Decide(s) ==
  /\ sender[s].pc = "decide"
  /\ LET verdict == sender[s].verdict IN
       IF StillPending
         THEN /\ leave' = [leave EXCEPT !.status = verdict]
              /\ sender' = [sender EXCEPT ![s] = Sends("decision", verdict)]
         ELSE /\ sender' = [sender EXCEPT ![s] = Idle]
              /\ UNCHANGED leave
  /\ UNCHANGED <<log, told, excused, faults>>

ReadForCancel(s) ==
  /\ sender[s] = Idle
  /\ leave.status \notin {"none", "deleted"}
  /\ sender' = [sender EXCEPT ![s] = [pc |-> "cancel", approved |-> leave.status = "APPROVED"]]
  /\ UNCHANGED <<leave, log, told, excused, faults>>

\* cancel: the colleagues are told if the leave was approved when it was read.
Cancel(s) ==
  /\ sender[s].pc = "cancel"
  /\ leave' = [leave EXCEPT !.status = "deleted"]
  /\ sender' = [sender EXCEPT ![s] = IF leave.status # "deleted" /\ sender[s].approved
                                       THEN Sends("cancel", None) ELSE Idle]
  /\ UNCHANGED <<log, told, excused, faults>>

\* sendNotices, every ten minutes: sick leave (not over yet) is announced again.
Announce(s) ==
  /\ sender[s] = Idle
  /\ leave.status = "APPROVED"
  /\ leave.sick
  /\ sender' = [sender EXCEPT ![s] = Sends("sick", None)]
  /\ UNCHANGED <<leave, log, told, excused, faults>>

-----------------------------------------------------------------------------
(* sendOnce.                                                                *)

NoticeOf(q) == <<q.kind, q.to>>

\* Fault: a claim is taken over whether or not it has expired.
Expired_Always(n) == log[n] # None /\ ~log[n].sent

\* Fault: a row that exists is taken for a notice that was sent.
Expired_Never(n) == FALSE

Expired(n) == log[n] # None /\ ~log[n].sent /\ log[n].old

\* The row is created, or taken over from a sender whose five minutes are up.
Claim(s, m) ==
  LET n == <<sender[s].kind, m>> IN
    /\ sender[s].pc = "next"
    /\ m \in sender[s].todo
    /\ log[n] = None \/ Expired(n)
    /\ log' = [log EXCEPT ![n] = [by |-> s, old |-> FALSE, sent |-> FALSE, text |-> sender[s].text]]
    /\ sender' = [sender EXCEPT ![s] = [pc |-> "push", kind |-> @.kind, todo |-> @.todo \ {m},
                                        text |-> @.text, to |-> m, lapsed |-> FALSE]]
    /\ UNCHANGED <<leave, told, excused, faults>>

\* Somebody else has sent it, or is sending it.
Skip(s, m) ==
  LET n == <<sender[s].kind, m>> IN
    /\ sender[s].pc = "next"
    /\ m \in sender[s].todo
    /\ log[n] # None
    /\ ~Expired(n)
    /\ sender' = [sender EXCEPT ![s].todo = @ \ {m}]
    /\ UNCHANGED <<leave, log, told, excused, faults>>

Finish(s) ==
  /\ sender[s].pc = "next"
  /\ sender[s].todo = {}
  /\ sender' = [sender EXCEPT ![s] = Idle]
  /\ UNCHANGED <<leave, log, told, excused, faults>>

PushDelivered(s) ==
  /\ sender[s].pc = "push"
  /\ told' = [told EXCEPT ![NoticeOf(sender[s])] = @ + 1]
  /\ sender' = [sender EXCEPT ![s].pc = "sent"]
  /\ UNCHANGED <<leave, log, excused, faults>>

PushFails(s) ==
  /\ sender[s].pc = "push"
  /\ sender' = [sender EXCEPT ![s].pc = "failed"]
  /\ UNCHANGED <<leave, log, told, excused, faults>>

\* LINE delivers the message, but its answer does not arrive.
PushUnanswered(s) ==
  /\ Fault
  /\ sender[s].pc = "push"
  /\ told' = [told EXCEPT ![NoticeOf(sender[s])] = @ + 1]
  /\ excused' = [excused EXCEPT ![NoticeOf(sender[s])] = @ + 1]
  /\ sender' = [sender EXCEPT ![s].pc = "failed"]
  /\ UNCHANGED <<leave, log>>

Onward(q) == [pc |-> "next", kind |-> q.kind, todo |-> q.todo, text |-> q.text]

\* The row is marked sent, whoever holds it by now; it may also be gone.
MarkSent(s) ==
  LET n == NoticeOf(sender[s]) IN
    /\ sender[s].pc = "sent"
    /\ log' = IF log[n] = None THEN log ELSE [log EXCEPT ![n].sent = TRUE]
    /\ sender' = [sender EXCEPT ![s] = Onward(@)]
    /\ UNCHANGED <<leave, told, excused, faults>>

\* Marking the row fails: what was delivered is treated like a push that failed.
MarkFails(s) ==
  /\ Fault
  /\ sender[s].pc = "sent"
  /\ excused' = [excused EXCEPT ![NoticeOf(sender[s])] = @ + 1]
  /\ sender' = [sender EXCEPT ![s].pc = "failed"]
  /\ UNCHANGED <<leave, log, told>>

\* Fault: the row is given up without comparing claimedAt.
OwnClaim_AnyClaim(s, n) == log[n] # None /\ ~log[n].sent

\* The claim is still the one this sender made, and was not marked sent.
OwnClaim(s, n) == log[n] # None /\ log[n].by = s /\ ~log[n].sent

GiveUp(s) ==
  LET n == NoticeOf(sender[s]) IN
    /\ sender[s].pc = "failed"
    /\ log' = IF OwnClaim(s, n) THEN [log EXCEPT ![n] = None] ELSE log
    /\ sender' = [sender EXCEPT ![s] = Onward(@)]
    /\ UNCHANGED <<leave, told, excused, faults>>

Holder(s, n) == sender[s].pc \in {"push", "sent", "failed"} /\ NoticeOf(sender[s]) = n

\* Five minutes have passed since the notice was claimed, and its sender, if the
\* process has not stopped, is still at it.
Lapse(n) ==
  /\ log[n] # None
  /\ ~log[n].old
  /\ ~log[n].sent
  /\ log' = [log EXCEPT ![n].old = TRUE]
  /\ IF Holder(log[n].by, n)
       THEN Fault /\ sender' = [sender EXCEPT ![log[n].by].lapsed = TRUE]
       ELSE UNCHANGED <<sender, faults>>
  /\ excused' = [excused EXCEPT ![n] = @ + 1]
  /\ UNCHANGED <<leave, told>>

Crash ==
  /\ Fault
  /\ sender' = [s \in Senders |-> Idle]
  /\ UNCHANGED <<leave, log, told, excused>>

-----------------------------------------------------------------------------
Send(s) ==
  \/ \E m \in Members \cup {Applicant} : Claim(s, m) \/ Skip(s, m)
  \/ Finish(s)
  \/ PushDelivered(s)
  \/ PushFails(s)
  \/ PushUnanswered(s)
  \/ MarkSent(s)
  \/ MarkFails(s)
  \/ GiveUp(s)

Next ==
  \/ \E s \in Senders :
       \/ \E sick, owner \in BOOLEAN : Create(s, sick, owner)
       \/ \E verdict \in Verdicts : ReadForDecision(s, verdict)
       \/ Decide(s)
       \/ ReadForCancel(s)
       \/ Cancel(s)
       \/ Announce(s)
       \/ Send(s)
  \/ \E n \in Notices : Lapse(n)
  \/ Crash

\* A request or job run that was started goes on, the job runs again and again, a claim
\* left behind grows old, and no colleague's notice fails for ever. Nobody need apply,
\* decide or cancel.
Fairness ==
  /\ \A s \in Senders : WF_vars(Decide(s) \/ Cancel(s) \/ Send(s))
  /\ WF_vars(\E s \in Senders : Announce(s))
  /\ \A m \in Members : LET n == <<"sick", m>> IN
       /\ WF_vars(Lapse(n))
       /\ SF_vars(\E s \in Senders : Holder(s, n) /\ PushDelivered(s))

Spec == Init /\ [][Next]_vars /\ Fairness

-----------------------------------------------------------------------------
\* Every variable has its type.
TypeOK ==
  /\ leave \in [status : {"none", "PENDING", "deleted"} \cup Verdicts, sick : BOOLEAN]
  /\ log \in [Notices -> Claims \cup {None}]
  /\ sender \in [Senders -> {Idle} \cup Deciding \cup Cancelling \cup Sending \cup Pushing]
  /\ \A s \in Senders : sender[s].pc \in {"push", "sent", "failed"} => NoticeOf(sender[s]) \in Notices
  /\ told \in [Notices -> Nat]
  /\ excused \in [Notices -> Nat]
  /\ faults \in 0 .. MaxFaults

\* A sender loses the notice it is sending only by taking more than five minutes: a job
\* run, another request or a sender that gives up late cannot take the claim from it
\* (sendOnce's lease, and its deletes that compare claimedAt).
ClaimsAreLostOnlyByLapse ==
  \A s \in Senders : \A n \in Notices :
    Holder(s, n) /\ ~sender[s].lapsed => log[n] # None /\ log[n].by = s

\* A notice is repeated only after a lease lapsed, an answer was lost or a delivery could
\* not be recorded; in particular one marked sent never goes out again, however often the
\* job runs (sendOnce).
NoticeIsNotRepeated ==
  \A n \in Notices : told[n] <= 1 + excused[n]

\* The applicant is told the verdict that stands: when two approvers decide at once,
\* the one whose decision was not written announces nothing (decide).
AnnouncedVerdictStands ==
  \A m \in To("decision") :
    log[<<"decision", m>>] # None => leave.status \in {log[<<"decision", m>>].text, "deleted"}

\* Sick leave becomes known to every colleague unless it is cancelled first: a push that
\* failed is repeated by the job, and a claim left behind by a process that stopped is
\* taken over (sendSick, sendNotices).
SickLeaveIsAnnounced ==
  \A m \in Members :
    leave.sick /\ leave.status = "APPROVED" ~> leave.status = "deleted" \/ told[<<"sick", m>>] > 0
=============================================================================
