------------------------- MODULE LeaveNoticesProofs -------------------------
(***************************************************************************)
(* Proofs about LeaveNotices, for any senders, colleagues and approvers,   *)
(* and any number of faults.                                               *)
(***************************************************************************)
EXTENDS LeaveNotices, FiniteSetTheorems, TLAPS

Activities == {Idle} \cup Deciding \cup Cancelling \cup Sending \cup Pushing

Busy(s) == sender[s].pc \in {"next", "push", "sent", "failed"}

\* Who is still to get a notice is among those it is for.
ListsAreAddressed == \A s \in Senders : Busy(s) => sender[s].todo \subseteq To(sender[s].kind)

\* A sender that is within its lease holds the notice's row, and the row is fresh.
HoldersHoldClaims ==
  \A s \in Senders : \A n \in Notices :
    Holder(s, n) /\ ~sender[s].lapsed => log[n] # None /\ log[n].by = s /\ ~log[n].old

\* Whoever announces a verdict announces the one that stands.
SendersTellTheVerdict ==
  \A s \in Senders : Busy(s) /\ sender[s].kind = "decision" =>
    sender[s].text \in Verdicts /\ leave.status \in {sender[s].text, "deleted"}

\* So does the row of a notice of the decision.
RowsTellTheVerdict ==
  \A m \in To("decision") : LET n == <<"decision", m>> IN
    log[n] # None => log[n].text \in Verdicts /\ leave.status \in {log[n].text, "deleted"}

\* The senders that may yet deliver the notice, or make it possible by giving up.
Pending(n) ==
  {s \in Senders : Holder(s, n) /\ (sender[s].pc = "push" \/ (sender[s].pc = "failed" /\ OwnClaim(s, n)))}

\* How often the notice may have been delivered: a row that nobody may take over
\* stands for one delivery.
Allowed(n) == IF log[n] = None \/ Expired(n) THEN excused[n] ELSE 1 + excused[n]

Within(n) == IsFiniteSet(Pending(n)) /\ told[n] + Cardinality(Pending(n)) <= Allowed(n)

DeliveriesAreAllowed == \A n \in Notices : Within(n)

IInv ==
  /\ TypeOK
  /\ ListsAreAddressed
  /\ HoldersHoldClaims
  /\ SendersTellTheVerdict
  /\ RowsTellTheVerdict
  /\ DeliveriesAreAllowed

-----------------------------------------------------------------------------
\* The initial state satisfies the invariant.
LEMMA InitIInv == Init => IInv
  <1> SUFFICES ASSUME Init PROVE IInv
    OBVIOUS
  <1> USE DEF Init
  <1>1. TypeOK
    BY NoticeAssumption DEF TypeOK, Idle
  <1>2. \A s \in Senders : ~Busy(s) /\ \A n \in Notices : ~Holder(s, n)
    BY DEF Busy, Holder, Idle
  <1>3. ListsAreAddressed /\ HoldersHoldClaims /\ SendersTellTheVerdict
    BY <1>2 DEF ListsAreAddressed, HoldersHoldClaims, SendersTellTheVerdict
  <1>4. RowsTellTheVerdict
    BY DEF RowsTellTheVerdict, Notices, Kinds
  <1>5. DeliveriesAreAllowed
    <2> SUFFICES ASSUME NEW n \in Notices
                 PROVE  Within(n)
      BY DEF DeliveriesAreAllowed
    <2>1. Pending(n) = {}
      BY <1>2 DEF Pending
    <2> QED BY <2>1, FS_EmptySet DEF Within, Allowed
  <1> QED BY <1>1, <1>3, <1>4, <1>5 DEF IInv

\* What a sender's program counter says about its record.
LEMMA ActivityTypes ==
  ASSUME TypeOK, NEW s \in Senders
  PROVE  /\ sender[s].pc = "decide" => sender[s] \in Deciding
         /\ sender[s].pc = "cancel" => sender[s] \in Cancelling
         /\ sender[s].pc = "next" => sender[s] \in Sending
         /\ sender[s].pc \in {"push", "sent", "failed"} =>
              sender[s] \in Pushing /\ NoticeOf(sender[s]) \in Notices
  BY DEF TypeOK, Idle, Deciding, Cancelling, Sending, Pushing

\* Every kind of notice has its recipients.
LEMMA Recipients ==
  ASSUME NEW kind \in Kinds
  PROVE  /\ To(kind) \subseteq Members \cup {Applicant}
         /\ \A m \in To(kind) : <<kind, m>> \in Notices
  BY NoticeAssumption DEF To, Kinds, Notices

\* A sender whose new record is well typed keeps all of them so.
LEMMA NewActivity ==
  ASSUME TypeOK, NEW s \in Senders, NEW q \in Activities,
         q.pc \in {"push", "sent", "failed"} => NoticeOf(q) \in Notices,
         sender' = [sender EXCEPT ![s] = q]
  PROVE  /\ sender' \in [Senders -> Activities]
         /\ \A t \in Senders : sender'[t].pc \in {"push", "sent", "failed"} => NoticeOf(sender'[t]) \in Notices
  BY DEF TypeOK, Activities

\* A sender that begins to send is well typed.
LEMMA SendsTypes ==
  ASSUME NEW kind \in Kinds, NEW text \in Verdicts \cup {None}
  PROVE  Sends(kind, text) \in Activities /\ Sends(kind, text).pc = "next"
  BY Recipients DEF Sends, Activities, Sending

\* Every step keeps every variable in its type, and every list of recipients addressed.
LEMMA StepTypeOK == IInv /\ [Next]_vars => TypeOK' /\ ListsAreAddressed'
  <1> SUFFICES ASSUME IInv, [Next]_vars PROVE TypeOK' /\ ListsAreAddressed'
    OBVIOUS
  <1> USE DEF IInv
  <1>1. ASSUME NEW s \in Senders, NEW sick \in BOOLEAN, NEW owner \in BOOLEAN, Create(s, sick, owner)
        PROVE  TypeOK' /\ ListsAreAddressed'
    <2>1. /\ Sends("sick", None) \in Activities /\ Sends("sick", None).pc = "next"
          /\ Sends("request", None) \in Activities /\ Sends("request", None).pc = "next"
          /\ Idle \in Activities /\ Idle.pc = "idle"
      BY SendsTypes DEF Kinds, Activities, Idle
    <2> DEFINE q == IF sick THEN Sends("sick", None) ELSE IF owner THEN Idle ELSE Sends("request", None)
    <2>2. q \in Activities /\ q.pc \notin {"push", "sent", "failed"} /\ sender' = [sender EXCEPT ![s] = q]
      BY <1>1, <2>1 DEF Create
    <2>3. leave' \in [status : {"none", "PENDING", "deleted"} \cup Verdicts, sick : BOOLEAN]
      BY <1>1 DEF Create, TypeOK, Verdicts
    <2>4. TypeOK'
      BY <1>1, <2>2, <2>3, NewActivity DEF Create, TypeOK, Activities
    <2>5. ListsAreAddressed'
      BY <1>1, <2>2 DEF Create, TypeOK, ListsAreAddressed, Busy, Sends, Idle
    <2> QED BY <2>4, <2>5
  <1>2. ASSUME NEW s \in Senders, NEW verdict \in Verdicts, ReadForDecision(s, verdict)
        PROVE  TypeOK' /\ ListsAreAddressed'
    <2> DEFINE q == [pc |-> "decide", verdict |-> verdict]
    <2>1. q \in Activities /\ q.pc \notin {"push", "sent", "failed"} /\ sender' = [sender EXCEPT ![s] = q]
      BY <1>2 DEF ReadForDecision, Activities, Deciding
    <2> QED BY <1>2, <2>1, NewActivity DEF ReadForDecision, TypeOK, Activities, ListsAreAddressed, Busy
  <1>3. ASSUME NEW s \in Senders, Decide(s) PROVE TypeOK' /\ ListsAreAddressed'
    <2>1. sender[s].verdict \in Verdicts
      BY <1>3, ActivityTypes DEF Decide, Deciding
    <2> DEFINE q == IF StillPending THEN Sends("decision", sender[s].verdict) ELSE Idle
    <2>2. Sends("decision", sender[s].verdict) \in Activities /\ Sends("decision", sender[s].verdict).pc = "next"
      BY <2>1, SendsTypes DEF Kinds
    <2>3. q \in Activities /\ q.pc \notin {"push", "sent", "failed"} /\ sender' = [sender EXCEPT ![s] = q]
      BY <1>3, <2>2 DEF Decide, Activities, Idle
    <2>4. TypeOK'
      BY <1>3, <2>1, <2>3, NewActivity DEF Decide, TypeOK, Activities
    <2>5. ListsAreAddressed'
      BY <1>3, <2>3 DEF TypeOK, ListsAreAddressed, Busy, Sends, Idle
    <2> QED BY <2>4, <2>5
  <1>4. ASSUME NEW s \in Senders, ReadForCancel(s) PROVE TypeOK' /\ ListsAreAddressed'
    <2> DEFINE q == [pc |-> "cancel", approved |-> leave.status = "APPROVED"]
    <2>1. q \in Activities /\ q.pc \notin {"push", "sent", "failed"} /\ sender' = [sender EXCEPT ![s] = q]
      BY <1>4 DEF ReadForCancel, Activities, Cancelling
    <2> QED BY <1>4, <2>1, NewActivity DEF ReadForCancel, TypeOK, Activities, ListsAreAddressed, Busy
  <1>5. ASSUME NEW s \in Senders, Cancel(s) PROVE TypeOK' /\ ListsAreAddressed'
    <2>1. Sends("cancel", None) \in Activities /\ Sends("cancel", None).pc = "next"
      BY SendsTypes DEF Kinds
    <2> DEFINE q == IF leave.status # "deleted" /\ sender[s].approved THEN Sends("cancel", None) ELSE Idle
    <2>2. q \in Activities /\ q.pc \notin {"push", "sent", "failed"} /\ sender' = [sender EXCEPT ![s] = q]
      BY <1>5, <2>1 DEF Cancel, Activities, Idle
    <2>3. TypeOK'
      BY <1>5, <2>2, NewActivity DEF Cancel, TypeOK, Activities
    <2>4. ListsAreAddressed'
      BY <1>5, <2>2 DEF TypeOK, ListsAreAddressed, Busy, Sends, Idle
    <2> QED BY <2>3, <2>4
  <1>6. ASSUME NEW s \in Senders, Announce(s) PROVE TypeOK' /\ ListsAreAddressed'
    <2>1. Sends("sick", None) \in Activities /\ Sends("sick", None).pc = "next"
      BY SendsTypes DEF Kinds
    <2>2. TypeOK'
      BY <1>6, <2>1, NewActivity DEF Announce, TypeOK, Activities
    <2>3. ListsAreAddressed'
      BY <1>6, <2>1 DEF Announce, TypeOK, ListsAreAddressed, Busy, Sends
    <2> QED BY <2>2, <2>3
  <1>7. ASSUME NEW s \in Senders, NEW m \in Members \cup {Applicant}, Claim(s, m)
        PROVE  TypeOK' /\ ListsAreAddressed'
    <2>1. sender[s] \in Sending /\ m \in To(sender[s].kind) /\ sender[s].todo \subseteq To(sender[s].kind)
      BY <1>7, ActivityTypes DEF Claim, ListsAreAddressed, Busy
    <2> DEFINE q == [pc |-> "push", kind |-> sender[s].kind, todo |-> sender[s].todo \ {m},
                     text |-> sender[s].text, to |-> m, lapsed |-> FALSE]
               n == <<sender[s].kind, m>>
    <2>2. q \in Activities /\ sender' = [sender EXCEPT ![s] = q] /\ NoticeOf(q) = n
      BY <1>7, <2>1 DEF Claim, Sending, Pushing, Activities, NoticeOf
    <2>3. n \in Notices
      BY <2>1, Recipients DEF Sending
    <2>4. [by |-> s, old |-> FALSE, sent |-> FALSE, text |-> sender[s].text] \in Claims
      BY <2>1 DEF Sending, Claims
    <2>5. log' \in [Notices -> Claims \cup {None}]
      BY <1>7, <2>3, <2>4 DEF Claim, TypeOK
    <2>6. /\ sender' \in [Senders -> Activities]
          /\ \A t \in Senders : sender'[t].pc \in {"push", "sent", "failed"} => NoticeOf(sender'[t]) \in Notices
      <3> HIDE DEF q
      <3> QED BY <2>2, <2>3, NewActivity
    <2>7. TypeOK'
      BY <1>7, <2>5, <2>6 DEF Claim, TypeOK, Activities
    <2>8. ListsAreAddressed'
      BY <2>1, <2>2 DEF TypeOK, ListsAreAddressed, Busy
    <2> QED BY <2>7, <2>8
  <1>8. ASSUME NEW s \in Senders, NEW m \in Members \cup {Applicant}, Skip(s, m)
        PROVE  TypeOK' /\ ListsAreAddressed'
    <2>1. sender[s] \in Sending /\ sender[s].todo \subseteq To(sender[s].kind)
      BY <1>8, ActivityTypes DEF Skip, ListsAreAddressed, Busy
    <2> DEFINE q == [sender[s] EXCEPT !.todo = sender[s].todo \ {m}]
    <2>2. q \in Sending /\ q.kind = sender[s].kind /\ q.todo = sender[s].todo \ {m}
      BY <2>1 DEF Sending
    <2>3. q \in Activities /\ q.pc = "next" /\ sender' = [sender EXCEPT ![s] = q]
      BY <1>8, <2>2 DEF Skip, Sending, Activities
    <2>4. TypeOK'
      BY <1>8, <2>3, NewActivity DEF Skip, TypeOK, Activities
    <2>5. ListsAreAddressed'
      BY <2>1, <2>2, <2>3 DEF TypeOK, ListsAreAddressed, Busy
    <2> QED BY <2>4, <2>5
  <1>9. ASSUME NEW s \in Senders, Finish(s) PROVE TypeOK' /\ ListsAreAddressed'
    <2>1. Idle \in Activities /\ Idle.pc = "idle" /\ sender' = [sender EXCEPT ![s] = Idle]
      BY <1>9 DEF Finish, Activities, Idle
    <2> QED BY <1>9, <2>1, NewActivity DEF Finish, TypeOK, Activities, ListsAreAddressed, Busy
  <1>10. ASSUME NEW s \in Senders, PushDelivered(s) \/ PushFails(s) \/ PushUnanswered(s) \/ MarkFails(s)
         PROVE  TypeOK' /\ ListsAreAddressed'
    <2>1. sender[s] \in Pushing /\ NoticeOf(sender[s]) \in Notices
      BY <1>10, ActivityTypes DEF PushDelivered, PushFails, PushUnanswered, MarkFails
    <2>2. PICK pc \in {"sent", "failed"} : sender' = [sender EXCEPT ![s] = [sender[s] EXCEPT !.pc = pc]]
      BY <1>10 DEF PushDelivered, PushFails, PushUnanswered, MarkFails
    <2> DEFINE q == [sender[s] EXCEPT !.pc = pc]
    <2>3. q \in Pushing /\ q.kind = sender[s].kind /\ q.todo = sender[s].todo /\ q.to = sender[s].to /\ q.pc = pc
      BY <2>1 DEF Pushing
    <2>4. q \in Activities /\ NoticeOf(q) = NoticeOf(sender[s])
      BY <2>3 DEF Activities, NoticeOf
    <2>5. told' \in [Notices -> Nat] /\ excused' \in [Notices -> Nat] /\ faults' \in 0 .. MaxFaults
      BY <1>10, <2>1, NoticeAssumption DEF PushDelivered, PushFails, PushUnanswered, MarkFails, Fault, TypeOK
    <2>6. TypeOK'
      BY <1>10, <2>1, <2>2, <2>4, <2>5, NewActivity
         DEF PushDelivered, PushFails, PushUnanswered, MarkFails, TypeOK, Activities
    <2>7. ListsAreAddressed'
      BY <1>10, <2>2, <2>3 DEF TypeOK, ListsAreAddressed, Busy, PushDelivered, PushFails, PushUnanswered, MarkFails
    <2> QED BY <2>6, <2>7
  <1>11. ASSUME NEW s \in Senders, MarkSent(s) \/ GiveUp(s) PROVE TypeOK' /\ ListsAreAddressed'
    <2>1. sender[s] \in Pushing /\ NoticeOf(sender[s]) \in Notices
      BY <1>11, ActivityTypes DEF MarkSent, GiveUp
    <2> DEFINE q == Onward(sender[s])
    <2>2. q \in Activities /\ q.pc = "next" /\ q.kind = sender[s].kind /\ q.todo = sender[s].todo
      BY <2>1 DEF Onward, Pushing, Sending, Activities
    <2>3. sender' = [sender EXCEPT ![s] = q]
      BY <1>11 DEF MarkSent, GiveUp
    <2>4. log' \in [Notices -> Claims \cup {None}]
      <3>1. CASE MarkSent(s)
        BY <2>1, <3>1 DEF MarkSent, TypeOK, Claims
      <3>2. CASE GiveUp(s)
        BY <2>1, <3>2 DEF GiveUp, TypeOK
      <3> QED BY <1>11, <3>1, <3>2
    <2>5. TypeOK'
      BY <1>11, <2>2, <2>3, <2>4, NewActivity DEF MarkSent, GiveUp, TypeOK, Activities
    <2>6. ListsAreAddressed'
      BY <1>11, <2>2, <2>3 DEF TypeOK, ListsAreAddressed, Busy, MarkSent, GiveUp
    <2> QED BY <2>5, <2>6
  <1>12. ASSUME NEW n \in Notices, Lapse(n) PROVE TypeOK' /\ ListsAreAddressed'
    <2>1. log[n] \in Claims /\ log' \in [Notices -> Claims \cup {None}]
      BY <1>12 DEF Lapse, TypeOK, Claims
    <2>2. excused' \in [Notices -> Nat] /\ leave' = leave /\ told' = told
      BY <1>12 DEF Lapse, TypeOK
    <2>3. CASE ~Holder(log[n].by, n)
      BY <1>12, <2>1, <2>2, <2>3 DEF Lapse, TypeOK, ListsAreAddressed, Busy
    <2>4. CASE Holder(log[n].by, n)
      <3> DEFINE s == log[n].by
                 q == [sender[s] EXCEPT !.lapsed = TRUE]
      <3>1. s \in Senders /\ sender[s] \in Pushing /\ NoticeOf(sender[s]) \in Notices
        BY <2>1, <2>4, ActivityTypes DEF Claims, Holder
      <3>2. /\ q \in Pushing /\ q.kind = sender[s].kind /\ q.todo = sender[s].todo
            /\ q.to = sender[s].to /\ q.pc = sender[s].pc
        BY <3>1 DEF Pushing
      <3>3. q \in Activities /\ NoticeOf(q) = NoticeOf(sender[s])
        BY <3>2 DEF Activities, NoticeOf
      <3>4. sender' = [sender EXCEPT ![s] = q] /\ faults' \in 0 .. MaxFaults
        BY <1>12, <2>4, NoticeAssumption DEF Lapse, Fault, TypeOK
      <3>5. TypeOK'
        BY <2>1, <2>2, <3>1, <3>3, <3>4, NewActivity DEF TypeOK, Activities
      <3>6. ListsAreAddressed'
        BY <3>1, <3>2, <3>4 DEF TypeOK, ListsAreAddressed, Busy
      <3> QED BY <3>5, <3>6
    <2> QED BY <2>3, <2>4
  <1>13. CASE Crash
    BY <1>13, NoticeAssumption DEF Crash, Fault, TypeOK, ListsAreAddressed, Busy, Idle
  <1>14. CASE UNCHANGED vars
    BY <1>14 DEF vars, TypeOK, ListsAreAddressed, Busy, NoticeOf
  <1> QED BY <1>1, <1>2, <1>3, <1>4, <1>5, <1>6, <1>7, <1>8, <1>9, <1>10, <1>11, <1>12, <1>13, <1>14 DEF Next, Send

-----------------------------------------------------------------------------
\* The senders at a notice.
AtWork(q) == q.pc \in {"push", "sent", "failed"}

\* A step that only changes what senders do that are not at a notice.
LEMMA Elsewhere ==
  ASSUME TypeOK, HoldersHoldClaims, DeliveriesAreAllowed,
         NEW s \in Senders, NEW q, sender' = [sender EXCEPT ![s] = q], ~AtWork(sender[s]), ~AtWork(q),
         UNCHANGED <<log, told, excused>>
  PROVE  HoldersHoldClaims' /\ DeliveriesAreAllowed'
  <1>1. \A t \in Senders : \A n \in Notices : Holder(t, n)' => Holder(t, n) /\ sender'[t] = sender[t]
    BY DEF TypeOK, Holder, AtWork, NoticeOf
  <1>2. \A t \in Senders : \A n \in Notices : Holder(t, n) => Holder(t, n)' /\ sender'[t] = sender[t]
    BY DEF TypeOK, Holder, AtWork, NoticeOf
  <1>3. HoldersHoldClaims'
    BY <1>1 DEF HoldersHoldClaims
  <1>4. ASSUME NEW n \in Notices PROVE Within(n)'
    <2>1. Pending(n)' = Pending(n)
      BY <1>1, <1>2 DEF Pending, OwnClaim
    <2> QED BY <2>1 DEF DeliveriesAreAllowed, Within, Allowed, Expired
  <1> QED BY <1>3, <1>4 DEF DeliveriesAreAllowed

\* A sender within its lease keeps its claim.
LEMMA StepHolders ==
  ASSUME IInv, [Next]_vars
  PROVE  HoldersHoldClaims'
  <1> USE DEF IInv
  <1>1. ASSUME NEW s \in Senders, NEW q, sender' = [sender EXCEPT ![s] = q], ~AtWork(sender[s]), ~AtWork(q),
               UNCHANGED <<log, told, excused>>
        PROVE  HoldersHoldClaims'
    BY <1>1, Elsewhere
  <1>2. ASSUME NEW s \in Senders, NEW sick \in BOOLEAN, NEW owner \in BOOLEAN, Create(s, sick, owner)
        PROVE  HoldersHoldClaims'
    <2> DEFINE q == IF sick THEN Sends("sick", None) ELSE IF owner THEN Idle ELSE Sends("request", None)
    <2>1. sender' = [sender EXCEPT ![s] = q] /\ UNCHANGED <<log, told, excused>>
      BY <1>2 DEF Create
    <2>2. ~AtWork(sender[s]) /\ ~AtWork(q)
      BY <1>2 DEF Create, AtWork, Idle, Sends
    <2> HIDE DEF q
    <2> QED BY <1>1, <2>1, <2>2
  <1>3. ASSUME NEW s \in Senders, NEW verdict \in Verdicts, ReadForDecision(s, verdict)
        PROVE  HoldersHoldClaims'
    <2> DEFINE q == [pc |-> "decide", verdict |-> verdict]
    <2>1. sender' = [sender EXCEPT ![s] = q] /\ UNCHANGED <<log, told, excused>>
      BY <1>3 DEF ReadForDecision
    <2>2. ~AtWork(sender[s]) /\ ~AtWork(q)
      BY <1>3 DEF ReadForDecision, AtWork, Idle
    <2> HIDE DEF q
    <2> QED BY <1>1, <2>1, <2>2
  <1>4. ASSUME NEW s \in Senders, Decide(s) \/ ReadForCancel(s) \/ Cancel(s) \/ Announce(s) \/ Finish(s)
        PROVE  HoldersHoldClaims'
    BY <1>1, <1>4 DEF Decide, ReadForCancel, Cancel, Announce, Finish, AtWork, Idle, Sends
  <1>5. ASSUME NEW s \in Senders, NEW m \in Members \cup {Applicant}, Skip(s, m) PROVE HoldersHoldClaims'
    <2>1. sender[s] \in Sending
      BY <1>5, ActivityTypes DEF Skip
    <2>2. [sender[s] EXCEPT !.todo = sender[s].todo \ {m}].pc = "next"
      BY <1>5, <2>1 DEF Skip, Sending
    <2> QED BY <1>1, <1>5, <2>2 DEF Skip, AtWork
  <1>6. ASSUME NEW s \in Senders, NEW m \in Members \cup {Applicant}, Claim(s, m) PROVE HoldersHoldClaims'
    <2> SUFFICES ASSUME NEW t \in Senders, NEW n \in Notices, Holder(t, n)', ~sender'[t].lapsed
                 PROVE  log'[n] # None /\ log'[n].by = t /\ ~log'[n].old
      BY DEF HoldersHoldClaims
    <2> DEFINE nn == <<sender[s].kind, m>>
    <2>1. nn \in Notices /\ sender[s].text \in Verdicts \cup {None}
      BY <1>6, ActivityTypes, Recipients DEF Claim, Sending, ListsAreAddressed, Busy
    <2>2. log'[nn] # None /\ log'[nn].by = s /\ ~log'[nn].old /\ \A x \in Notices \ {nn} : log'[x] = log[x]
      <3>1. [by |-> s, old |-> FALSE, sent |-> FALSE, text |-> sender[s].text] \in Claims
        BY <2>1 DEF Claims
      <3> QED BY <1>6, <2>1, <3>1, NoneAssumption DEF Claim, TypeOK
    <2>3. CASE t = s
      BY <1>6, <2>2, <2>3 DEF Claim, TypeOK, Holder, NoticeOf
    <2>4. CASE t # s
      <3>1. Holder(t, n) /\ ~sender[t].lapsed
        BY <1>6, <2>4 DEF Claim, TypeOK, Holder, NoticeOf
      <3>2. log[n] # None /\ log[n].by = t /\ ~log[n].old
        BY <3>1 DEF HoldersHoldClaims
      <3>3. n # nn
        BY <1>6, <3>2 DEF Claim, Expired
      <3> QED BY <2>2, <3>2, <3>3
    <2> QED BY <2>3, <2>4
  <1>7. ASSUME NEW s \in Senders, PushDelivered(s) \/ PushFails(s) \/ PushUnanswered(s) \/ MarkFails(s)
        PROVE  HoldersHoldClaims'
    <2>1. sender[s] \in Pushing /\ sender[s].pc \in {"push", "sent"} /\ log' = log
      BY <1>7, ActivityTypes DEF PushDelivered, PushFails, PushUnanswered, MarkFails
    <2>2. PICK pc \in {"sent", "failed"} : sender' = [sender EXCEPT ![s] = [sender[s] EXCEPT !.pc = pc]]
      BY <1>7 DEF PushDelivered, PushFails, PushUnanswered, MarkFails
    <2>3. \A t \in Senders : \A n \in Notices :
            Holder(t, n)' /\ ~sender'[t].lapsed => Holder(t, n) /\ ~sender[t].lapsed
      BY <2>1, <2>2 DEF TypeOK, Pushing, Holder, NoticeOf
    <2> QED BY <2>1, <2>3 DEF HoldersHoldClaims
  <1>8. ASSUME NEW s \in Senders, MarkSent(s) \/ GiveUp(s) PROVE HoldersHoldClaims'
    <2> SUFFICES ASSUME NEW t \in Senders, NEW n \in Notices, Holder(t, n)', ~sender'[t].lapsed
                 PROVE  log'[n] # None /\ log'[n].by = t /\ ~log'[n].old
      BY DEF HoldersHoldClaims
    <2>1. t # s /\ sender'[t] = sender[t]
      BY <1>8 DEF MarkSent, GiveUp, Onward, TypeOK, Holder
    <2>2. log[n] # None /\ log[n].by = t /\ ~log[n].old /\ log[n] \in Claims
      BY <2>1 DEF HoldersHoldClaims, Holder, NoticeOf, TypeOK
    <2>3. CASE MarkSent(s)
      <3>1. log'[n] = log[n] \/ log'[n] = [log[n] EXCEPT !.sent = TRUE]
        BY <2>3 DEF MarkSent, TypeOK
      <3>2. [log[n] EXCEPT !.sent = TRUE] \in Claims
        BY <2>2 DEF Claims
      <3> QED BY <2>2, <3>1, <3>2, NoneAssumption DEF Claims
    <2>4. CASE GiveUp(s)
      <3>1. log'[n] = log[n]
        BY <2>1, <2>2, <2>4 DEF GiveUp, OwnClaim, TypeOK
      <3> QED BY <2>2, <3>1
    <2> QED BY <1>8, <2>3, <2>4
  <1>9. ASSUME NEW x \in Notices, Lapse(x) PROVE HoldersHoldClaims'
    <2> SUFFICES ASSUME NEW t \in Senders, NEW n \in Notices, Holder(t, n)', ~sender'[t].lapsed
                 PROVE  log'[n] # None /\ log'[n].by = t /\ ~log'[n].old
      BY DEF HoldersHoldClaims
    <2> DEFINE s == log[x].by
    <2>1. s \in Senders
      BY <1>9 DEF Lapse, TypeOK, Claims
    <2>2. \/ sender' = sender /\ ~Holder(s, x)
          \/ sender' = [sender EXCEPT ![s] = [sender[s] EXCEPT !.lapsed = TRUE]] /\ Holder(s, x)
      BY <1>9 DEF Lapse
    <2>3. Holder(t, n) /\ ~sender[t].lapsed /\ ~(t = s /\ Holder(s, x))
      <3>1. Holder(s, x) => sender[s] \in Pushing
        BY <2>1, ActivityTypes DEF Holder
      <3> QED BY <2>1, <2>2, <3>1 DEF TypeOK, Pushing, Holder, NoticeOf
    <2>4. log[n] # None /\ log[n].by = t /\ ~log[n].old
      BY <2>3 DEF HoldersHoldClaims
    <2>5. n # x
      BY <2>3, <2>4
    <2> QED BY <1>9, <2>4, <2>5 DEF Lapse, TypeOK
  <1>10. CASE Crash
    BY <1>10 DEF Crash, HoldersHoldClaims, Holder, Idle, TypeOK
  <1>11. CASE UNCHANGED vars
    BY <1>11 DEF vars, HoldersHoldClaims, Holder, NoticeOf
  <1> QED BY <1>2, <1>3, <1>4, <1>5, <1>6, <1>7, <1>8, <1>9, <1>10, <1>11 DEF Next, Send

\* The texts stand: only a decision that was written is announced.
LEMMA StepVerdict ==
  ASSUME IInv, [Next]_vars
  PROVE  SendersTellTheVerdict' /\ RowsTellTheVerdict'
  <1> USE DEF IInv
  <1> DEFINE Standing(text, status) == text \in Verdicts /\ status \in {text, "deleted"}
  <1>0. /\ \A s \in Senders : Busy(s) /\ sender[s].kind = "decision" => Standing(sender[s].text, leave.status)
        /\ \A m \in To("decision") : log[<<"decision", m>>] # None
             => Standing(log[<<"decision", m>>].text, leave.status)
    BY DEF SendersTellTheVerdict, RowsTellTheVerdict
  <1>1. /\ leave.status # "deleted" => leave'.status = leave.status \/ leave'.status = "deleted"
                                         \/ leave.status \in {"none", "PENDING"}
        /\ leave.status = "deleted" => leave'.status = "deleted"
    <2>1. leave'.status = leave.status \/ leave'.status = "deleted" \/ leave.status \in {"none", "PENDING"}
      BY DEF Next, Send, vars, Create, ReadForDecision, Decide, ReadForCancel, Cancel, Announce, Claim, Skip,
             Finish, PushDelivered, PushFails, PushUnanswered, MarkFails, MarkSent, GiveUp, Lapse, Crash, StillPending, TypeOK
    <2> QED BY <2>1
  <1>2. \A text : Standing(text, leave.status) => Standing(text, leave'.status)
    BY <1>1 DEF Verdicts
  <1>3. SendersTellTheVerdict'
    <2> SUFFICES ASSUME NEW t \in Senders, Busy(t)', sender'[t].kind = "decision"
                 PROVE  Standing(sender'[t].text, leave'.status)
      BY DEF SendersTellTheVerdict
    <2>1. \/ Busy(t) /\ sender[t].kind = "decision" /\ sender[t].text = sender'[t].text
          \/ Decide(t) /\ StillPending
      <3> DEFINE Same == Busy(t) /\ sender[t].kind = "decision" /\ sender[t].text = sender'[t].text
      <3>1. ASSUME NEW s \in Senders, \/ \E sick, owner \in BOOLEAN : Create(s, sick, owner)
                                      \/ \E verdict \in Verdicts : ReadForDecision(s, verdict)
                                      \/ ReadForCancel(s) \/ Cancel(s) \/ Announce(s) \/ Finish(s)
            PROVE  Same
        <4>1. \A x \in Senders \ {s} : sender'[x] = sender[x]
          BY <3>1 DEF Create, ReadForDecision, ReadForCancel, Cancel, Announce, Finish, TypeOK
        <4>2. sender'[s].pc \in {"idle", "decide", "cancel"} \/ sender'[s].kind \in {"sick", "request", "cancel"}
          <5>1. ASSUME NEW sick \in BOOLEAN, NEW owner \in BOOLEAN, Create(s, sick, owner)
                PROVE  sender'[s].pc = "idle" \/ sender'[s].kind \in {"sick", "request"}
            BY <5>1 DEF Create, Sends, Idle, TypeOK
          <5>2. ASSUME NEW verdict \in Verdicts, ReadForDecision(s, verdict) PROVE sender'[s].pc = "decide"
            BY <5>2 DEF ReadForDecision, TypeOK
          <5>3. ReadForCancel(s) => sender'[s].pc = "cancel"
            BY DEF ReadForCancel, TypeOK
          <5>4. Cancel(s) => sender'[s].pc = "idle" \/ sender'[s].kind = "cancel"
            BY DEF Cancel, Sends, Idle, TypeOK
          <5>5. Announce(s) \/ Finish(s) => sender'[s].pc = "idle" \/ sender'[s].kind = "sick"
            BY DEF Announce, Finish, Sends, Idle, TypeOK
          <5> QED BY <3>1, <5>1, <5>2, <5>3, <5>4, <5>5
        <4> QED BY <4>1, <4>2 DEF Busy
      <3>2. ASSUME NEW s \in Senders, Decide(s) PROVE Same \/ (Decide(t) /\ StillPending)
        BY <3>2 DEF Decide, Idle, Busy, TypeOK
      <3>3. ASSUME NEW s \in Senders, NEW m \in Members \cup {Applicant}, Claim(s, m) \/ Skip(s, m) PROVE Same
        <4>1. sender[s] \in Sending
          BY <3>3, ActivityTypes DEF Claim, Skip
        <4> QED BY <3>3, <4>1 DEF Claim, Skip, Sending, Busy, TypeOK
      <3>4. ASSUME NEW s \in Senders, \/ PushDelivered(s) \/ PushFails(s) \/ PushUnanswered(s) \/ MarkFails(s)
                                      \/ MarkSent(s) \/ GiveUp(s)
            PROVE  Same
        <4>1. sender[s] \in Pushing
          BY <3>4, ActivityTypes DEF PushDelivered, PushFails, PushUnanswered, MarkFails, MarkSent, GiveUp
        <4>2. /\ \A x \in Senders \ {s} : sender'[x] = sender[x]
              /\ \/ \E pc \in {"sent", "failed"} : sender'[s] = [sender[s] EXCEPT !.pc = pc]
                 \/ sender'[s] = Onward(sender[s])
          BY <3>4 DEF PushDelivered, PushFails, PushUnanswered, MarkFails, MarkSent, GiveUp, TypeOK
        <4> QED BY <4>1, <4>2 DEF Onward, Pushing, Busy
      <3>5. ASSUME NEW n \in Notices, Lapse(n) PROVE Same
        <4>1. CASE ~Holder(log[n].by, n)
          BY <3>5, <4>1 DEF Lapse, Busy
        <4>2. CASE Holder(log[n].by, n)
          <5>1. log[n].by \in Senders /\ sender[log[n].by] \in Pushing
            BY <3>5, <4>2, ActivityTypes DEF Lapse, TypeOK, Claims, Holder
          <5> QED BY <3>5, <4>2, <5>1 DEF Lapse, Pushing, Busy, TypeOK
        <4> QED BY <4>1, <4>2
      <3>6. CASE Crash
        BY <3>6 DEF Crash, Idle, Busy
      <3>7. CASE UNCHANGED vars
        BY <3>7 DEF vars, Busy
      <3> QED BY <3>1, <3>2, <3>3, <3>4, <3>5, <3>6, <3>7 DEF Next, Send
    <2>2. CASE Decide(t) /\ StillPending
      BY <2>2, ActivityTypes DEF Decide, Deciding, Sends, TypeOK
    <2> QED BY <1>0, <1>2, <2>1, <2>2
  <1>4. RowsTellTheVerdict'
    <2> SUFFICES ASSUME NEW m \in To("decision"), log'[<<"decision", m>>] # None
                 PROVE  Standing(log'[<<"decision", m>>].text, leave'.status)
      BY DEF RowsTellTheVerdict
    <2> DEFINE n == <<"decision", m>>
    <2>1. n \in Notices
      BY Recipients DEF Kinds
    <2>2. \/ log[n] # None /\ log'[n].text = log[n].text
          \/ \E s \in Senders : sender[s].pc = "next" /\ sender[s].kind = "decision" /\ log'[n].text = sender[s].text
      <3>1. ASSUME NEW s \in Senders, NEW x \in Members \cup {Applicant}, Claim(s, x)
            PROVE  \/ log[n] # None /\ log'[n].text = log[n].text
                   \/ sender[s].pc = "next" /\ sender[s].kind = "decision" /\ log'[n].text = sender[s].text
        BY <2>1, <3>1 DEF Claim, TypeOK
      <3>2. ASSUME NEW s \in Senders, MarkSent(s) \/ GiveUp(s)
            PROVE  log[n] # None /\ log'[n].text = log[n].text
        BY <2>1, <3>2 DEF MarkSent, GiveUp, TypeOK, Claims
      <3>3. ASSUME NEW x \in Notices, Lapse(x) PROVE log[n] # None /\ log'[n].text = log[n].text
        BY <2>1, <3>3 DEF Lapse, TypeOK, Claims
      <3>4. log' = log => log[n] # None /\ log'[n].text = log[n].text
        OBVIOUS
      <3> QED BY <3>1, <3>2, <3>3, <3>4
              DEF Next, Send, vars, Create, ReadForDecision, Decide, ReadForCancel, Cancel, Announce, Skip, Finish,
                  PushDelivered, PushFails, PushUnanswered, MarkFails, Crash
    <2>3. CASE log[n] # None /\ log'[n].text = log[n].text
      BY <1>0, <1>2, <2>3
    <2>4. ASSUME NEW s \in Senders, sender[s].pc = "next", sender[s].kind = "decision", log'[n].text = sender[s].text
          PROVE  Standing(log'[n].text, leave'.status)
      BY <1>0, <1>2, <2>4 DEF Busy
    <2> QED BY <2>2, <2>3, <2>4
  <1> QED BY <1>3, <1>4

\* Sets of senders: one more, one fewer.
LEMMA OneMore ==
  ASSUME NEW S, NEW T, NEW x, IsFiniteSet(S), T \subseteq S \cup {x}
  PROVE  IsFiniteSet(T) /\ Cardinality(T) <= Cardinality(S) + 1
  <1>1. IsFiniteSet(S \cup {x}) /\ Cardinality(S \cup {x}) <= Cardinality(S) + 1 /\ Cardinality(S) \in Nat
    BY FS_AddElement, FS_CardinalityType
  <1>2. IsFiniteSet(T) /\ Cardinality(T) <= Cardinality(S \cup {x})
    BY <1>1, FS_Subset
  <1>3. Cardinality(T) \in Nat /\ Cardinality(S \cup {x}) \in Nat
    BY <1>1, <1>2, FS_CardinalityType
  <1> QED BY <1>1, <1>2, <1>3

LEMMA OneFewer ==
  ASSUME NEW S, NEW T, NEW x \in S, IsFiniteSet(S), T \subseteq S \ {x}
  PROVE  IsFiniteSet(T) /\ Cardinality(T) <= Cardinality(S) - 1
  <1>1. IsFiniteSet(S \ {x}) /\ Cardinality(S \ {x}) = Cardinality(S) - 1
    BY FS_RemoveElement
  <1> QED BY <1>1, FS_Subset

\* A step after which nobody is newly pending for a notice, which is delivered at most
\* as often again as the bound rises.
LEMMA NoneNew ==
  ASSUME NEW n \in Notices, Within(n), told[n] \in Nat, NEW k \in Nat, NEW j \in Nat,
         Pending(n)' \subseteq Pending(n), Allowed(n) \in Nat,
         told'[n] = told[n] + k, Allowed(n)' = Allowed(n) + j, k <= j
  PROVE  Within(n)'
  <1>1. /\ IsFiniteSet(Pending(n)') /\ Cardinality(Pending(n)') <= Cardinality(Pending(n))
        /\ Cardinality(Pending(n)) \in Nat /\ Cardinality(Pending(n)') \in Nat
    BY FS_Subset, FS_CardinalityType DEF Within
  <1> QED BY <1>1 DEF Within

LEMMA AllowedType ==
  ASSUME TypeOK, NEW n \in Notices
  PROVE  /\ told[n] \in Nat /\ excused[n] \in Nat /\ Allowed(n) \in Nat
         /\ log[n] # None => log[n] \in Claims
  BY DEF TypeOK, Allowed

\* No notice is delivered more often than its rows and its excuses allow.
LEMMA StepDeliveries ==
  ASSUME IInv, [Next]_vars
  PROVE  DeliveriesAreAllowed'
  <1> USE DEF IInv
  <1>1. ASSUME NEW s \in Senders, NEW q, sender' = [sender EXCEPT ![s] = q], ~AtWork(sender[s]), ~AtWork(q),
               UNCHANGED <<log, told, excused>>
        PROVE  DeliveriesAreAllowed'
    BY <1>1, Elsewhere
  <1>2. ASSUME NEW s \in Senders, NEW sick \in BOOLEAN, NEW owner \in BOOLEAN, Create(s, sick, owner)
        PROVE  DeliveriesAreAllowed'
    <2> DEFINE q == IF sick THEN Sends("sick", None) ELSE IF owner THEN Idle ELSE Sends("request", None)
    <2>1. sender' = [sender EXCEPT ![s] = q] /\ UNCHANGED <<log, told, excused>>
      BY <1>2 DEF Create
    <2>2. ~AtWork(sender[s]) /\ ~AtWork(q)
      BY <1>2 DEF Create, AtWork, Idle, Sends
    <2> HIDE DEF q
    <2> QED BY <1>1, <2>1, <2>2
  <1>3. ASSUME NEW s \in Senders, NEW verdict \in Verdicts, ReadForDecision(s, verdict)
        PROVE  DeliveriesAreAllowed'
    <2> DEFINE q == [pc |-> "decide", verdict |-> verdict]
    <2>1. sender' = [sender EXCEPT ![s] = q] /\ UNCHANGED <<log, told, excused>>
      BY <1>3 DEF ReadForDecision
    <2>2. ~AtWork(sender[s]) /\ ~AtWork(q)
      BY <1>3 DEF ReadForDecision, AtWork, Idle
    <2> HIDE DEF q
    <2> QED BY <1>1, <2>1, <2>2
  <1>4. ASSUME NEW s \in Senders, Decide(s) \/ ReadForCancel(s) \/ Cancel(s) \/ Announce(s) \/ Finish(s)
        PROVE  DeliveriesAreAllowed'
    BY <1>1, <1>4 DEF Decide, ReadForCancel, Cancel, Announce, Finish, AtWork, Idle, Sends
  <1>5. ASSUME NEW s \in Senders, NEW m \in Members \cup {Applicant}, Skip(s, m) PROVE DeliveriesAreAllowed'
    <2>1. sender[s] \in Sending
      BY <1>5, ActivityTypes DEF Skip
    <2>2. [sender[s] EXCEPT !.todo = sender[s].todo \ {m}].pc = "next"
      BY <1>5, <2>1 DEF Skip, Sending
    <2> QED BY <1>1, <1>5, <2>2 DEF Skip, AtWork
  <1>6. ASSUME NEW s \in Senders, NEW m \in Members \cup {Applicant}, Claim(s, m) PROVE DeliveriesAreAllowed'
    <2> SUFFICES ASSUME NEW n \in Notices PROVE Within(n)'
      BY DEF DeliveriesAreAllowed
    <2> DEFINE nn == <<sender[s].kind, m>>
               row == [by |-> s, old |-> FALSE, sent |-> FALSE, text |-> sender[s].text]
    <2>1. nn \in Notices /\ row \in Claims
      BY <1>6, ActivityTypes, Recipients DEF Claim, Sending, ListsAreAddressed, Busy, Claims
    <2>2. /\ sender'[s].pc = "push" /\ NoticeOf(sender'[s]) = nn /\ sender[s].pc = "next"
          /\ \A t \in Senders \ {s} : sender'[t] = sender[t]
          /\ log'[nn] = row /\ row # None /\ \A x \in Notices \ {nn} : log'[x] = log[x]
          /\ told' = told /\ excused' = excused
      BY <1>6, <2>1, NoneAssumption DEF Claim, TypeOK, NoticeOf
    <2>3. Within(n) /\ Allowed(n) \in Nat /\ told[n] \in Nat
      BY AllowedType DEF DeliveriesAreAllowed
    <2>4. CASE n # nn
      <3>1. Pending(n)' \subseteq Pending(n)
        BY <2>2, <2>4 DEF Pending, Holder, OwnClaim
      <3>2. Allowed(n)' = Allowed(n) + 0 /\ told'[n] = told[n] + 0
        BY <2>2, <2>3, <2>4 DEF Allowed, Expired
      <3> QED BY <2>3, <3>1, <3>2, NoneNew
    <2>5. CASE n = nn
      <3>1. Pending(n)' \subseteq Pending(n) \cup {s}
        BY <2>2, <2>5 DEF Pending, Holder, OwnClaim
      <3>2. Allowed(n) = excused[n]
        BY <1>6, <2>5 DEF Claim, Allowed
      <3>3. Allowed(n)' = 1 + excused[n]
        BY <2>2, <2>5 DEF Allowed, Expired
      <3>4. /\ IsFiniteSet(Pending(n)') /\ Cardinality(Pending(n)') <= Cardinality(Pending(n)) + 1
            /\ Cardinality(Pending(n)) \in Nat /\ Cardinality(Pending(n)') \in Nat
        BY <2>3, <3>1, OneMore, FS_CardinalityType DEF Within
      <3>5. told'[n] = told[n] /\ excused[n] \in Nat
        BY <2>2, AllowedType
      <3> QED BY <2>3, <3>2, <3>3, <3>4, <3>5 DEF Within
    <2> QED BY <2>4, <2>5
  <1>7. ASSUME NEW s \in Senders, PushDelivered(s) \/ PushFails(s) \/ PushUnanswered(s)
        PROVE  DeliveriesAreAllowed'
    <2> SUFFICES ASSUME NEW n \in Notices PROVE Within(n)'
      BY DEF DeliveriesAreAllowed
    <2>1. sender[s] \in Pushing /\ sender[s].pc = "push" /\ log' = log /\ NoticeOf(sender[s]) \in Notices
      BY <1>7, ActivityTypes DEF PushDelivered, PushFails, PushUnanswered
    <2>2. PICK pc \in {"sent", "failed"} :
            /\ sender' = [sender EXCEPT ![s] = [sender[s] EXCEPT !.pc = pc]]
            /\ PushDelivered(s) => pc = "sent"
      BY <1>7 DEF PushDelivered, PushFails, PushUnanswered
    <2>3. /\ sender'[s].pc = pc /\ NoticeOf(sender'[s]) = NoticeOf(sender[s])
          /\ \A t \in Senders \ {s} : sender'[t] = sender[t]
      BY <2>1, <2>2 DEF TypeOK, Pushing, NoticeOf
    <2>4. Pending(n)' \subseteq Pending(n)
      BY <2>1, <2>3 DEF Pending, Holder, OwnClaim
    <2>5. Within(n) /\ Allowed(n) \in Nat /\ told[n] \in Nat /\ excused[n] \in Nat
      BY AllowedType DEF DeliveriesAreAllowed
    <2>6. CASE PushDelivered(s) /\ n = NoticeOf(sender[s])
      <3>1. s \in Pending(n) /\ Pending(n)' \subseteq Pending(n) \ {s}
        BY <2>1, <2>2, <2>3, <2>4, <2>6 DEF Pending, Holder
      <3>2. /\ IsFiniteSet(Pending(n)') /\ Cardinality(Pending(n)') <= Cardinality(Pending(n)) - 1
            /\ Cardinality(Pending(n)) \in Nat /\ Cardinality(Pending(n)') \in Nat
        BY <2>5, <3>1, OneFewer, FS_CardinalityType DEF Within
      <3>3. told'[n] = told[n] + 1 /\ excused'[n] = excused[n]
        BY <2>6 DEF PushDelivered, TypeOK
      <3>4. Allowed(n)' = Allowed(n)
        BY <2>1, <3>3 DEF Allowed, Expired
      <3> QED BY <2>5, <3>2, <3>3, <3>4 DEF Within
    <2>7. CASE ~(PushDelivered(s) /\ n = NoticeOf(sender[s]))
      <3>1. PICK k \in {0, 1} : told'[n] = told[n] + k /\ excused'[n] = excused[n] + k
        <4>1. CASE PushUnanswered(s) /\ n = NoticeOf(sender[s])
          BY <2>5, <4>1 DEF PushUnanswered, TypeOK
        <4>2. CASE ~(PushUnanswered(s) /\ n = NoticeOf(sender[s]))
          <5>1. told'[n] = told[n] /\ excused'[n] = excused[n]
            BY <1>7, <2>7, <4>2 DEF PushDelivered, PushFails, PushUnanswered, TypeOK
          <5> QED BY <2>5, <5>1
        <4> QED BY <4>1, <4>2
      <3>2. Allowed(n)' = Allowed(n) + k
        BY <2>1, <2>5, <3>1 DEF Allowed, Expired
      <3> QED BY <2>4, <2>5, <3>1, <3>2, NoneNew
    <2> QED BY <2>6, <2>7
  <1>8. ASSUME NEW s \in Senders, MarkSent(s) \/ GiveUp(s) PROVE DeliveriesAreAllowed'
    <2> SUFFICES ASSUME NEW n \in Notices PROVE Within(n)'
      BY DEF DeliveriesAreAllowed
    <2>1. /\ sender[s] \in Pushing /\ NoticeOf(sender[s]) \in Notices
          /\ sender'[s].pc = "next" /\ \A t \in Senders \ {s} : sender'[t] = sender[t]
          /\ told' = told /\ excused' = excused
      BY <1>8, ActivityTypes DEF MarkSent, GiveUp, Onward, TypeOK
    <2>2. Within(n) /\ Allowed(n) \in Nat /\ told[n] \in Nat /\ excused[n] \in Nat
      BY AllowedType DEF DeliveriesAreAllowed
    <2>3. CASE log'[n] = log[n]
      <3>1. Pending(n)' \subseteq Pending(n)
        BY <2>1, <2>3 DEF Pending, Holder, OwnClaim
      <3>2. Allowed(n)' = Allowed(n) + 0 /\ told'[n] = told[n] + 0
        BY <2>1, <2>2, <2>3 DEF Allowed, Expired
      <3> QED BY <2>2, <3>1, <3>2, NoneNew
    <2>4. CASE MarkSent(s) /\ log'[n] # log[n]
      <3>1. log[n] # None /\ log[n] \in Claims /\ log'[n] = [log[n] EXCEPT !.sent = TRUE]
        BY <2>1, <2>4, AllowedType DEF MarkSent, TypeOK
      <3>2. log'[n] \in Claims /\ log'[n].sent /\ log'[n].by = log[n].by
        BY <3>1 DEF Claims
      <3>3. Pending(n)' \subseteq Pending(n)
        BY <2>1, <3>1, <3>2 DEF Pending, Holder, OwnClaim
      <3>4. Allowed(n)' = 1 + excused[n]
        BY <2>1, <3>2, NoneAssumption DEF Allowed, Expired
      <3>5. PICK j \in {0, 1} : Allowed(n)' = Allowed(n) + j
        BY <2>2, <3>4 DEF Allowed
      <3>6. told'[n] = told[n] + 0
        BY <2>1, <2>2
      <3> QED BY <2>2, <3>3, <3>5, <3>6, NoneNew
    <2>5. CASE GiveUp(s) /\ log'[n] # log[n]
      <3>1. n = NoticeOf(sender[s]) /\ OwnClaim(s, n) /\ log'[n] = None /\ sender[s].pc = "failed"
        BY <2>1, <2>5 DEF GiveUp, TypeOK
      <3>2. s \in Pending(n) /\ Pending(n)' \subseteq Pending(n) \ {s}
        BY <2>1, <3>1 DEF Pending, Holder, OwnClaim
      <3>3. /\ IsFiniteSet(Pending(n)') /\ Cardinality(Pending(n)') <= Cardinality(Pending(n)) - 1
            /\ Cardinality(Pending(n)) \in Nat /\ Cardinality(Pending(n)') \in Nat
        BY <2>2, <3>2, OneFewer, FS_CardinalityType DEF Within
      <3>4. Allowed(n)' = excused[n] /\ Allowed(n) <= 1 + excused[n] /\ told'[n] = told[n]
        BY <2>1, <2>2, <3>1 DEF Allowed
      <3> QED BY <2>2, <3>3, <3>4 DEF Within
    <2> QED BY <1>8, <2>3, <2>4, <2>5
  <1>9. ASSUME NEW x \in Notices, Lapse(x) PROVE DeliveriesAreAllowed'
    <2> SUFFICES ASSUME NEW n \in Notices PROVE Within(n)'
      BY DEF DeliveriesAreAllowed
    <2> DEFINE s == log[x].by
    <2>1. log[x] \in Claims /\ s \in Senders
      BY <1>9 DEF Lapse, TypeOK, Claims
    <2>2. \A t \in Senders :
            sender'[t].pc = sender[t].pc /\ (AtWork(sender[t]) => NoticeOf(sender'[t]) = NoticeOf(sender[t]))
      <3>1. Holder(s, x) => sender[s] \in Pushing
        BY <2>1, ActivityTypes DEF Holder
      <3> QED BY <1>9, <2>1, <3>1 DEF Lapse, TypeOK, Pushing, NoticeOf, AtWork
    <2>3. Within(n) /\ Allowed(n) \in Nat /\ told[n] \in Nat /\ excused[n] \in Nat /\ told'[n] = told[n] + 0
      BY <1>9, AllowedType DEF DeliveriesAreAllowed, Lapse
    <2>4. CASE n # x
      <3>1. log'[n] = log[n] /\ excused'[n] = excused[n]
        BY <1>9, <2>4 DEF Lapse, TypeOK
      <3>2. Pending(n)' \subseteq Pending(n)
        BY <2>2, <3>1 DEF Pending, Holder, OwnClaim, AtWork
      <3>3. Allowed(n)' = Allowed(n) + 0
        BY <2>3, <3>1 DEF Allowed, Expired
      <3> QED BY <2>3, <3>2, <3>3, NoneNew
    <2>5. CASE n = x
      <3>1. log'[n] = [log[n] EXCEPT !.old = TRUE] /\ excused'[n] = excused[n] + 1
        BY <1>9, <2>5 DEF Lapse, TypeOK
      <3>2. log'[n] \in Claims /\ log'[n].old /\ log'[n].by = log[n].by /\ log'[n].sent = log[n].sent
        BY <2>1, <2>5, <3>1 DEF Claims
      <3>3. Pending(n)' \subseteq Pending(n)
        BY <1>9, <2>2, <2>5, <3>2 DEF Pending, Holder, OwnClaim, AtWork, Lapse
      <3>4. Allowed(n) = 1 + excused[n]
        BY <1>9, <2>5 DEF Lapse, Allowed, Expired
      <3>5. Allowed(n)' = excused[n] + 1
        BY <1>9, <2>5, <3>1, <3>2 DEF Lapse, Allowed, Expired
      <3>6. Allowed(n)' = Allowed(n) + 0
        BY <2>3, <3>4, <3>5
      <3> QED BY <2>3, <3>3, <3>6, NoneNew
    <2> QED BY <2>4, <2>5
  <1>10. CASE Crash
    <2> SUFFICES ASSUME NEW n \in Notices PROVE Within(n)'
      BY DEF DeliveriesAreAllowed
    <2>1. Pending(n)' = {}
      BY <1>10 DEF Crash, Pending, Holder, Idle
    <2>2. Within(n) /\ Allowed(n) \in Nat /\ told[n] \in Nat
      BY AllowedType DEF DeliveriesAreAllowed
    <2>3. told'[n] = told[n] + 0 /\ Allowed(n)' = Allowed(n) + 0
      BY <1>10, <2>2 DEF Crash, Allowed, Expired
    <2> QED BY <2>1, <2>2, <2>3, NoneNew
  <1>11. CASE UNCHANGED vars
    BY <1>11 DEF vars, DeliveriesAreAllowed, Within, Pending, Allowed, Expired, Holder, NoticeOf, OwnClaim
  <1>12. ASSUME NEW s \in Senders, MarkFails(s) PROVE DeliveriesAreAllowed'
    <2> SUFFICES ASSUME NEW n \in Notices PROVE Within(n)'
      BY DEF DeliveriesAreAllowed
    <2>1. sender[s] \in Pushing /\ log' = log /\ told' = told /\ NoticeOf(sender[s]) \in Notices
      BY <1>12, ActivityTypes DEF MarkFails
    <2>2. /\ NoticeOf(sender'[s]) = NoticeOf(sender[s])
          /\ \A t \in Senders \ {s} : sender'[t] = sender[t]
          /\ \A x \in Notices : excused'[x] = IF x = NoticeOf(sender[s]) THEN excused[x] + 1 ELSE excused[x]
      BY <1>12, <2>1 DEF MarkFails, TypeOK, Pushing, NoticeOf
    <2>3. Within(n) /\ Allowed(n) \in Nat /\ told[n] \in Nat /\ excused[n] \in Nat
      BY AllowedType DEF DeliveriesAreAllowed
    <2>4. CASE n = NoticeOf(sender[s])
      <3>1. Pending(n)' \subseteq Pending(n) \cup {s}
        BY <2>1, <2>2 DEF Pending, Holder, OwnClaim
      <3>2. /\ IsFiniteSet(Pending(n)') /\ Cardinality(Pending(n)') <= Cardinality(Pending(n)) + 1
            /\ Cardinality(Pending(n)) \in Nat /\ Cardinality(Pending(n)') \in Nat
        BY <2>3, <3>1, OneMore, FS_CardinalityType DEF Within
      <3>3. Allowed(n)' = Allowed(n) + 1
        BY <2>1, <2>2, <2>3, <2>4 DEF Allowed, Expired
      <3> QED BY <2>1, <2>3, <3>2, <3>3 DEF Within
    <2>5. CASE n # NoticeOf(sender[s])
      <3>1. Pending(n)' \subseteq Pending(n)
        BY <2>1, <2>2, <2>5 DEF Pending, Holder, OwnClaim
      <3>2. Allowed(n)' = Allowed(n) + 0 /\ told'[n] = told[n] + 0
        BY <2>1, <2>2, <2>3, <2>5 DEF Allowed, Expired
      <3> QED BY <2>3, <3>1, <3>2, NoneNew
    <2> QED BY <2>4, <2>5
  <1> QED BY <1>2, <1>3, <1>4, <1>5, <1>6, <1>7, <1>8, <1>9, <1>10, <1>11, <1>12 DEF Next, Send

-----------------------------------------------------------------------------
\* The invariant is inductive.
LEMMA StepIInv == IInv /\ [Next]_vars => IInv'
  <1> SUFFICES ASSUME IInv, [Next]_vars PROVE IInv'
    OBVIOUS
  <1>1. TypeOK' /\ ListsAreAddressed'
    BY StepTypeOK
  <1>2. HoldersHoldClaims'
    BY StepHolders
  <1>3. SendersTellTheVerdict' /\ RowsTellTheVerdict'
    BY StepVerdict
  <1>4. DeliveriesAreAllowed'
    BY StepDeliveries
  <1> QED BY <1>1, <1>2, <1>3, <1>4 DEF IInv

LEMMA Invariant == Spec => []IInv
  BY InitIInv, StepIInv, PTL DEF Spec

\* Whatever requests, job runs, faults and lapses come together, the rows and the
\* senders of sendOnce are well formed.
THEOREM TypeCorrect == Spec => []TypeOK
  BY Invariant, PTL DEF IInv

\* A sender within its lease cannot lose its claim (sendOnce).
THEOREM ClaimsKept == Spec => []ClaimsAreLostOnlyByLapse
  <1>1. IInv => ClaimsAreLostOnlyByLapse
    BY DEF IInv, HoldersHoldClaims, ClaimsAreLostOnlyByLapse
  <1> QED BY Invariant, <1>1, PTL

\* A notice is delivered once, and once more for each lapsed lease, lost answer
\* or delivery that could not be recorded.
THEOREM NotRepeated == Spec => []NoticeIsNotRepeated
  <1>1. IInv => NoticeIsNotRepeated
    <2> SUFFICES ASSUME IInv, NEW n \in Notices PROVE told[n] <= 1 + excused[n]
      BY DEF NoticeIsNotRepeated
    <2>1. /\ told[n] \in Nat /\ excused[n] \in Nat /\ Within(n)
          /\ Cardinality(Pending(n)) \in Nat /\ Allowed(n) <= 1 + excused[n]
      BY AllowedType, FS_CardinalityType DEF IInv, DeliveriesAreAllowed, Within, Allowed
    <2>2. Allowed(n) \in Nat
      BY AllowedType DEF IInv
    <2> QED BY <2>1, <2>2 DEF Within
  <1> QED BY Invariant, <1>1, PTL

\* The applicant hears the verdict that was written (decide).
THEOREM VerdictStands == Spec => []AnnouncedVerdictStands
  <1>1. IInv => AnnouncedVerdictStands
    BY DEF IInv, RowsTellTheVerdict, AnnouncedVerdictStands
  <1> QED BY Invariant, <1>1, PTL
=============================================================================
