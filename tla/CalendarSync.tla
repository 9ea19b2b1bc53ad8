---------------------------- MODULE CalendarSync ----------------------------
(***************************************************************************)
(* One appointment and its copy in one person's Outlook calendar           *)
(* (src/apps/api/src/outlook-integration/calendar). A sync of the event    *)
(* writes or deletes the copy under a per-event lock; every two minutes a  *)
(* reconciler starts one where the table of copies shows work; every five  *)
(* minutes a poll reads what the owner did to the copy. Switching the      *)
(* calendar sync off and disconnecting delete copies outside the lock.     *)
(*                                                                         *)
(* Every call to Microsoft Graph may fail, with its effect applied or not, *)
(* and the process may stop, except between a write to Outlook and the row *)
(* that records it: what follows there depends on what Graph does with a   *)
(* repeated transactionId. The event is in the future and has no Teams     *)
(* meeting.                                                                *)
(***************************************************************************)
EXTENDS Naturals, Sequences

CONSTANTS NMailboxes,  \* the person's Microsoft accounts; 1 was connected first
          Times,       \* when the appointment can take place
          MaxActs,     \* bound: what people, expiring tokens and crashes do
          None         \* a null column, no copy

ASSUME SyncAssumption == NMailboxes \in Nat /\ Times # {}

VARIABLES
  event,     \* the CalendarEvent: its version (updatedAt), time, and whether the person attends
  box,       \* each MailboxConnection's status and syncCalendar
  row,       \* the CalendarEventOutlookCopy of the event and the person
  outlook,   \* every event ever created in Outlook, by graphEventId
  proposal,  \* the open CalendarEventOutlookChange
  job,       \* the sync that holds the event's lock (inFlight)
  poll,      \* the inbound poll
  cleanup,   \* the settings or disconnect request that removes copies
  keeping,   \* a keep request has closed the proposal, and is to mark the copy
  rows,      \* copies ever recorded: the next row's id
  acts,
  lost       \* history: the events in Outlook of which the code lost track, by a known cause

vars == <<event, box, row, outlook, proposal, job, poll, cleanup, keeping, rows, acts, lost>>

Mailboxes == 1 .. NMailboxes
Statuses == {"ACTIVE", "BROKEN", "REVOKED"}   \* EXPIRED and ERROR are treated alike
Gone == {"deleted", "withdrawn"}              \* by the owner, by the sync

IdleJob == [pc |-> "idle", ev |-> None, cp |-> None, to |-> None, gid |-> None]
IdlePoll == [pc |-> "idle", cp |-> None, seen |-> None, ev |-> None]
IdleCleanup == [pc |-> "idle", box |-> None, cp |-> None, revoke |-> FALSE]

Init ==
  /\ event = [live |-> TRUE, ver |-> 1, time |-> CHOOSE t \in Times : TRUE, attends |-> TRUE]
  /\ box = [b \in Mailboxes |-> [status |-> "ACTIVE", sync |-> TRUE]]
  /\ row = None
  /\ outlook = << >>
  /\ proposal = None
  /\ job = IdleJob
  /\ poll = IdlePoll
  /\ cleanup = IdleCleanup
  /\ keeping = FALSE
  /\ rows = 0
  /\ acts = 0
  /\ lost = {}

Act == acts < MaxActs /\ acts' = acts + 1

\* syncEvent: a sync already in flight is joined, not followed by another.
Started == IF job.pc = "idle" THEN [job EXCEPT !.pc = "read"] ELSE job

-----------------------------------------------------------------------------
(* The event's write sites. told: this one calls syncEventSoon.             *)

EditEvent(t, a, told) ==
  /\ Act
  /\ event.live
  /\ event' = [event EXCEPT !.ver = @ + 1, !.time = t, !.attends = a]
  /\ job' = IF told THEN Started ELSE job
  /\ UNCHANGED <<box, row, outlook, proposal, poll, cleanup, rows, keeping, lost>>

\* The case gets another lead lawyer: who attends changes, the event's row does not.
ChangeLead ==
  /\ Act
  /\ event.live
  /\ event' = [event EXCEPT !.attends = ~@]
  /\ UNCHANGED <<box, row, outlook, proposal, job, poll, cleanup, rows, keeping, lost>>

RemoveEvent(told) ==
  /\ Act
  /\ event.live
  /\ event' = [event EXCEPT !.live = FALSE]
  /\ proposal' = None
  /\ job' = IF told THEN Started ELSE job
  /\ UNCHANGED <<box, row, outlook, poll, cleanup, rows, keeping, lost>>

\* keep: the open proposal is refused; then the copy is to be written again.
KeepProposal ==
  /\ Act
  /\ event.live
  /\ proposal # None
  /\ ~keeping
  /\ proposal' = None
  /\ keeping' = TRUE
  /\ UNCHANGED <<event, box, row, outlook, job, poll, cleanup, rows, lost>>

MarkKeptCopy ==
  /\ keeping
  /\ keeping' = FALSE
  /\ row' = IF row = None THEN None ELSE [row EXCEPT !.synced = 0]
  /\ job' = Started
  /\ UNCHANGED <<event, box, outlook, proposal, poll, cleanup, rows, acts, lost>>

RestoreMyCopy ==
  /\ Act
  /\ event.live
  /\ row # None
  /\ row.removed
  /\ row' = [row EXCEPT !.removed = FALSE, !.synced = 0]
  /\ job' = Started
  /\ UNCHANGED <<event, box, outlook, proposal, poll, cleanup, rows, keeping, lost>>

-----------------------------------------------------------------------------
(* What the owner does in Outlook.                                          *)

OwnerMoves(g, t) ==
  /\ Act
  /\ outlook[g].state \notin Gone
  /\ outlook[g].time # t
  /\ outlook' = [outlook EXCEPT ![g].time = t, ![g].state = "moved"]
  /\ UNCHANGED <<event, box, row, proposal, job, poll, cleanup, rows, keeping, lost>>

OwnerDeletes(g) ==
  /\ Act
  /\ outlook[g].state \notin Gone
  /\ outlook' = [outlook EXCEPT ![g].state = "deleted"]
  /\ UNCHANGED <<event, box, row, proposal, job, poll, cleanup, rows, keeping, lost>>

-----------------------------------------------------------------------------
(* Connections.                                                             *)

Active == {b \in Mailboxes : box[b].status = "ACTIVE"}
Eligible == {b \in Active : box[b].sync}
Revoked(b) == box[b].status = "REVOKED"

\* A call that is about to ask for a token of the mailbox. (A cleanup's is not overlapped
\* by a disconnect, for there is one cleanup at a time.)
NeedsToken(b) ==
  \/ job.pc = "write" /\ job.to = b
  \/ job.pc = "call" /\ job.cp.box = b
  \/ poll.pc = "delta" /\ poll.cp.box = b

\* markError: a token could not be refreshed. One that was wiped cannot be, so a call
\* that overlaps a disconnect turns REVOKED into EXPIRED.
Break(b) ==
  /\ Act
  /\ b \in Active \/ (Revoked(b) /\ NeedsToken(b))
  /\ box' = [box EXCEPT ![b].status = "BROKEN"]
  /\ UNCHANGED <<event, row, outlook, proposal, job, poll, cleanup, rows, keeping, lost>>

\* upsertFromOAuth: the person connects the account again.
Reconnect(b) ==
  /\ Act
  /\ b \notin Active
  /\ box' = [box EXCEPT ![b].status = "ACTIVE"]
  /\ UNCHANGED <<event, row, outlook, proposal, job, poll, cleanup, rows, keeping, lost>>

TurnOn(b) ==
  /\ Act
  /\ ~box[b].sync
  /\ box' = [box EXCEPT ![b].sync = TRUE]
  /\ UNCHANGED <<event, row, outlook, proposal, job, poll, cleanup, rows, keeping, lost>>

\* updateSettings saves the switch, and then removes the copies.
TurnOff(b) ==
  /\ Act
  /\ cleanup = IdleCleanup
  /\ box[b].sync
  /\ box' = [box EXCEPT ![b].sync = FALSE]
  /\ cleanup' = [pc |-> "read", box |-> b, cp |-> None, revoke |-> FALSE]
  /\ UNCHANGED <<event, row, outlook, proposal, job, poll, rows, keeping, lost>>

\* disconnect removes the copies first, and revokes the connection in the end.
Disconnect(b) ==
  /\ Act
  /\ cleanup = IdleCleanup
  /\ ~Revoked(b)
  /\ cleanup' = [pc |-> "read", box |-> b, cp |-> None, revoke |-> TRUE]
  /\ UNCHANGED <<event, box, row, outlook, proposal, job, poll, rows, keeping, lost>>

-----------------------------------------------------------------------------
(* deleteCopy, shared by the sync and the cleanup: it looks at the         *)
(* connection, calls Graph, and deletes the row.                           *)

\* Nothing is left to call for a mailbox that is revoked: its event is forgotten.
GivenUp(cp) == IF Revoked(cp.box) THEN {cp.gid} ELSE {}

AfterLook(cp) == IF Revoked(cp.box) THEN "drop" ELSE "call"

\* The call; it may be carried out without an answer. Then the row is kept, for a later run.
DeleteInOutlook(cp, answered, applied) ==
  /\ answered => applied
  /\ outlook' = IF applied /\ outlook[cp.gid].state \notin Gone
                  THEN [outlook EXCEPT ![cp.gid].state = "withdrawn"]
                  ELSE outlook

\* deleteMany by the row's id.
Without(cp) == IF row # None /\ row.id = cp.id THEN None ELSE row

-----------------------------------------------------------------------------
(* doSync.                                                                  *)

ReadEvent ==
  /\ job.pc = "read"
  /\ job' = IF event.live THEN [job EXCEPT !.pc = "pick", !.ev = event, !.cp = row]
            ELSE IF row = None THEN IdleJob
            ELSE [job EXCEPT !.pc = "delete", !.cp = row]
  /\ UNCHANGED <<event, box, row, outlook, proposal, poll, cleanup, rows, acts, keeping, lost>>

\* pickConnection: the copy's own mailbox, else the oldest one.
Desired(ev, cp) ==
  IF ~ev.attends \/ Eligible = {} THEN None
  ELSE IF cp # None /\ cp.box \in Eligible THEN cp.box
  ELSE CHOOSE b \in Eligible : \A c \in Eligible : b <= c

\* The copy is in a mailbox that may recover.
LeaveAlone(ev, cp) == ev.attends /\ cp # None /\ box[cp.box].status = "BROKEN"

UpToDate(ev, cp) == cp.removed \/ cp.synced >= ev.ver

PickMailbox ==
  /\ job.pc = "pick"
  /\ LET to == Desired(job.ev, job.cp) IN
       job' = IF LeaveAlone(job.ev, job.cp) THEN IdleJob
              ELSE IF job.cp # None /\ job.cp.box # to THEN [job EXCEPT !.pc = "delete", !.to = to]
              ELSE IF to = None \/ (job.cp # None /\ UpToDate(job.ev, job.cp)) THEN IdleJob
              ELSE [job EXCEPT !.pc = "write", !.to = to]
  /\ UNCHANGED <<event, box, row, outlook, proposal, poll, cleanup, rows, acts, keeping, lost>>

\* The copy in the wrong mailbox is dealt with; a new one may be due.
AfterDelete == IF job.to = None THEN IdleJob ELSE [job EXCEPT !.pc = "write", !.cp = None]

LookAtOldCopy ==
  /\ job.pc = "delete"
  /\ job' = [job EXCEPT !.pc = AfterLook(job.cp)]
  /\ lost' = lost \cup GivenUp(job.cp)
  /\ UNCHANGED <<event, box, row, outlook, proposal, poll, cleanup, rows, acts, keeping>>

\* lost: the event is gone, and the row claims that it shows the appointment.
DeleteOldCopy(answered, applied) ==
  /\ job.pc = "call"
  /\ DeleteInOutlook(job.cp, answered, applied)
  /\ job' = IF answered THEN [job EXCEPT !.pc = "drop"] ELSE AfterDelete
  /\ lost' = IF applied /\ ~answered THEN lost \cup {job.cp.gid} ELSE lost
  /\ UNCHANGED <<event, box, row, proposal, poll, cleanup, rows, acts, keeping>>

DropOldRow ==
  /\ job.pc = "drop"
  /\ row' = Without(job.cp)
  /\ job' = AfterDelete
  /\ UNCHANGED <<event, box, outlook, proposal, poll, cleanup, rows, acts, keeping, lost>>

Written == [box |-> job.to, ver |-> job.ev.ver, time |-> job.ev.time, state |-> "ours"]

\* The copy is there to be changed; otherwise Graph says 404 and a new one is made.
Found == job.cp # None /\ outlook[job.cp.gid].state \notin Gone

WriteCopy ==
  /\ job.pc = "write"
  /\ ~Revoked(job.to)
  /\ IF Found
       THEN /\ outlook' = [outlook EXCEPT ![job.cp.gid] = Written]
            /\ job' = [job EXCEPT !.pc = "record", !.gid = job.cp.gid]
       ELSE /\ outlook' = Append(outlook, Written)
            /\ job' = [job EXCEPT !.pc = "record", !.gid = Len(outlook) + 1]
  /\ UNCHANGED <<event, box, row, proposal, poll, cleanup, rows, acts, keeping, lost>>

\* No token, or no answer: the change to an existing copy may be made all the same.
WriteFails(applied) ==
  /\ job.pc = "write"
  /\ applied => Found /\ ~Revoked(job.to)
  /\ outlook' = IF applied THEN [outlook EXCEPT ![job.cp.gid] = Written] ELSE outlook
  /\ job' = IdleJob
  /\ UNCHANGED <<event, box, row, proposal, poll, cleanup, rows, acts, keeping, lost>>

\* Fault: the event's version is read again when the row is written.
RecordedVersion_Now == event.ver

\* What is recorded is the version that was read, so that a later edit shows.
RecordedVersion == job.ev.ver

\* lost: a copy in another mailbox whose row is taken over, and one that is written on
\* after the owner's removal of its predecessor was noted.
LostByUpsert ==
  (IF row # None /\ row.box # job.to /\ outlook[row.gid].state \notin Gone THEN {row.gid} ELSE {})
    \cup (IF row # None /\ row.removed THEN {job.gid} ELSE {})

\* The upsert: whatever row there is now is taken over, its removal mark kept.
RecordCopy ==
  /\ job.pc = "record"
  /\ row' = IF row = None
              THEN [id |-> rows + 1, box |-> job.to, gid |-> job.gid, synced |-> RecordedVersion, removed |-> FALSE]
              ELSE [row EXCEPT !.box = job.to, !.gid = job.gid, !.synced = RecordedVersion]
  /\ rows' = IF row = None THEN rows + 1 ELSE rows
  /\ lost' = lost \cup LostByUpsert
  /\ job' = IdleJob
  /\ UNCHANGED <<event, box, outlook, proposal, poll, cleanup, acts, keeping>>

-----------------------------------------------------------------------------
(* reconcileAll.                                                            *)

\* Fault: only missing copies are looked for.
Stale_Missing == row = None

Stale == row = None \/ (~row.removed /\ row.synced < event.ver)

\* The table of copies shows work for a connected account: a copy is missing or old,
\* or one is left over.
WorkFor(b) ==
  IF box[b].sync /\ event.live /\ event.attends THEN Stale ELSE row # None

Reconcile ==
  /\ job' = IF \E b \in Active : WorkFor(b) THEN Started ELSE job
  /\ row' = IF row # None /\ Revoked(row.box) THEN None ELSE row
  /\ lost' = IF row = None THEN lost ELSE lost \cup GivenUp(row)
  /\ UNCHANGED <<event, box, outlook, proposal, poll, cleanup, rows, acts, keeping>>

-----------------------------------------------------------------------------
(* removeAllForConnection, outside the lock.                                *)

AfterCleanup == IF cleanup.revoke THEN [cleanup EXCEPT !.pc = "revoke"] ELSE IdleCleanup

CleanupReads ==
  /\ cleanup.pc = "read"
  /\ cleanup' = IF row # None /\ row.box = cleanup.box
                  THEN [cleanup EXCEPT !.pc = "delete", !.cp = row] ELSE AfterCleanup
  /\ UNCHANGED <<event, box, row, outlook, proposal, job, poll, rows, acts, keeping, lost>>

CleanupLooks ==
  /\ cleanup.pc = "delete"
  /\ cleanup' = [cleanup EXCEPT !.pc = AfterLook(cleanup.cp)]
  /\ lost' = lost \cup GivenUp(cleanup.cp)
  /\ UNCHANGED <<event, box, row, outlook, proposal, job, poll, rows, acts, keeping>>

\* The sync has just written the copy, and will record it.
BeingRecorded(cp) == job.pc = "record" /\ job.gid = cp.gid

CleanupDeletes(answered, applied) ==
  /\ cleanup.pc = "call"
  /\ DeleteInOutlook(cleanup.cp, answered, applied)
  /\ cleanup' = IF answered THEN [cleanup EXCEPT !.pc = "drop"] ELSE AfterCleanup
  /\ lost' = IF applied /\ (~answered \/ BeingRecorded(cleanup.cp)) THEN lost \cup {cleanup.cp.gid} ELSE lost
  /\ UNCHANGED <<event, box, row, proposal, job, poll, rows, acts, keeping>>

\* Since the cleanup read the row, a sync has put another event of Outlook into it.
Rewritten(cp) == row # None /\ row.id = cp.id /\ row.gid # cp.gid

CleanupDropsRow ==
  /\ cleanup.pc = "drop"
  /\ row' = Without(cleanup.cp)
  /\ lost' = IF Rewritten(cleanup.cp) THEN lost \cup {row.gid} ELSE lost
  /\ cleanup' = AfterCleanup
  /\ UNCHANGED <<event, box, outlook, proposal, job, poll, rows, acts, keeping>>

CleanupRevokes ==
  /\ cleanup.pc = "revoke"
  /\ box' = [box EXCEPT ![cleanup.box].status = "REVOKED"]
  /\ cleanup' = IdleCleanup
  /\ UNCHANGED <<event, row, outlook, proposal, job, poll, rows, acts, keeping, lost>>

-----------------------------------------------------------------------------
(* pollConnection: the copies are read before what Graph reports. Nothing  *)
(* is done about one that is marked as removed.                            *)

PollReads ==
  /\ poll.pc = "idle"
  /\ row # None
  /\ ~row.removed
  /\ row.box \in Eligible
  /\ poll' = [poll EXCEPT !.pc = "delta", !.cp = row]
  /\ UNCHANGED <<event, box, row, outlook, proposal, job, cleanup, rows, acts, keeping, lost>>

\* Graph reports the event's present state, also when it has done so before.
PollDelta ==
  /\ poll.pc = "delta"
  /\ poll' = [poll EXCEPT !.pc = "handle", !.seen = outlook[poll.cp.gid]]
  /\ UNCHANGED <<event, box, row, outlook, proposal, job, cleanup, rows, acts, keeping, lost>>

\* The call fails, the baseline is taken anew, or Graph reports nothing.
PollSeesNothing ==
  /\ poll.pc = "delta"
  /\ poll' = IdlePoll
  /\ UNCHANGED <<event, box, row, outlook, proposal, job, cleanup, rows, acts, keeping, lost>>

\* The owner removed the copy: its row, if it is still there, says so from now on.
PollMarksRemoved ==
  /\ poll.pc = "handle"
  /\ poll.seen.state \in Gone
  /\ row' = IF row # None /\ row.id = poll.cp.id THEN [row EXCEPT !.removed = TRUE] ELSE row
  /\ lost' = IF Rewritten(poll.cp) THEN lost \cup {row.gid} ELSE lost
  /\ poll' = IdlePoll
  /\ UNCHANGED <<event, box, outlook, proposal, job, cleanup, rows, acts, keeping>>

\* Fault: the copy is compared as it is by now, not as it was before the report.
Shown_Now == row # None /\ row.synced >= event.ver

\* The copy showed the event as it still is: a difference is the owner's.
Shown == poll.cp.synced >= event.ver

OwnersMove ==
  /\ event.live
  /\ Shown
  /\ poll.seen.time # event.time

PollReadsEvent ==
  /\ poll.pc = "handle"
  /\ poll.seen.state \notin Gone
  /\ poll' = IF OwnersMove THEN [poll EXCEPT !.pc = "take", !.ev = event] ELSE IdlePoll
  /\ UNCHANGED <<event, box, row, outlook, proposal, job, cleanup, rows, acts, keeping, lost>>

\* A responsible person's move is followed if it is plausible and the event is not of a
\* legal type, and else becomes a proposal. Neither looks at the event again, and neither
\* can be written once it is deleted.
PollTakes(movable) ==
  /\ poll.pc = "take"
  /\ IF ~event.live THEN UNCHANGED <<event, proposal>>
     ELSE IF movable /\ poll.ev.attends
       THEN /\ event' = [event EXCEPT !.ver = @ + 1, !.time = poll.seen.time]
            /\ UNCHANGED proposal
       ELSE /\ proposal' = poll.seen.time
            /\ UNCHANGED event
  /\ poll' = IdlePoll
  /\ UNCHANGED <<box, row, outlook, job, cleanup, rows, acts, keeping, lost>>

-----------------------------------------------------------------------------
\* A deletion that is broken off: the event is gone, and its row stays.
BrokenOff == (IF job.pc = "drop" THEN {job.cp.gid} ELSE {}) \cup (IF cleanup.pc = "drop" THEN {cleanup.cp.gid} ELSE {})

\* The process stops, but not between a write to Outlook and its row.
Crash ==
  /\ Act
  /\ job.pc # "record"
  /\ job' = IdleJob
  /\ poll' = IdlePoll
  /\ cleanup' = IdleCleanup
  /\ keeping' = FALSE
  /\ lost' = lost \cup BrokenOff
  /\ UNCHANGED <<event, box, row, outlook, proposal, rows>>

People ==
  \/ \E t \in Times, a, told \in BOOLEAN : EditEvent(t, a, told)
  \/ ChangeLead
  \/ \E told \in BOOLEAN : RemoveEvent(told)
  \/ KeepProposal
  \/ MarkKeptCopy
  \/ RestoreMyCopy
  \/ \E g \in DOMAIN outlook :
       \/ \E t \in Times : OwnerMoves(g, t)
       \/ OwnerDeletes(g)
  \/ \E b \in Mailboxes : Break(b) \/ Reconnect(b) \/ TurnOn(b) \/ TurnOff(b) \/ Disconnect(b)

Sync ==
  \/ ReadEvent
  \/ PickMailbox
  \/ LookAtOldCopy
  \/ \E answered, applied \in BOOLEAN : DeleteOldCopy(answered, applied)
  \/ DropOldRow
  \/ WriteCopy
  \/ \E applied \in BOOLEAN : WriteFails(applied)
  \/ RecordCopy

Cleanup ==
  \/ CleanupReads
  \/ CleanupLooks
  \/ \E answered, applied \in BOOLEAN : CleanupDeletes(answered, applied)
  \/ CleanupDropsRow
  \/ CleanupRevokes

Poll ==
  \/ PollReads
  \/ PollDelta
  \/ PollSeesNothing
  \/ PollMarksRemoved
  \/ PollReadsEvent
  \/ \E movable \in BOOLEAN : PollTakes(movable)

Next == People \/ Sync \/ Reconcile \/ Cleanup \/ Poll \/ Crash

\* What is started is carried on with, the reconciler runs every two minutes, and a
\* connected mailbox answers again and again. People, the poll and crashes need do nothing.
Fairness ==
  /\ WF_vars(Sync)
  /\ WF_vars(Cleanup)
  /\ WF_vars(Reconcile)
  /\ SF_vars(WriteCopy /\ job.to \in Active)
  /\ SF_vars(DeleteOldCopy(TRUE, TRUE) /\ job.cp.box \in Active)

Spec == Init /\ [][Next]_vars /\ Fairness

-----------------------------------------------------------------------------
EventRows == [live : BOOLEAN, ver : Nat \ {0}, time : Times, attends : BOOLEAN]
CopyOf == [id : 1 .. rows, box : Mailboxes, gid : DOMAIN outlook, synced : 0 .. event.ver, removed : BOOLEAN]
OutlookEvents == [box : Mailboxes, ver : 1 .. event.ver, time : Times, state : {"ours", "moved"} \cup Gone]

Jobs == [pc : {"idle", "read", "pick", "delete", "call", "drop", "write", "record"}, ev : EventRows \cup {None},
         cp : CopyOf \cup {None}, to : Mailboxes \cup {None}, gid : DOMAIN outlook \cup {None}]
Polls == [pc : {"idle", "delta", "handle", "take"}, cp : CopyOf \cup {None},
          seen : OutlookEvents \cup {None}, ev : EventRows \cup {None}]
Cleanups == [pc : {"idle", "read", "delete", "call", "drop", "revoke"}, box : Mailboxes \cup {None},
             cp : CopyOf \cup {None}, revoke : BOOLEAN]

\* Every variable has its type; the row names an event that was created in Outlook, in
\* the row's own mailbox, and claims no version the event has not had.
TypeOK ==
  /\ event \in EventRows
  /\ box \in [Mailboxes -> [status : Statuses, sync : BOOLEAN]]
  /\ rows \in Nat
  /\ outlook \in Seq(OutlookEvents)
  /\ row # None => row \in CopyOf /\ outlook[row.gid].box = row.box
  /\ proposal \in Times \cup {None}
  /\ job \in Jobs
  /\ poll \in Polls
  /\ cleanup \in Cleanups
  /\ keeping \in BOOLEAN
  /\ lost \subseteq DOMAIN outlook

\* A row never claims a version that Outlook was not given, whatever edits, polls,
\* deletions and failed calls come between a sync's read and its write: otherwise an
\* edit would stay out of the person's calendar, for nothing would look stale (doSync).
ClaimedVersionsWereWritten ==
  row # None => row.synced <= outlook[row.gid].ver

\* A time is taken over from Outlook only if the owner put it there, and on a copy that
\* showed the event in the very version that was compared: a report that arrives late
\* never brings back a time that the system itself wrote earlier (pollConnection, handle).
OnlyOwnersMovesAreTaken ==
  poll.pc = "take" => poll.seen.state = "moved" /\ poll.seen.ver = poll.ev.ver

Wanted == event.live /\ event.attends /\ Eligible # {}

Living(g) == outlook[g].state \notin Gone

\* The row's mailbox waits to be connected again.
Waiting == row # None /\ box[row.box].status = "BROKEN"

\* The copy was written with the event's last version; its owner may have moved or deleted it.
Shows == row # None /\ (IF Living(row.gid) THEN outlook[row.gid].ver = event.ver ELSE outlook[row.gid].state = "deleted")

\* Excused: the row says that all is well, or that the owner removed the copy, of an event
\* that the system itself withdrew, or wrote after an earlier one was removed.
Mistaken ==
  /\ row # None
  /\ row.gid \in lost
  /\ row.removed \/ outlook[row.gid].state = "withdrawn"

\* No event is left in a mailbox that can be reached, but the one the row names.
NoStray ==
  \A g \in DOMAIN outlook \ lost :
    Living(g) /\ outlook[g].box \in Active => row # None /\ row.gid = g

InStep ==
  /\ NoStray
  /\ \/ Waiting
     \/ IF Wanted THEN Shows \/ Mistaken ELSE row = None

\* Once people and tokens come to rest, the copy carries the event's last version, or there
\* is none, in Outlook as in the table, if the person has no use for it: although edits need
\* not announce themselves, are merged into syncs that read before them, calls fail again
\* and again, and the process stops (reconcileAll). Left alone are a copy its owner deleted
\* and one in a mailbox that waits to be connected again. Excused are the copies in lost:
\* those of a mistaken row, and those that no row names, for a cleanup dropped the row of a
\* copy that a sync had created meanwhile, an upsert took the row over, or the mailbox was
\* revoked.
CopyCatchesUp == <>[]InStep

\* A copy whose deletion failed is deleted later: "On a retryable failure the row is
\* kept (with lastError) so a later run retries" (deleteCopy). An Outlook event that
\* nobody removed stays known to the row, to the sync or to the cleanup.
NoCopyIsForgotten ==
  \A g \in DOMAIN outlook :
    outlook[g].state \in Gone \/ Revoked(outlook[g].box)
      \/ (row # None /\ row.gid = g) \/ job.gid = g
=============================================================================
