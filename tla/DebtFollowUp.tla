---------------------------- MODULE DebtFollowUp ----------------------------
(***************************************************************************)
(* Chasing one sent invoice (src/apps/api/src/billing): LINE reminders to  *)
(* the client's contacts, throttled by lastReminderAt, and the follow-up   *)
(* note that owners edit under an optimistic lock on updatedAt.            *)
(*                                                                         *)
(* sendReminder reads the invoice, pushes to one contact after the other,  *)
(* and writes lastReminderAt at the end; other requests run in between,    *)
(* and the process may stop.                                               *)
(***************************************************************************)
EXTENDS Integers, Nullable

CONSTANTS Reminders,    \* reminder requests that can be in flight at once (a bound)
          Contacts,    \* the contacts linked to LINE
          Owners,      \* browsers with the follow-up form open
          Notes,       \* what a follow-up can say
          Throttle,    \* time within which an invoice is not reminded again (24 h)
          MaxClock,    \* bound: time
          MaxUpdates,  \* bound: updates of the invoice row
          MaxCrashes   \* bound: times the process stops

ASSUME ChaseAssumption ==
  /\ MaxClock \in Nat /\ MaxUpdates \in Nat /\ MaxCrashes \in Nat
  /\ None \notin 0 .. MaxClock

VARIABLES
  open,           \* the invoice is SENT and has money outstanding
  lastReminderAt, \* Invoice.lastReminderAt
  note,           \* collectionOwnerId, collectionNextAt, collectionNote
  updatedAt,      \* Invoice.updatedAt, which every update of the row moves on
  clock,
  crashes,
  reminder,       \* what each reminder in flight has read and still has to do
  form,           \* the invoice each owner's form was loaded from
  pushed          \* history: the messages delivered, with the request's time

chaseVars == <<open, lastReminderAt, note, updatedAt, clock, crashes, reminder, form, pushed>>

FollowUps == [by : Owners, text : Notes]
NoReminder == [op |-> "idle"]
Reminding == [op : {"remind"}, now : 0 .. MaxClock, todo : SUBSET Contacts, sent : BOOLEAN]

ChaseInit ==
  /\ open = TRUE
  /\ lastReminderAt = None
  /\ note = None
  /\ updatedAt = 0
  /\ clock = 0
  /\ crashes = 0
  /\ reminder = [r \in Reminders |-> NoReminder]
  /\ form = [o \in Owners |-> [updatedAt |-> 0, note |-> None]]
  /\ pushed = {}

Update == updatedAt < MaxUpdates /\ updatedAt' = updatedAt + 1

Tick ==
  /\ clock < MaxClock
  /\ clock' = clock + 1
  /\ UNCHANGED <<open, lastReminderAt, note, updatedAt, crashes, reminder, form, pushed>>

\* recordPayment settles the invoice (module Collections).
Settle ==
  /\ open
  /\ open' = FALSE
  /\ Update
  /\ UNCHANGED <<lastReminderAt, note, clock, crashes, reminder, form, pushed>>

-----------------------------------------------------------------------------
Throttled == lastReminderAt # None /\ clock - lastReminderAt < Throttle

\* sendReminder up to its first push.
ReadForReminder(r) ==
  /\ reminder[r] = NoReminder
  /\ open
  /\ ~Throttled
  /\ reminder' = [reminder EXCEPT ![r] = [op |-> "remind", now |-> clock, todo |-> Contacts, sent |-> FALSE]]
  /\ UNCHANGED <<open, lastReminderAt, note, updatedAt, clock, crashes, form, pushed>>

\* One push: LINE delivers it or not, and sendReminder goes on either way.
Push(r, c, delivered) ==
  /\ reminder[r].op = "remind"
  /\ c \in reminder[r].todo
  /\ reminder' = [reminder EXCEPT ![r].todo = @ \ {c}, ![r].sent = @ \/ delivered]
  /\ pushed' = IF delivered THEN pushed \cup {[to |-> c, at |-> reminder[r].now, by |-> r]} ELSE pushed
  /\ UNCHANGED <<open, lastReminderAt, note, updatedAt, clock, crashes, form>>

\* Fault: the reminder is recorded although nobody got it.
WorthRecording_Always(q) == TRUE

WorthRecording(q) == q.sent

\* Fault: what is recorded is when the next reminder may go out.
EndReminder_NextAllowed(r) ==
  /\ reminder[r].op = "remind"
  /\ reminder[r].todo = {}
  /\ IF WorthRecording(reminder[r])
       THEN lastReminderAt' = reminder[r].now + Throttle /\ Update
       ELSE UNCHANGED <<lastReminderAt, updatedAt>>
  /\ reminder' = [reminder EXCEPT ![r] = NoReminder]
  /\ UNCHANGED <<open, note, clock, crashes, form, pushed>>

\* The reminder is recorded if anybody got it.
EndReminder(r) ==
  /\ reminder[r].op = "remind"
  /\ reminder[r].todo = {}
  /\ IF WorthRecording(reminder[r])
       THEN lastReminderAt' = reminder[r].now /\ Update
       ELSE UNCHANGED <<lastReminderAt, updatedAt>>
  /\ reminder' = [reminder EXCEPT ![r] = NoReminder]
  /\ UNCHANGED <<open, note, clock, crashes, form, pushed>>

\* The process stops: the reminders in flight are gone, their pushes are not.
Crash ==
  /\ crashes < MaxCrashes
  /\ crashes' = crashes + 1
  /\ reminder' = [r \in Reminders |-> NoReminder]
  /\ UNCHANGED <<open, lastReminderAt, note, updatedAt, clock, form, pushed>>

-----------------------------------------------------------------------------
\* An owner loads the invoice (getInvoice).
LoadForm(o) ==
  /\ form' = [form EXCEPT ![o] = [updatedAt |-> updatedAt, note |-> note]]
  /\ UNCHANGED <<open, lastReminderAt, note, updatedAt, clock, crashes, reminder, pushed>>

\* Fault: the row is updated whatever was written since the form was loaded.
FormIsCurrent_Unchecked(o) == TRUE

FormIsCurrent(o) == form[o].updatedAt = updatedAt

\* setFollowUp; a form that is not current is answered with a conflict.
SetFollowUp(o, n) ==
  /\ open
  /\ FormIsCurrent(o)
  /\ note' = [by |-> o, text |-> n]
  /\ Update
  /\ UNCHANGED <<open, lastReminderAt, clock, crashes, reminder, form, pushed>>

ChaseNext ==
  \/ Tick
  \/ Settle
  \/ Crash
  \/ \E r \in Reminders :
       \/ ReadForReminder(r)
       \/ \E c \in Contacts, delivered \in BOOLEAN : Push(r, c, delivered)
       \/ EndReminder(r)
  \/ \E o \in Owners :
       \/ LoadForm(o)
       \/ \E n \in Notes : SetFollowUp(o, n)

ChaseSpec == ChaseInit /\ [][ChaseNext]_chaseVars

-----------------------------------------------------------------------------
\* Every variable has its type; no reminder is recorded at a time still to come.
ChaseTypeOK ==
  /\ open \in BOOLEAN
  /\ lastReminderAt \in 0 .. clock \cup {None}
  /\ note \in FollowUps \cup {None}
  /\ updatedAt \in 0 .. MaxUpdates
  /\ clock \in 0 .. MaxClock
  /\ crashes \in 0 .. MaxCrashes
  /\ reminder \in [Reminders -> {NoReminder} \cup Reminding]
  /\ form \in [Owners -> [updatedAt : 0 .. MaxUpdates, note : FollowUps \cup {None}]]
  /\ \A p \in pushed : p.to \in Contacts /\ p.at \in 0 .. clock

\* The invoice says that it was reminded only if somebody got that reminder: when
\* every push fails the owner can try again at once (sendReminder).
RecordedReminderWasDelivered ==
  lastReminderAt # None => \E p \in pushed : p.at = lastReminderAt

\* No owner's follow-up overwrites one that its form did not show: of two owners
\* who edit the same invoice the second is told to reload, also when a reminder
\* or a payment moved updatedAt in between (setFollowUp).
NoFollowUpIsLost == [][note' # note => form[note'.by].note = note]_chaseVars

\* A contact is not reminded of the invoice twice within the throttle ("keeps
\* reminders from being repeated too often", Invoice.lastReminderAt). The code
\* keeps this only while reminders do not overlap and none is cut short.
RemindedOncePerWindow ==
  \A p, q \in pushed : p.to = q.to /\ p # q =>
    (p.at - q.at >= Throttle \/ q.at - p.at >= Throttle)

=============================================================================
