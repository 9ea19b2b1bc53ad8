-------------------------- MODULE AppointmentDates --------------------------
(***************************************************************************)
(* The dates of a court hearing and of the deadline that a rule derives    *)
(* from it (src/apps/api/src/calendar, deadlines, intelligence): a rule    *)
(* makes a suggestion, a lawyer confirms it, the responsible lawyers       *)
(* acknowledge both events, either one is rescheduled, and every ten       *)
(* minutes reminders go out.                                               *)
(*                                                                         *)
(* A reschedule compares the preview the lawyer saw with the rows as they  *)
(* are, and then writes each row only if its updatedAt is still the one it *)
(* compared. It locks the event it moves; the rows that follow it are free *)
(* in between. The rule and the table of holidays stay as they are.        *)
(***************************************************************************)
EXTENDS Naturals

CONSTANTS Dates,
          Due,       \* the rule: the deadline for a hearing on each date
          Lawyers,
          Runs,      \* runs of the reminder job that can overlap (a bound)
          MaxWrites, \* bound: edits, moves, looks and crashes
          None       \* a null column, a row that does not exist

ASSUME DatesAssumption == Due \in [Dates -> Dates] /\ None \notin Dates /\ MaxWrites \in Nat

VARIABLES
  ev,       \* the two CalendarEvents: startAt and the version (updatedAt)
  owner,    \* who is responsible for each: the assignee, else the lead lawyer
  sugg,     \* the DocumentDateSuggestion that links them
  resp,     \* each event's EventResponsibility, with the date its owner saw (history)
  trigger,  \* the hearing's date, as read by an applyTrigger that is under way
  screen,   \* what each lawyer has in front of them
  moving,   \* the reschedule that holds each event's row lock
  log,      \* each event's ReminderLog
  cron,     \* what each run of the reminder job has read
  reminded, \* history: the dates that reminders of each event named
  excused,  \* history: the suggestion came late, the deadline's date was chosen by hand
  writes

vars == <<ev, owner, sugg, resp, trigger, screen, moving, log, cron, reminded, excused, writes>>

Events == {"hearing", "deadline"}
EventRow == [at : Dates, rev : Nat]
Suggestion == [status : {"PENDING", "CONFIRMED", "DISMISSED"}, date : Dates, rev : Nat]
Snapshot == [ev : [Events -> EventRow \cup {None}], sugg : Suggestion \cup {None}]

Responsibility == [rev : Nat, owner : Lawyers, done : BOOLEAN, saw : Dates]
Move == [to : Dates, seen : Snapshot]
Reading == [ev : [Events -> EventRow \cup {None}], todo : SUBSET Events, sent : Events \cup {None}]

\* A null column is not a row.
ASSUME NoneAssumption ==
  /\ None \notin EventRow \cup Suggestion \cup Snapshot \cup Responsibility \cup Move \cup Reading
  /\ None \notin Suggestion \X (EventRow \cup {None})

Write == writes < MaxWrites /\ writes' = writes + 1

\* createInternal: the hearing exists, and its rules are about to be applied, if its
\* kind is known already.
Init ==
  /\ \E d \in Dates :
       /\ ev = [e \in Events |-> IF e = "hearing" THEN [at |-> d, rev |-> 0] ELSE None]
       /\ trigger \in {d, None}
  /\ \E u \in Lawyers : owner = [e \in Events |-> u]
  /\ sugg = None
  /\ resp = [e \in Events |-> None]
  /\ screen = [u \in Lawyers |-> None]
  /\ moving = [e \in Events |-> None]
  /\ log = [e \in Events |-> FALSE]
  /\ cron = [r \in Runs |-> None]
  /\ reminded = [e \in Events |-> {}]
  /\ excused = [late |-> FALSE, own |-> FALSE]
  /\ writes = 0

Free(e) == moving[e] = None

-----------------------------------------------------------------------------
(* Rules and suggestions.                                                   *)

\* applyTrigger: the date is that of the hearing as it was read, and a rule makes one
\* suggestion for an event. The new row's foreign key waits for the hearing's lock.
ApplyTrigger ==
  /\ trigger # None
  /\ Free("hearing")
  /\ trigger' = None
  /\ IF ev["hearing"] = None \/ sugg # None
       THEN UNCHANGED <<sugg, excused>>
       ELSE /\ sugg' = [status |-> "PENDING", date |-> Due[trigger], rev |-> 0]
            /\ excused' = [excused EXCEPT !.late = trigger # ev["hearing"].at]
  /\ UNCHANGED <<ev, owner, resp, screen, moving, log, cron, reminded, writes>>

\* A lawyer opens the events, the suggestion or the preview of a move.
Look(u) ==
  /\ Write
  /\ screen' = [screen EXCEPT ![u] = [ev |-> ev, sugg |-> sugg]]
  /\ UNCHANGED <<ev, owner, sugg, resp, trigger, moving, log, cron, reminded, excused>>

\* lockPending takes the hearing's lock before the suggestion's.
Pending(u) ==
  /\ screen[u] # None
  /\ screen[u].sugg # None
  /\ sugg # None
  /\ sugg.status = "PENDING"
  /\ Free("hearing")

\* Fault: the suggestion's version is not compared.
Reviewed_Unchecked(u) == TRUE

Reviewed(u) == sugg.rev = screen[u].sugg.rev

\* confirm: the deadline is put in the calendar, at the suggested date or at d.
Confirm(u, d, o) ==
  /\ Pending(u)
  /\ Reviewed(u)
  /\ ev' = [ev EXCEPT !["deadline"] = [at |-> IF d = None THEN sugg.date ELSE d, rev |-> 0]]
  /\ owner' = [owner EXCEPT !["deadline"] = o]
  /\ sugg' = [sugg EXCEPT !.status = "CONFIRMED", !.rev = @ + 1]
  /\ excused' = [excused EXCEPT !.own = d # None]
  /\ UNCHANGED <<resp, trigger, screen, moving, log, cron, reminded, writes>>

Dismiss(u) ==
  /\ Pending(u)
  /\ sugg' = [sugg EXCEPT !.status = "DISMISSED", !.rev = @ + 1]
  /\ UNCHANGED <<ev, owner, resp, trigger, screen, moving, log, cron, reminded, excused, writes>>

-----------------------------------------------------------------------------
(* Edits and responsibility.                                                *)

\* updateInternal cannot change the date. A kind of sitting filled in for the hearing
\* applies the rules, with the date that this update returned.
Edit(e, o, kind) ==
  /\ Write
  /\ ev[e] # None
  /\ Free(e)
  /\ ev' = [ev EXCEPT ![e].rev = @ + 1]
  /\ owner' = [owner EXCEPT ![e] = o]
  /\ trigger' = IF e = "hearing" /\ kind /\ trigger = None THEN ev[e].at ELSE trigger
  /\ UNCHANGED <<sugg, resp, screen, moving, log, cron, reminded, excused>>

\* The case gets another lead lawyer: events without an assignee have a new owner.
ChangeLead(e, o) ==
  /\ Write
  /\ owner' = [owner EXCEPT ![e] = o]
  /\ UNCHANGED <<ev, sugg, resp, trigger, screen, moving, log, cron, reminded, excused>>

\* remove: what hangs on the event goes with it; a deadline outlives its hearing.
Remove(e) ==
  /\ Write
  /\ ev[e] # None
  /\ Free(e)
  /\ ev' = [ev EXCEPT ![e] = None]
  /\ sugg' = IF e = "hearing" THEN None ELSE sugg
  /\ resp' = [resp EXCEPT ![e] = None]
  /\ log' = [log EXCEPT ![e] = FALSE]
  /\ UNCHANGED <<owner, trigger, screen, moving, cron, reminded, excused>>

\* The acceptance is the present owner's, and of the present version.
Valid(e) ==
  /\ resp[e] # None
  /\ resp[e].owner = owner[e]
  /\ resp[e].rev = ev[e].rev

\* Fault: the version on the owner's screen, or in the LINE button, is not compared.
Current_Unchecked(u, e) == TRUE

Current(u, e) == screen[u].ev[e].rev = ev[e].rev

\* acknowledge: a hearing is not completed here, and nothing is before it is accepted.
Acknowledge(u, e, complete) ==
  /\ screen[u] # None
  /\ screen[u].ev[e] # None
  /\ ev[e] # None
  /\ Free(e)
  /\ owner[e] = u
  /\ Current(u, e)
  /\ complete => Valid(e) /\ ~resp[e].done /\ e # "hearing"
  /\ ~complete => ~Valid(e)
  /\ resp' = [resp EXCEPT ![e] = [rev |-> ev[e].rev, owner |-> u, done |-> complete,
                                  saw |-> IF complete THEN @.saw ELSE screen[u].ev[e].at]]
  /\ UNCHANGED <<ev, owner, sugg, trigger, screen, moving, log, cron, reminded, excused, writes>>

-----------------------------------------------------------------------------
(* reschedule.                                                              *)

\* The suggestion, and with it the deadline, moves with the hearing.
Follows(s) == s # None /\ s.status # "DISMISSED"

\* What the fingerprint of a preview covers.
Covered(e, snap) ==
  IF e = "deadline" THEN snap.ev[e]
  ELSE <<snap.ev[e], IF Follows(snap.sugg) THEN <<snap.sugg, snap.ev["deadline"]>> ELSE None>>

\* The row is locked, and the preview is made again and compared.
BeginMove(u, e, to) ==
  /\ Write
  /\ screen[u] # None
  /\ screen[u].ev[e] # None
  /\ ev[e] # None
  /\ Free(e)
  /\ Covered(e, screen[u]) = Covered(e, [ev |-> ev, sugg |-> sugg])
  /\ moving' = [moving EXCEPT ![e] = [to |-> to, seen |-> screen[u]]]
  /\ UNCHANGED <<ev, owner, sugg, resp, trigger, screen, log, cron, reminded, excused>>

CommitDeadline ==
  /\ moving["deadline"] # None
  /\ ev' = [ev EXCEPT !["deadline"] = [at |-> moving["deadline"].to, rev |-> @.rev + 1]]
  /\ log' = [log EXCEPT !["deadline"] = FALSE]
  /\ excused' = [excused EXCEPT !.own = TRUE]
  /\ moving' = [moving EXCEPT !["deadline"] = None]
  /\ UNCHANGED <<owner, sugg, resp, trigger, screen, cron, reminded, writes>>

\* Fault: the deadline is updated by its id alone.
Untouched_AnyVersion(seen) == seen.ev["deadline"] # None => ev["deadline"] # None

\* The deadline is still in the version that was compared.
Untouched(seen) == ev["deadline"] = seen.ev["deadline"]

\* Fault: a suggestion that is not confirmed yet is not moved.
Moved_Confirmed(s) == s # None /\ s.status = "CONFIRMED"

Moved(s) == Follows(s)

\* One transaction: the hearing, the suggestion and the deadline, or nothing at all.
CommitHearing ==
  /\ moving["hearing"] # None
  /\ Free("deadline")
  /\ LET to == moving["hearing"].to
         seen == moving["hearing"].seen
         dl == ev["deadline"]
         moves == Moved(seen.sugg)
     IN IF moves /\ ~Untouched(seen)
          THEN UNCHANGED <<ev, sugg, log, excused>>
          ELSE /\ ev' = [ev EXCEPT !["hearing"] = [at |-> to, rev |-> @.rev + 1],
                                   !["deadline"] = IF moves /\ dl # None
                                                     THEN [at |-> Due[to], rev |-> dl.rev + 1] ELSE dl]
               /\ sugg' = IF moves THEN [sugg EXCEPT !.date = Due[to], !.rev = @ + 1] ELSE sugg
               /\ log' = [log EXCEPT !["hearing"] = FALSE, !["deadline"] = @ /\ ~moves]
               /\ excused' = IF moves THEN [late |-> FALSE, own |-> FALSE] ELSE excused
  /\ moving' = [moving EXCEPT !["hearing"] = None]
  /\ UNCHANGED <<owner, resp, trigger, screen, cron, reminded, writes>>

-----------------------------------------------------------------------------
(* processReminders. When a reminder falls due is left open.                *)

Unreminded == {e \in Events : ev[e] # None /\ ~log[e]}

JobReads(r) ==
  /\ cron[r] = None
  /\ Unreminded # {}
  /\ cron' = [cron EXCEPT ![r] = [ev |-> ev, todo |-> Unreminded, sent |-> None]]
  /\ UNCHANGED <<ev, owner, sugg, resp, trigger, screen, moving, log, reminded, excused, writes>>

\* The reminder names the date that was read.
Remind(r, e) ==
  /\ cron[r] # None
  /\ cron[r].sent = None
  /\ e \in cron[r].todo
  /\ reminded' = [reminded EXCEPT ![e] = @ \cup {cron[r].ev[e].at}]
  /\ cron' = [cron EXCEPT ![r].sent = e, ![r].todo = @ \ {e}]
  /\ UNCHANGED <<ev, owner, sugg, resp, trigger, screen, moving, log, excused, writes>>

\* A row that exists already, or an event that does not, ends the run.
LogReminder(r) ==
  /\ cron[r] # None
  /\ cron[r].sent # None
  /\ LET e == cron[r].sent IN
       IF ev[e] # None /\ ~log[e]
         THEN /\ log' = [log EXCEPT ![e] = TRUE]
              /\ cron' = [cron EXCEPT ![r].sent = None]
         ELSE /\ cron' = [cron EXCEPT ![r] = None]
              /\ UNCHANGED log
  /\ UNCHANGED <<ev, owner, sugg, resp, trigger, screen, moving, reminded, excused, writes>>

JobEnds(r) ==
  /\ cron[r] # None
  /\ cron[r].sent = None
  /\ cron' = [cron EXCEPT ![r] = None]
  /\ UNCHANGED <<ev, owner, sugg, resp, trigger, screen, moving, log, reminded, excused, writes>>

-----------------------------------------------------------------------------
\* The process stops: transactions are rolled back.
Crash ==
  /\ Write
  /\ trigger' = None
  /\ moving' = [e \in Events |-> None]
  /\ cron' = [r \in Runs |-> None]
  /\ UNCHANGED <<ev, owner, sugg, resp, screen, log, reminded, excused>>

Next ==
  \/ ApplyTrigger
  \/ \E u \in Lawyers :
       \/ Look(u)
       \/ Dismiss(u)
       \/ \E d \in Dates \cup {None}, o \in Lawyers : Confirm(u, d, o)
       \/ \E e \in Events :
            \/ \E complete \in BOOLEAN : Acknowledge(u, e, complete)
            \/ \E to \in Dates : BeginMove(u, e, to)
            \/ \E kind \in BOOLEAN : Edit(e, u, kind)
            \/ ChangeLead(e, u)
  \/ \E e \in Events : Remove(e)
  \/ CommitDeadline
  \/ CommitHearing
  \/ \E r \in Runs : JobReads(r) \/ LogReminder(r) \/ JobEnds(r) \/ \E e \in Events : Remind(r, e)
  \/ Crash

Spec == Init /\ [][Next]_vars

-----------------------------------------------------------------------------
\* Every variable has its type; a reschedule that is under way holds a row that exists,
\* and no row refers to one that is gone.
TypeOK ==
  /\ ev \in [Events -> EventRow \cup {None}]
  /\ owner \in [Events -> Lawyers]
  /\ sugg \in Suggestion \cup {None}
  /\ sugg # None => ev["hearing"] # None
  /\ resp \in [Events -> Responsibility \cup {None}]
  /\ trigger \in Dates \cup {None}
  /\ screen \in [Lawyers -> Snapshot \cup {None}]
  /\ moving \in [Events -> Move \cup {None}]
  /\ log \in [Events -> BOOLEAN]
  /\ \A e \in Events : ev[e] = None => moving[e] = None /\ ~log[e] /\ resp[e] = None
  /\ cron \in [Runs -> Reading \cup {None}]
  /\ \A r \in Runs : cron[r] # None => \A e \in cron[r].todo : cron[r].ev[e] # None
  /\ reminded \in [Events -> SUBSET Dates]
  /\ excused \in [late : BOOLEAN, own : BOOLEAN]
  /\ writes \in 0 .. MaxWrites

\* An acceptance that counts is of the date that the event has now and that its owner
\* saw, although the event is edited, moved on its own or with its hearing, and changes
\* hands while the button is on the owner's screen (acknowledge, get).
AcceptedDateIsTheCurrentOne ==
  \A e \in Events : ev[e] # None /\ Valid(e) => resp[e].saw = ev[e].at

\* A suggestion and its deadline stay where the rule puts them, through confirmations,
\* moves and crashes in any order, unless a lawyer chose the deadline's date or the rule
\* was applied to a date that the hearing no longer had (reschedule, confirm).
DeadlinesFollowTheHearing ==
  Follows(sugg) /\ ~excused.late =>
    /\ sugg.date = Due[ev["hearing"].at]
    /\ ev["deadline"] # None /\ ~excused.own => ev["deadline"].at = sugg.date

\* A deadline enters the calendar at a date that a lawyer chose or had on the screen,
\* and an event loses its date only to a lawyer who saw that very date: a deadline moved
\* or edited since the preview is never overwritten (reschedule, confirm).
ReviewedDatesOnly ==
  [][/\ ev["deadline"] = None /\ ev'["deadline"] # None /\ ~excused'.own =>
          \E u \in Lawyers : screen[u] # None /\ screen[u].sugg # None
                               /\ screen[u].sugg.date = ev'["deadline"].at
     /\ \A e \in Events :
          ev[e] # None /\ ev'[e] # None /\ ev'[e].at # ev[e].at =>
            \E f \in Events : moving[f] # None /\ moving[f].seen.ev[e] # None
                                /\ moving[f].seen.ev[e].at = ev[e].at]_vars

\* "Like a reschedule: the old reminders were for the old time, so they must fire again"
\* (handle, of a date moved in Outlook): a reminder counts as sent only if one that names
\* the event's present date was.
MovedEventIsRemindedAgain ==
  \A e \in Events : log[e] => ev[e].at \in reminded[e]
=============================================================================
