----------------------- MODULE AppointmentDatesProofs -----------------------
(***************************************************************************)
(* Proofs about AppointmentDates, for any dates, rule, lawyers and runs of *)
(* the reminder job, and any number of writes.                             *)
(***************************************************************************)
EXTENDS AppointmentDates, TLAPS

\* A row seen earlier is older than the present one, or the same.
Older(row, now) == row # None /\ now # None => row.rev <= now.rev /\ (row.rev = now.rev => row = now)

\* What a lawyer sees is how the rows were.
ScreensAreOld ==
  \A u \in Lawyers : screen[u] # None =>
    /\ \A e \in Events : Older(screen[u].ev[e], ev[e])
    /\ Older(screen[u].sugg, sugg)

\* While the hearing exists, a suggestion is made once and its deadline put in the
\* calendar once: nobody has seen one before.
NoDeadlineYet == ev["hearing"] # None /\ (sugg = None \/ sugg.status = "PENDING")

BornOnce ==
  /\ NoDeadlineYet =>
       /\ ev["deadline"] = None
       /\ \A u \in Lawyers : screen[u] # None => screen[u].ev["deadline"] = None
  /\ ev["hearing"] # None /\ sugg = None =>
       \A u \in Lawyers : screen[u] # None => screen[u].sugg = None

\* A reschedule under way holds the rows it compared: its event, and of a hearing the
\* suggestion as well.
MovesAreCompared ==
  /\ \A e \in Events : moving[e] # None => ev[e] = moving[e].seen.ev[e]
  /\ moving["hearing"] # None =>
       /\ Follows(sugg) <=> Follows(moving["hearing"].seen.sugg)
       /\ Follows(sugg) => sugg = moving["hearing"].seen.sugg

\* An acceptance is of an earlier version of the event, or of the date it has.
AcceptancesAreOld ==
  \A e \in Events : resp[e] # None =>
    resp[e].rev <= ev[e].rev /\ (resp[e].rev = ev[e].rev => resp[e].saw = ev[e].at)

IInv ==
  /\ TypeOK
  /\ ScreensAreOld
  /\ BornOnce
  /\ MovesAreCompared
  /\ AcceptancesAreOld
  /\ DeadlinesFollowTheHearing

-----------------------------------------------------------------------------
\* The initial state satisfies the invariant.
LEMMA InitIInv == Init => IInv
  <1> SUFFICES ASSUME Init PROVE IInv
    OBVIOUS
  <1> USE DEF Init, Events
  <1>0. PICK d \in Dates : ev = [e \in Events |-> IF e = "hearing" THEN [at |-> d, rev |-> 0] ELSE None]
    OBVIOUS
  <1>1. /\ ev["hearing"] = [at |-> d, rev |-> 0] /\ ev["deadline"] = None
        /\ [at |-> d, rev |-> 0] \in EventRow
    BY <1>0 DEF EventRow
  <1>2. TypeOK
    <2>1. ev \in [Events -> EventRow \cup {None}] /\ ev["hearing"] # None
      BY <1>0, <1>1, NoneAssumption
    <2>2. trigger \in Dates \cup {None} /\ owner \in [Events -> Lawyers]
      OBVIOUS
    <2>3. writes \in 0 .. MaxWrites
      BY DatesAssumption
    <2> QED BY <2>1, <2>2, <2>3 DEF TypeOK
  <1>3. ScreensAreOld /\ BornOnce /\ MovesAreCompared /\ AcceptancesAreOld
    BY <1>1 DEF ScreensAreOld, BornOnce, MovesAreCompared, AcceptancesAreOld
  <1>4. DeadlinesFollowTheHearing
    BY DEF DeadlinesFollowTheHearing, Follows
  <1> QED BY <1>2, <1>3, <1>4 DEF IInv

\* The types of the rows, one by one.
LEMMA RowTypes ==
  ASSUME TypeOK
  PROVE  /\ \A e \in Events : ev[e] # None => ev[e] \in EventRow /\ ev[e].rev \in Nat
         /\ sugg # None => sugg \in Suggestion /\ sugg.rev \in Nat
         /\ \A e \in Events : resp[e] # None => resp[e] \in Responsibility /\ ev[e] # None
         /\ \A e \in Events : moving[e] # None => moving[e] \in Move /\ ev[e] # None
         /\ \A u \in Lawyers : screen[u] # None => screen[u] \in Snapshot
  BY DEF TypeOK, EventRow, Suggestion

\* The row that a write leaves has its type and is not null.
LEMMA NewRow ==
  ASSUME NEW at \in Dates, NEW rev \in Nat
  PROVE  [at |-> at, rev |-> rev] \in EventRow /\ [at |-> at, rev |-> rev] # None
  BY NoneAssumption DEF EventRow

LEMMA NewSuggestion ==
  ASSUME NEW status \in {"PENDING", "CONFIRMED", "DISMISSED"}, NEW date \in Dates, NEW rev \in Nat
  PROVE  /\ [status |-> status, date |-> date, rev |-> rev] \in Suggestion
         /\ [status |-> status, date |-> date, rev |-> rev] # None
  BY NoneAssumption DEF Suggestion

\* What CommitHearing writes, in terms of the rows as they are.
LEMMA HearingMove ==
  ASSUME IInv, CommitHearing
  PROVE  LET to == moving["hearing"].to IN
         \/ UNCHANGED <<ev, sugg, log, excused>>
         \/ /\ to \in Dates /\ Follows(sugg)
            /\ ev["deadline"] = moving["hearing"].seen.ev["deadline"]
            /\ ev'["hearing"] = [at |-> to, rev |-> ev["hearing"].rev + 1]
            /\ ev["deadline"] # None => ev'["deadline"] = [at |-> Due[to], rev |-> ev["deadline"].rev + 1]
            /\ ev["deadline"] = None => ev'["deadline"] = None
            /\ sugg' = [status |-> sugg.status, date |-> Due[to], rev |-> sugg.rev + 1]
            /\ excused' = [late |-> FALSE, own |-> FALSE]
            /\ log' = [e \in Events |-> FALSE]
         \/ /\ to \in Dates /\ ~Follows(sugg) /\ sugg' = sugg /\ excused' = excused
            /\ ev'["hearing"] = [at |-> to, rev |-> ev["hearing"].rev + 1]
            /\ ev'["deadline"] = ev["deadline"]
            /\ log' = [log EXCEPT !["hearing"] = FALSE]
  <1> USE DEF IInv, Events
  <1> DEFINE to == moving["hearing"].to
             seen == moving["hearing"].seen
  <1>1. moving["hearing"] \in Move /\ to \in Dates
    BY RowTypes DEF CommitHearing, Move
  <1>2. Moved(seen.sugg) <=> Follows(sugg)
    BY DEF CommitHearing, MovesAreCompared, Moved
  <1>3. CASE Follows(sugg) /\ ~Untouched(seen)
    BY <1>2, <1>3 DEF CommitHearing
  <1>4. CASE Follows(sugg) /\ Untouched(seen)
    <2>1. sugg \in Suggestion
      BY <1>4, RowTypes DEF Follows
    <2>2. sugg' = [sugg EXCEPT !.date = Due[to], !.rev = @ + 1]
      BY <1>2, <1>4 DEF CommitHearing
    <2>3. sugg' = [status |-> sugg.status, date |-> Due[to], rev |-> sugg.rev + 1]
      BY <2>1, <2>2 DEF Suggestion
    <2>4. log' = [log EXCEPT !["hearing"] = FALSE, !["deadline"] = FALSE]
      BY <1>2, <1>4 DEF CommitHearing, TypeOK
    <2>5. log' = [e \in Events |-> FALSE]
      BY <2>4 DEF TypeOK
    <2>6. /\ ev'["hearing"] = [at |-> to, rev |-> ev["hearing"].rev + 1]
          /\ ev["deadline"] # None => ev'["deadline"] = [at |-> Due[to], rev |-> ev["deadline"].rev + 1]
          /\ ev["deadline"] = None => ev'["deadline"] = None
          /\ excused' = [late |-> FALSE, own |-> FALSE]
      BY <1>2, <1>4 DEF CommitHearing, TypeOK
    <2> QED BY <1>1, <1>4, <2>3, <2>5, <2>6 DEF Untouched
  <1>5. CASE ~Follows(sugg)
    <2>1. /\ ev'["hearing"] = [at |-> to, rev |-> ev["hearing"].rev + 1]
          /\ ev'["deadline"] = ev["deadline"]
          /\ sugg' = sugg /\ excused' = excused
      BY <1>2, <1>5 DEF CommitHearing, TypeOK
    <2>2. log' = [log EXCEPT !["hearing"] = FALSE]
      BY <1>2, <1>5 DEF CommitHearing, TypeOK
    <2> QED BY <1>1, <1>5, <2>1, <2>2
  <1> QED BY <1>3, <1>4, <1>5

\* Every step keeps every variable in its type.
LEMMA StepTypeOK ==
  ASSUME IInv, [Next]_vars
  PROVE  TypeOK'
  <1> USE DEF IInv, Events
  <1>0. Write => writes' \in 0 .. MaxWrites
    BY DatesAssumption DEF TypeOK, Write
  <1>1. CASE ApplyTrigger
    <2>1. CASE ev["hearing"] = None \/ sugg # None
      BY <1>1, <2>1 DEF ApplyTrigger, TypeOK
    <2>2. CASE ~(ev["hearing"] = None \/ sugg # None)
      <3>1. Due[trigger] \in Dates /\ ev["hearing"] # None
        BY <1>1, <2>2, DatesAssumption DEF ApplyTrigger, TypeOK
      <3>2. sugg' \in Suggestion /\ excused' \in [late : BOOLEAN, own : BOOLEAN]
        BY <1>1, <2>2, <3>1, NewSuggestion DEF ApplyTrigger, TypeOK
      <3> QED BY <1>1, <3>1, <3>2 DEF ApplyTrigger, TypeOK
    <2> QED BY <2>1, <2>2
  <1>2. ASSUME NEW u \in Lawyers, Look(u) PROVE TypeOK'
    <2>1. [ev |-> ev, sugg |-> sugg] \in Snapshot
      BY DEF TypeOK, Snapshot
    <2> QED BY <1>0, <1>2, <2>1 DEF Look, TypeOK
  <1>3. ASSUME NEW u \in Lawyers, NEW d \in Dates \cup {None}, NEW o \in Lawyers, Confirm(u, d, o)
        PROVE  TypeOK'
    <2> DEFINE at == IF d = None THEN sugg.date ELSE d
    <2>1. sugg \in Suggestion /\ sugg # None /\ at \in Dates
      BY <1>3, RowTypes DEF Confirm, Pending, Suggestion
    <2>2. [at |-> at, rev |-> 0] \in EventRow /\ [at |-> at, rev |-> 0] # None
      BY <2>1, NewRow
    <2>3. ev' \in [Events -> EventRow \cup {None}] /\ ev'["hearing"] = ev["hearing"] /\ ev'["deadline"] # None
      BY <1>3, <2>2 DEF Confirm, TypeOK
    <2>4. sugg' \in Suggestion
      <3>1. sugg' = [status |-> "CONFIRMED", date |-> sugg.date, rev |-> sugg.rev + 1]
        BY <1>3, <2>1 DEF Confirm, Suggestion
      <3> QED BY <2>1, <3>1, NewSuggestion DEF Suggestion
    <2> QED BY <1>3, <2>1, <2>3, <2>4 DEF Confirm, TypeOK
  <1>4. ASSUME NEW u \in Lawyers, Dismiss(u) PROVE TypeOK'
    <2>1. sugg \in Suggestion /\ sugg # None
      BY <1>4, RowTypes DEF Dismiss, Pending
    <2>2. sugg' \in Suggestion
      <3>1. sugg' = [status |-> "DISMISSED", date |-> sugg.date, rev |-> sugg.rev + 1]
        BY <1>4, <2>1 DEF Dismiss, Suggestion
      <3> QED BY <2>1, <3>1, NewSuggestion DEF Suggestion
    <2> QED BY <1>4, <2>1, <2>2 DEF Dismiss, TypeOK
  <1>5. ASSUME NEW e \in Events, NEW o \in Lawyers, NEW kind \in BOOLEAN, Edit(e, o, kind) PROVE TypeOK'
    <2>1. ev[e] \in EventRow /\ ev[e].at \in Dates /\ ev[e].rev \in Nat
      BY <1>5, RowTypes DEF Edit, EventRow
    <2>2. [ev[e] EXCEPT !.rev = ev[e].rev + 1] = [at |-> ev[e].at, rev |-> ev[e].rev + 1]
      BY <2>1 DEF EventRow
    <2>3. [ev[e] EXCEPT !.rev = ev[e].rev + 1] \in EventRow /\ [ev[e] EXCEPT !.rev = ev[e].rev + 1] # None
      BY <2>1, <2>2, NewRow
    <2>4. ev' = [ev EXCEPT ![e] = [ev[e] EXCEPT !.rev = ev[e].rev + 1]]
      BY <1>5 DEF Edit
    <2>5. ev' \in [Events -> EventRow \cup {None}] /\ \A x \in Events : ev'[x] = None <=> ev[x] = None
      BY <1>5, <2>3, <2>4 DEF Edit, TypeOK
    <2>6. trigger' \in Dates \cup {None} /\ owner' \in [Events -> Lawyers]
      BY <1>5, <2>1 DEF Edit, TypeOK
    <2> QED BY <1>0, <1>5, <2>5, <2>6 DEF Edit, TypeOK
  <1>6. ASSUME NEW e \in Events, NEW o \in Lawyers, ChangeLead(e, o) PROVE TypeOK'
    BY <1>0, <1>6 DEF ChangeLead, TypeOK
  <1>7. ASSUME NEW e \in Events, Remove(e) PROVE TypeOK'
    BY <1>0, <1>7 DEF Remove, Free, TypeOK
  <1>8. ASSUME NEW u \in Lawyers, NEW e \in Events, NEW complete \in BOOLEAN, Acknowledge(u, e, complete)
        PROVE  TypeOK'
    <2> DEFINE row == [rev |-> ev[e].rev, owner |-> u, done |-> complete,
                       saw |-> IF complete THEN resp[e].saw ELSE screen[u].ev[e].at]
    <2>1. screen[u].ev[e] \in EventRow /\ ev[e] \in EventRow
      BY <1>8, RowTypes DEF Acknowledge, Snapshot
    <2>2. complete => resp[e].saw \in Dates
      BY <1>8, RowTypes DEF Acknowledge, Valid, Responsibility
    <2>3. row \in Responsibility
      BY <2>1, <2>2 DEF Responsibility, EventRow
    <2>4. resp' = [resp EXCEPT ![e] = row]
      BY <1>8 DEF Acknowledge
    <2> QED BY <1>8, <2>3, <2>4 DEF Acknowledge, TypeOK
  <1>9. ASSUME NEW u \in Lawyers, NEW e \in Events, NEW to \in Dates, BeginMove(u, e, to) PROVE TypeOK'
    <2>1. [to |-> to, seen |-> screen[u]] \in Move
      BY <1>9, RowTypes DEF BeginMove, Move
    <2> QED BY <1>0, <1>9, <2>1 DEF BeginMove, TypeOK
  <1>10. CASE CommitDeadline
    <2>1. ev["deadline"] \in EventRow /\ ev["deadline"].rev \in Nat /\ moving["deadline"].to \in Dates
      BY <1>10, RowTypes DEF CommitDeadline, Move
    <2> DEFINE row == [at |-> moving["deadline"].to, rev |-> ev["deadline"].rev + 1]
    <2>2. row \in EventRow /\ row # None /\ ev' = [ev EXCEPT !["deadline"] = row]
      BY <1>10, <2>1, NewRow DEF CommitDeadline
    <2>3. ev' \in [Events -> EventRow \cup {None}] /\ ev'["hearing"] = ev["hearing"] /\ ev'["deadline"] # None
      BY <2>2 DEF TypeOK
    <2> QED BY <1>10, <2>3 DEF CommitDeadline, TypeOK
  <1>11. CASE CommitHearing
    <2> DEFINE to == moving["hearing"].to
    <2>1. /\ moving' = [moving EXCEPT !["hearing"] = None] /\ moving["hearing"] # None
          /\ UNCHANGED <<owner, resp, trigger, screen, cron, reminded, writes>>
      BY <1>11 DEF CommitHearing
    <2>2. ev["hearing"] \in EventRow /\ ev["hearing"] # None /\ ev["hearing"].rev \in Nat
      BY <2>1, RowTypes
    <2>3. CASE UNCHANGED <<ev, sugg, log, excused>>
      BY <2>1, <2>3 DEF TypeOK
    <2>4. CASE ~UNCHANGED <<ev, sugg, log, excused>>
      <3>1. to \in Dates /\ Due[to] \in Dates
        BY <1>11, <2>4, HearingMove, DatesAssumption
      <3>2. ev'["hearing"] \in EventRow /\ ev'["hearing"] # None
        BY <1>11, <2>2, <2>4, <3>1, HearingMove, NewRow
      <3>3. /\ ev'["deadline"] \in EventRow \cup {None}
            /\ ev'["deadline"] = None <=> ev["deadline"] = None
        <4>1. CASE ev["deadline"] = None
          BY <1>11, <2>4, <4>1, HearingMove
        <4>2. CASE ev["deadline"] # None
          <5>1. ev["deadline"] \in EventRow /\ ev["deadline"].rev \in Nat
            BY <4>2, RowTypes
          <5> QED BY <1>11, <2>4, <3>1, <4>2, <5>1, HearingMove, NewRow
        <4> QED BY <4>1, <4>2
      <3>4. ev' \in [Events -> EventRow \cup {None}]
        <4>1. DOMAIN ev' = Events /\ ev' = [x \in Events |-> ev'[x]]
          BY <1>11, <2>4 DEF CommitHearing, TypeOK
        <4> QED BY <3>2, <3>3, <4>1
      <3>5. sugg' \in Suggestion \cup {None}
        <4>1. CASE Follows(sugg)
          <5>1. sugg \in Suggestion /\ sugg.rev \in Nat
            BY <4>1, RowTypes DEF Follows
          <5>2. sugg' = [status |-> sugg.status, date |-> Due[to], rev |-> sugg.rev + 1]
            BY <1>11, <2>4, <4>1, HearingMove
          <5> QED BY <3>1, <5>1, <5>2 DEF Suggestion
        <4>2. CASE ~Follows(sugg)
          BY <1>11, <2>4, <4>2, HearingMove DEF TypeOK
        <4> QED BY <4>1, <4>2
      <3>6. excused' \in [late : BOOLEAN, own : BOOLEAN]
        <4>1. excused' = excused \/ excused' = [late |-> FALSE, own |-> FALSE]
          BY <1>11 DEF CommitHearing
        <4>2. excused \in [late : BOOLEAN, own : BOOLEAN]
          BY DEF TypeOK
        <4>3. [late |-> FALSE, own |-> FALSE] \in [late : BOOLEAN, own : BOOLEAN]
          OBVIOUS
        <4> QED BY <4>1, <4>2, <4>3
      <3>7. log' \in [Events -> BOOLEAN] /\ (~log["deadline"] => ~log'["deadline"])
        BY <1>11, <2>4, HearingMove DEF TypeOK
      <3> QED BY <2>1, <3>2, <3>3, <3>4, <3>5, <3>6, <3>7 DEF TypeOK
    <2> QED BY <2>3, <2>4
  <1>12. ASSUME NEW r \in Runs, JobReads(r) PROVE TypeOK'
    <2>1. [ev |-> ev, todo |-> Unreminded, sent |-> None] \in Reading
      BY DEF TypeOK, Reading, Unreminded
    <2>2. cron' = [cron EXCEPT ![r] = [ev |-> ev, todo |-> Unreminded, sent |-> None]]
      BY <1>12 DEF JobReads
    <2>3. cron' \in [Runs -> Reading \cup {None}]
      BY <2>1, <2>2 DEF TypeOK
    <2>4. \A x \in Runs : cron'[x] # None => \A e \in cron'[x].todo : cron'[x].ev[e] # None
      BY <2>2 DEF TypeOK, Unreminded
    <2> QED BY <1>12, <2>3, <2>4 DEF JobReads, TypeOK
  <1>13. ASSUME NEW r \in Runs, NEW e \in Events, Remind(r, e) PROVE TypeOK'
    <2>1. cron[r] \in Reading /\ cron[r].ev[e] \in EventRow
      BY <1>13 DEF Remind, TypeOK, Reading
    <2> DEFINE q == [cron[r] EXCEPT !.sent = e, !.todo = cron[r].todo \ {e}]
    <2>2. q \in Reading /\ q.todo \subseteq cron[r].todo /\ q.ev = cron[r].ev
      BY <2>1 DEF Reading
    <2>3. cron' = [cron EXCEPT ![r] = q]
      BY <1>13 DEF Remind
    <2>4. cron' \in [Runs -> Reading \cup {None}]
      BY <2>2, <2>3 DEF TypeOK
    <2>5. \A x \in Runs : cron'[x] # None => \A f \in cron'[x].todo : cron'[x].ev[f] # None
      BY <1>13, <2>2, <2>3 DEF TypeOK, Remind
    <2>6. reminded' \in [Events -> SUBSET Dates]
      BY <1>13, <2>1 DEF Remind, TypeOK, EventRow
    <2> QED BY <1>13, <2>4, <2>5, <2>6 DEF Remind, TypeOK
  <1>14. ASSUME NEW r \in Runs, LogReminder(r) PROVE TypeOK'
    <2>1. cron[r] \in Reading
      BY <1>14 DEF LogReminder, TypeOK
    <2>2. [cron[r] EXCEPT !.sent = None] \in Reading
      BY <2>1 DEF Reading
    <2>3. cron' \in [Runs -> Reading \cup {None}]
      BY <1>14, <2>2 DEF LogReminder, TypeOK
    <2>4. \A x \in Runs : cron'[x] # None => \A f \in cron'[x].todo : cron'[x].ev[f] # None
      <3>1. cron' = [cron EXCEPT ![r] = [cron[r] EXCEPT !.sent = None]] \/ cron' = [cron EXCEPT ![r] = None]
        BY <1>14 DEF LogReminder
      <3> QED BY <1>14, <2>1, <3>1 DEF TypeOK, Reading, LogReminder
    <2>5. log' \in [Events -> BOOLEAN] /\ \A e \in Events : ev[e] = None => ~log'[e]
      <3> DEFINE f == cron[r].sent
      <3>1. f \in Events
        BY <1>14, <2>1 DEF LogReminder, Reading
      <3>2. log' = log \/ (log' = [log EXCEPT ![f] = TRUE] /\ ev[f] # None)
        BY <1>14 DEF LogReminder
      <3> QED BY <3>1, <3>2 DEF TypeOK
    <2> QED BY <1>14, <2>3, <2>4, <2>5 DEF LogReminder, TypeOK
  <1>15. ASSUME NEW r \in Runs, JobEnds(r) PROVE TypeOK'
    BY <1>15 DEF JobEnds, TypeOK
  <1>16. CASE Crash
    BY <1>0, <1>16 DEF Crash, TypeOK
  <1>17. CASE UNCHANGED vars
    BY <1>17 DEF vars, TypeOK
  <1> QED BY <1>1, <1>2, <1>3, <1>4, <1>5, <1>6, <1>7, <1>8, <1>9, <1>10, <1>11, <1>12, <1>13, <1>14,
             <1>15, <1>16, <1>17 DEF Next

\* How a row goes on: it stays, it goes, or its version rises.
Evolves(row, next) == next = row \/ next = None \/ (row # None /\ next # None /\ next.rev = row.rev + 1)

\* What every step does to the events and the suggestion. Only a confirmation puts a
\* deadline where there was none, and only applyTrigger a suggestion.
LEMMA RowsEvolve ==
  ASSUME IInv, [Next]_vars
  PROVE  /\ \A e \in Events : Evolves(ev[e], ev'[e]) \/ (e = "deadline" /\ NoDeadlineYet /\ ~NoDeadlineYet')
         /\ Evolves(sugg, sugg') \/ (ev["hearing"] # None /\ sugg = None)
         /\ NoDeadlineYet' => NoDeadlineYet
         /\ ev'["hearing"] # None /\ sugg' = None => ev["hearing"] # None /\ sugg = None
  <1> USE DEF IInv, Events
  <1> DEFINE Goal == /\ \A e \in Events : Evolves(ev[e], ev'[e]) \/ (e = "deadline" /\ NoDeadlineYet /\ ~NoDeadlineYet')
                     /\ Evolves(sugg, sugg') \/ (ev["hearing"] # None /\ sugg = None)
                     /\ NoDeadlineYet' => NoDeadlineYet
                     /\ ev'["hearing"] # None /\ sugg' = None => ev["hearing"] # None /\ sugg = None
  <1>0. ASSUME UNCHANGED <<ev, sugg>> PROVE Goal
    BY <1>0 DEF Evolves, NoDeadlineYet
  <1>1. CASE ApplyTrigger
    <2>1. CASE ev["hearing"] = None \/ sugg # None
      BY <1>0, <1>1, <2>1 DEF ApplyTrigger
    <2>2. CASE ~(ev["hearing"] = None \/ sugg # None)
      <3>1. sugg' # None
        BY <1>1, <2>2, DatesAssumption, NewSuggestion DEF ApplyTrigger, TypeOK
      <3>2. ev' = ev
        BY <1>1 DEF ApplyTrigger
      <3> QED BY <2>2, <3>1, <3>2 DEF Evolves, NoDeadlineYet
    <2> QED BY <2>1, <2>2
  <1>2. ASSUME NEW u \in Lawyers, NEW d \in Dates \cup {None}, NEW o \in Lawyers, Confirm(u, d, o)
        PROVE  Goal
    <2> DEFINE at == IF d = None THEN sugg.date ELSE d
    <2>1. sugg \in Suggestion /\ sugg # None /\ sugg.status = "PENDING" /\ at \in Dates /\ ev["hearing"] # None
      BY <1>2, RowTypes DEF Confirm, Pending, Suggestion, TypeOK
    <2>2. ev'["hearing"] = ev["hearing"] /\ ev'["deadline"] # None
      BY <1>2, <2>1, NewRow DEF Confirm, TypeOK
    <2>3. sugg' = [status |-> "CONFIRMED", date |-> sugg.date, rev |-> sugg.rev + 1]
      BY <1>2, <2>1 DEF Confirm, Suggestion
    <2>4. sugg' # None
      BY <2>1, <2>3, NewSuggestion DEF Suggestion
    <2> QED BY <2>1, <2>2, <2>3, <2>4 DEF Evolves, NoDeadlineYet
  <1>3. ASSUME NEW u \in Lawyers, Dismiss(u) PROVE Goal
    <2>1. sugg \in Suggestion /\ sugg # None /\ ev' = ev
      BY <1>3, RowTypes DEF Dismiss, Pending
    <2>2. sugg' = [status |-> "DISMISSED", date |-> sugg.date, rev |-> sugg.rev + 1]
      BY <1>3, <2>1 DEF Dismiss, Suggestion
    <2>3. sugg' # None
      BY <2>1, <2>2, NewSuggestion DEF Suggestion
    <2> QED BY <2>1, <2>2, <2>3 DEF Evolves, NoDeadlineYet
  <1>4. ASSUME NEW e \in Events, NEW o \in Lawyers, NEW kind \in BOOLEAN, Edit(e, o, kind) PROVE Goal
    <2>1. ev[e] \in EventRow /\ ev[e].at \in Dates /\ ev[e].rev \in Nat /\ ev[e] # None
      BY <1>4, RowTypes DEF Edit, EventRow
    <2>2. [ev[e] EXCEPT !.rev = ev[e].rev + 1] = [at |-> ev[e].at, rev |-> ev[e].rev + 1]
      BY <2>1 DEF EventRow
    <2>3. ev'[e] = [at |-> ev[e].at, rev |-> ev[e].rev + 1] /\ \A x \in Events \ {e} : ev'[x] = ev[x]
      BY <1>4, <2>2 DEF Edit, TypeOK
    <2>4. ev'[e] # None /\ ev'[e].rev = ev[e].rev + 1 /\ sugg' = sugg
      BY <1>4, <2>1, <2>3, NewRow DEF Edit
    <2> QED BY <2>1, <2>3, <2>4 DEF Evolves, NoDeadlineYet
  <1>5. ASSUME NEW e \in Events, Remove(e) PROVE Goal
    BY <1>5 DEF Remove, TypeOK, Evolves, NoDeadlineYet
  <1>6. CASE CommitDeadline
    <2>1. ev["deadline"] # None /\ ev["deadline"].rev \in Nat /\ moving["deadline"].to \in Dates
      BY <1>6, RowTypes DEF CommitDeadline, Move
    <2> DEFINE row == [at |-> moving["deadline"].to, rev |-> ev["deadline"].rev + 1]
    <2>2. row # None /\ ev' = [ev EXCEPT !["deadline"] = row] /\ sugg' = sugg
      BY <1>6, <2>1, NewRow DEF CommitDeadline
    <2> QED BY <2>1, <2>2 DEF TypeOK, Evolves, NoDeadlineYet
  <1>7. CASE CommitHearing
    <2> DEFINE to == moving["hearing"].to
    <2>1. ev["hearing"] # None /\ ev["hearing"].rev \in Nat
      BY <1>7, RowTypes DEF CommitHearing
    <2>2. CASE UNCHANGED <<ev, sugg, log, excused>>
      BY <1>0, <2>2
    <2>3. CASE ~UNCHANGED <<ev, sugg, log, excused>>
      <3>1. to \in Dates /\ Due[to] \in Dates /\ ev'["hearing"] = [at |-> to, rev |-> ev["hearing"].rev + 1]
        BY <1>7, <2>3, HearingMove, DatesAssumption
      <3>2. ev'["hearing"] # None /\ ev'["hearing"].rev = ev["hearing"].rev + 1
        BY <2>1, <3>1, NewRow
      <3>3. Evolves(ev["deadline"], ev'["deadline"])
        <4>1. CASE ev["deadline"] = None
          BY <1>7, <2>3, <4>1, HearingMove DEF Evolves
        <4>2. CASE ev["deadline"] # None
          <5>1. ev["deadline"].rev \in Nat
            BY <4>2, RowTypes
          <5>2. \/ ev'["deadline"] = ev["deadline"]
                \/ ev'["deadline"] = [at |-> Due[to], rev |-> ev["deadline"].rev + 1]
            BY <1>7, <2>3, <4>2, HearingMove
          <5> QED BY <3>1, <4>2, <5>1, <5>2, NewRow DEF Evolves
        <4> QED BY <4>1, <4>2
      <3>4. sugg' = sugg \/ (sugg # None /\ sugg' # None /\ sugg'.rev = sugg.rev + 1 /\ sugg'.status = sugg.status)
        <4>1. CASE Follows(sugg)
          <5>1. sugg \in Suggestion /\ sugg # None /\ sugg.rev \in Nat
            BY <4>1, RowTypes DEF Follows
          <5>2. sugg' = [status |-> sugg.status, date |-> Due[to], rev |-> sugg.rev + 1]
            BY <1>7, <2>3, <4>1, HearingMove
          <5> QED BY <3>1, <5>1, <5>2, NewSuggestion DEF Suggestion
        <4>2. CASE ~Follows(sugg)
          BY <1>7, <2>3, <4>2, HearingMove
        <4> QED BY <4>1, <4>2
      <3> QED BY <2>1, <3>2, <3>3, <3>4 DEF Evolves, NoDeadlineYet
    <2> QED BY <2>2, <2>3
  <1> QED BY <1>0, <1>1, <1>2, <1>3, <1>4, <1>5, <1>6, <1>7
          DEF Next, vars, Look, ChangeLead, Acknowledge, BeginMove, JobReads, Remind, LogReminder, JobEnds, Crash

\* An older row stays older.
LEMMA OlderStays ==
  ASSUME NEW row, NEW now, NEW next, Older(row, now), Evolves(now, next),
         row # None => row.rev \in Nat, now # None => now.rev \in Nat
  PROVE  Older(row, next)
  BY DEF Older, Evolves

\* The present rows and every screen, with the screens as they were.
LEMMA StepScreens ==
  ASSUME IInv, [Next]_vars
  PROVE  ScreensAreOld' /\ BornOnce'
  <1> USE DEF IInv, Events
  <1>1. \A u \in Lawyers : screen'[u] = screen[u] \/ (screen'[u] = [ev |-> ev, sugg |-> sugg] /\ UNCHANGED <<ev, sugg>>)
    <2>1. ASSUME NEW v \in Lawyers, Look(v)
          PROVE  \A u \in Lawyers :
                   screen'[u] = screen[u] \/ (screen'[u] = [ev |-> ev, sugg |-> sugg] /\ UNCHANGED <<ev, sugg>>)
      BY <2>1 DEF Look, TypeOK
    <2>2. \A u, d, o, e, kind, complete, to :
            Confirm(u, d, o) \/ Dismiss(u) \/ Edit(e, o, kind) \/ ChangeLead(e, o) \/ Remove(e)
              \/ Acknowledge(u, e, complete) \/ BeginMove(u, e, to) => screen' = screen
      BY DEF Confirm, Dismiss, Edit, ChangeLead, Remove, Acknowledge, BeginMove
    <2>3. \A r, e : JobReads(r) \/ Remind(r, e) \/ LogReminder(r) \/ JobEnds(r) => screen' = screen
      BY DEF JobReads, Remind, LogReminder, JobEnds
    <2>4. ApplyTrigger \/ CommitDeadline \/ CommitHearing \/ Crash \/ UNCHANGED vars => screen' = screen
      BY DEF ApplyTrigger, CommitDeadline, CommitHearing, Crash, vars
    <2>5. screen' = screen \/ \E v \in Lawyers : Look(v)
      BY <2>2, <2>3, <2>4 DEF Next
    <2>6. CASE screen' = screen
      BY <2>6
    <2> QED BY <2>1, <2>5, <2>6
  <1>2. ASSUME NEW u \in Lawyers, screen[u] # None
        PROVE  /\ \A e \in Events : Older(screen[u].ev[e], ev'[e])
               /\ Older(screen[u].sugg, sugg')
    <2>1. /\ \A e \in Events : screen[u].ev[e] # None => screen[u].ev[e].rev \in Nat
          /\ screen[u].sugg # None => screen[u].sugg.rev \in Nat
      BY <1>2, RowTypes DEF Snapshot, EventRow, Suggestion
    <2>2. ASSUME NEW e \in Events PROVE Older(screen[u].ev[e], ev'[e])
      <3>1. CASE Evolves(ev[e], ev'[e])
        <4>1. Older(screen[u].ev[e], ev[e]) /\ (ev[e] # None => ev[e].rev \in Nat)
          BY <1>2, RowTypes DEF ScreensAreOld
        <4> QED BY <2>1, <3>1, <4>1, OlderStays
      <3>2. CASE e = "deadline" /\ NoDeadlineYet
        BY <1>2, <3>2 DEF BornOnce, Older
      <3> QED BY <3>1, <3>2, RowsEvolve
    <2>3. Older(screen[u].sugg, sugg')
      <3>1. CASE Evolves(sugg, sugg')
        <4>1. Older(screen[u].sugg, sugg) /\ (sugg # None => sugg.rev \in Nat)
          BY <1>2, RowTypes DEF ScreensAreOld
        <4> QED BY <2>1, <3>1, <4>1, OlderStays
      <3>2. CASE ev["hearing"] # None /\ sugg = None
        BY <1>2, <3>2 DEF BornOnce, Older
      <3> QED BY <3>1, <3>2, RowsEvolve
    <2> QED BY <2>2, <2>3
  <1>3. ScreensAreOld'
    <2> SUFFICES ASSUME NEW u \in Lawyers, screen'[u] # None
                 PROVE  /\ \A e \in Events : Older(screen'[u].ev[e], ev'[e])
                        /\ Older(screen'[u].sugg, sugg')
      BY DEF ScreensAreOld
    <2>1. CASE screen'[u] = screen[u]
      BY <1>2, <2>1
    <2>2. CASE screen'[u] = [ev |-> ev, sugg |-> sugg] /\ UNCHANGED <<ev, sugg>>
      <3>1. /\ \A e \in Events : ev[e] # None => ev[e].rev \in Nat
            /\ sugg # None => sugg.rev \in Nat
        BY RowTypes
      <3> QED BY <2>2, <3>1 DEF Older
    <2> QED BY <1>1, <2>1, <2>2
  <1>4. BornOnce'
    <2>1. ASSUME NoDeadlineYet'
          PROVE  /\ ev'["deadline"] = None
                 /\ \A u \in Lawyers : screen'[u] # None => screen'[u].ev["deadline"] = None
      <3>1. NoDeadlineYet /\ ev["deadline"] = None
            /\ \A u \in Lawyers : screen[u] # None => screen[u].ev["deadline"] = None
        BY <2>1, RowsEvolve DEF BornOnce
      <3>2. Evolves(ev["deadline"], ev'["deadline"])
        BY <2>1, RowsEvolve
      <3> QED BY <1>1, <3>1, <3>2 DEF Evolves
    <2>2. ASSUME ev'["hearing"] # None, sugg' = None
          PROVE  \A u \in Lawyers : screen'[u] # None => screen'[u].sugg = None
      <3>1. ev["hearing"] # None /\ sugg = None
        BY <2>2, RowsEvolve
      <3> QED BY <1>1, <3>1 DEF BornOnce
    <2> QED BY <2>1, <2>2 DEF BornOnce
  <1> QED BY <1>3, <1>4

\* A reschedule holds the rows it compared until it ends.
LEMMA StepMoves ==
  ASSUME IInv, [Next]_vars
  PROVE  MovesAreCompared'
  <1> USE DEF IInv, Events
  <1>0. ASSUME NEW e \in Events, moving'[e] = moving[e], moving[e] # None, ev'[e] = ev[e],
               e = "hearing" => sugg' = sugg
        PROVE  /\ ev'[e] = moving'[e].seen.ev[e]
               /\ e = "hearing" => /\ Follows(sugg') <=> Follows(moving'[e].seen.sugg)
                                   /\ Follows(sugg') => sugg' = moving'[e].seen.sugg
    BY <1>0 DEF MovesAreCompared
  <1>1. ASSUME UNCHANGED <<moving, ev, sugg>> PROVE MovesAreCompared'
    BY <1>1 DEF MovesAreCompared, Follows
  <1>2. CASE ApplyTrigger
    BY <1>2 DEF ApplyTrigger, Free, MovesAreCompared
  <1>3. ASSUME NEW u \in Lawyers, NEW d \in Dates \cup {None}, NEW o \in Lawyers, Confirm(u, d, o)
        PROVE  MovesAreCompared'
    <2>1. ev["hearing"] # None /\ sugg # None /\ sugg.status = "PENDING" /\ moving["hearing"] = None
      BY <1>3 DEF Confirm, Pending, Free, TypeOK
    <2>2. ev["deadline"] = None
      BY <2>1 DEF BornOnce, NoDeadlineYet
    <2>3. moving["deadline"] = None
      BY <2>2 DEF TypeOK
    <2> QED BY <1>3, <2>1, <2>3 DEF Confirm, MovesAreCompared
  <1>4. ASSUME NEW u \in Lawyers, Dismiss(u) PROVE MovesAreCompared'
    BY <1>4 DEF Dismiss, Pending, Free, MovesAreCompared
  <1>5. ASSUME NEW e \in Events, NEW o \in Lawyers, NEW kind \in BOOLEAN, Edit(e, o, kind)
        PROVE  MovesAreCompared'
    BY <1>5 DEF Edit, Free, MovesAreCompared, Follows, TypeOK
  <1>6. ASSUME NEW e \in Events, Remove(e) PROVE MovesAreCompared'
    BY <1>6 DEF Remove, Free, MovesAreCompared, Follows, TypeOK
  <1>7. ASSUME NEW u \in Lawyers, NEW e \in Events, NEW to \in Dates, BeginMove(u, e, to)
        PROVE  MovesAreCompared'
    <2> DEFINE new == [to |-> to, seen |-> screen[u]]
    <2>1. /\ moving'[e] = new /\ \A x \in Events \ {e} : moving'[x] = moving[x]
          /\ ev' = ev /\ sugg' = sugg
      BY <1>7 DEF BeginMove, TypeOK
    <2>2. Covered(e, screen[u]) = Covered(e, [ev |-> ev, sugg |-> sugg])
      BY <1>7 DEF BeginMove
    <2>3. ev[e] = screen[u].ev[e]
      BY <2>2 DEF Covered
    <2>4. e = "hearing" => /\ Follows(sugg) <=> Follows(screen[u].sugg)
                           /\ Follows(sugg) => sugg = screen[u].sugg
      <3> SUFFICES ASSUME e = "hearing"
                   PROVE  /\ Follows(sugg) <=> Follows(screen[u].sugg)
                          /\ Follows(sugg) => sugg = screen[u].sugg
        OBVIOUS
      <3> DEFINE Pair(s, dl) == IF Follows(s) THEN <<s, dl>> ELSE None
      <3>1. screen[u] \in Snapshot
        BY <1>7, RowTypes DEF BeginMove
      <3>2. Pair(screen[u].sugg, screen[u].ev["deadline"]) = Pair(sugg, ev["deadline"])
        BY <2>2 DEF Covered
      <3>3. \A s, dl : s \in Suggestion \cup {None} /\ dl \in EventRow \cup {None} /\ Follows(s)
                       => <<s, dl>> # None
        BY NoneAssumption DEF Follows
      <3>4. /\ screen[u].sugg \in Suggestion \cup {None} /\ sugg \in Suggestion \cup {None}
            /\ screen[u].ev["deadline"] \in EventRow \cup {None} /\ ev["deadline"] \in EventRow \cup {None}
        BY <3>1 DEF Snapshot, TypeOK
      <3> QED BY <3>2, <3>3, <3>4
    <2>5. MovesAreCompared' = (/\ \A x \in Events : moving'[x] # None => ev'[x] = moving'[x].seen.ev[x]
                               /\ moving'["hearing"] # None =>
                                    /\ Follows(sugg') <=> Follows(moving'["hearing"].seen.sugg)
                                    /\ Follows(sugg') => sugg' = moving'["hearing"].seen.sugg)
      BY DEF MovesAreCompared, Follows
    <2>6. ASSUME NEW x \in Events, moving'[x] # None PROVE ev'[x] = moving'[x].seen.ev[x]
      BY <2>1, <2>3, <2>6 DEF MovesAreCompared
    <2>7. ASSUME moving'["hearing"] # None
          PROVE  /\ Follows(sugg') <=> Follows(moving'["hearing"].seen.sugg)
                 /\ Follows(sugg') => sugg' = moving'["hearing"].seen.sugg
      <3>1. CASE e = "hearing"
        BY <2>1, <2>4, <3>1
      <3>2. CASE e # "hearing"
        BY <2>1, <2>7, <3>2 DEF MovesAreCompared
      <3> QED BY <3>1, <3>2
    <2> QED BY <2>5, <2>6, <2>7
  <1>8. CASE CommitDeadline
    BY <1>8 DEF CommitDeadline, MovesAreCompared, Follows, TypeOK
  <1>9. CASE CommitHearing
    BY <1>9 DEF CommitHearing, Free, MovesAreCompared, TypeOK
  <1>10. CASE Crash
    BY <1>10 DEF Crash, MovesAreCompared
  <1> QED BY <1>1, <1>2, <1>3, <1>4, <1>5, <1>6, <1>7, <1>8, <1>9, <1>10
          DEF Next, vars, Look, ChangeLead, Acknowledge, JobReads, Remind, LogReminder, JobEnds

\* An acceptance is of the event as it is, or of an earlier version.
LEMMA StepAcceptances ==
  ASSUME IInv, [Next]_vars, TypeOK'
  PROVE  AcceptancesAreOld'
  <1> USE DEF IInv, Events
  <1>1. ASSUME NEW u \in Lawyers, NEW e \in Events, NEW complete \in BOOLEAN, Acknowledge(u, e, complete)
        PROVE  AcceptancesAreOld'
    <2> DEFINE row == [rev |-> ev[e].rev, owner |-> u, done |-> complete,
                       saw |-> IF complete THEN resp[e].saw ELSE screen[u].ev[e].at]
    <2>1. /\ resp'[e] = row /\ \A x \in Events \ {e} : resp'[x] = resp[x]
          /\ ev' = ev /\ ev[e] # None /\ ev[e].rev \in Nat
      BY <1>1, RowTypes DEF Acknowledge, TypeOK
    <2>2. row.saw = ev[e].at
      <3>1. CASE complete
        BY <1>1, <3>1 DEF Acknowledge, Valid, AcceptancesAreOld
      <3>2. CASE ~complete
        BY <1>1, <3>2 DEF Acknowledge, Current, ScreensAreOld, Older
      <3> QED BY <3>1, <3>2
    <2> QED BY <2>1, <2>2 DEF AcceptancesAreOld
  <1>2. ASSUME \A e \in Events : resp'[e] = resp[e] \/ resp'[e] = None PROVE AcceptancesAreOld'
    <2> SUFFICES ASSUME NEW e \in Events, resp'[e] # None
                 PROVE  resp'[e].rev <= ev'[e].rev /\ (resp'[e].rev = ev'[e].rev => resp'[e].saw = ev'[e].at)
      BY DEF AcceptancesAreOld
    <2>1. /\ resp'[e] = resp[e] /\ resp[e] # None /\ ev[e] # None /\ ev[e].rev \in Nat /\ resp[e].rev \in Nat
          /\ ev'[e] # None
      BY <1>2, RowTypes DEF Responsibility, TypeOK
    <2>2. resp[e].rev <= ev[e].rev /\ (resp[e].rev = ev[e].rev => resp[e].saw = ev[e].at)
      BY <2>1 DEF AcceptancesAreOld
    <2>3. Evolves(ev[e], ev'[e])
      BY <2>1, RowsEvolve DEF BornOnce
    <2> QED BY <2>1, <2>2, <2>3 DEF Evolves
  <1>3. \A u, d, o, e, kind, to :
          Confirm(u, d, o) \/ Dismiss(u) \/ Edit(e, o, kind) \/ ChangeLead(e, o) \/ BeginMove(u, e, to) \/ Look(u)
            => resp' = resp
    BY DEF Confirm, Dismiss, Edit, ChangeLead, BeginMove, Look
  <1>4. \A r, e : JobReads(r) \/ Remind(r, e) \/ LogReminder(r) \/ JobEnds(r) => resp' = resp
    BY DEF JobReads, Remind, LogReminder, JobEnds
  <1>5. ApplyTrigger \/ CommitDeadline \/ CommitHearing \/ Crash \/ UNCHANGED vars => resp' = resp
    BY DEF ApplyTrigger, CommitDeadline, CommitHearing, Crash, vars
  <1>6. ASSUME NEW e \in Events, Remove(e) PROVE \A x \in Events : resp'[x] = resp[x] \/ resp'[x] = None
    BY <1>6 DEF Remove, TypeOK
  <1> QED BY <1>1, <1>2, <1>3, <1>4, <1>5, <1>6 DEF Next

\* The deadline stays with the hearing.
LEMMA StepFollow ==
  ASSUME IInv, [Next]_vars
  PROVE  DeadlinesFollowTheHearing'
  <1> USE DEF IInv, Events
  <1> DEFINE InPlace(s, h, dl, x) ==
        s # None /\ s.status # "DISMISSED" /\ ~x.late => s.date = Due[h.at] /\ (dl # None /\ ~x.own => dl.at = s.date)
  <1>0. /\ DeadlinesFollowTheHearing <=> InPlace(sugg, ev["hearing"], ev["deadline"], excused)
        /\ DeadlinesFollowTheHearing' <=> InPlace(sugg', ev'["hearing"], ev'["deadline"], excused')
    BY DEF DeadlinesFollowTheHearing, Follows
  <1>1. ASSUME UNCHANGED <<ev, sugg, excused>> PROVE DeadlinesFollowTheHearing'
    BY <1>0, <1>1
  <1>2. CASE ApplyTrigger
    <2>1. CASE ev["hearing"] = None \/ sugg # None
      BY <1>1, <1>2, <2>1 DEF ApplyTrigger
    <2>2. CASE ~(ev["hearing"] = None \/ sugg # None)
      <3>1. ev["deadline"] = None /\ ev' = ev /\ trigger \in Dates
        BY <1>2, <2>2 DEF BornOnce, NoDeadlineYet, ApplyTrigger, TypeOK
      <3>2. sugg'.date = Due[trigger] /\ excused'.late = (trigger # ev["hearing"].at)
        BY <1>2, <2>2 DEF ApplyTrigger, TypeOK
      <3> QED BY <1>0, <3>1, <3>2
    <2> QED BY <2>1, <2>2
  <1>3. ASSUME NEW u \in Lawyers, NEW d \in Dates \cup {None}, NEW o \in Lawyers, Confirm(u, d, o)
        PROVE  DeadlinesFollowTheHearing'
    <2>1. sugg \in Suggestion /\ sugg # None /\ sugg.status = "PENDING"
      BY <1>3, RowTypes DEF Confirm, Pending
    <2>2. sugg'.date = sugg.date
      BY <1>3, <2>1 DEF Confirm, Suggestion
    <2>3. ev'["hearing"] = ev["hearing"] /\ ev'["deadline"].at = (IF d = None THEN sugg.date ELSE d)
      BY <1>3 DEF Confirm, TypeOK
    <2>4. excused'.late = excused.late /\ excused'.own = (d # None)
      BY <1>3 DEF Confirm, TypeOK
    <2> QED BY <1>0, <2>1, <2>2, <2>3, <2>4
  <1>4. ASSUME NEW u \in Lawyers, Dismiss(u) PROVE DeadlinesFollowTheHearing'
    <2>1. sugg \in Suggestion
      BY <1>4, RowTypes DEF Dismiss, Pending
    <2>2. sugg'.status = "DISMISSED"
      BY <1>4, <2>1 DEF Dismiss, Suggestion
    <2> QED BY <1>0, <2>2
  <1>5. ASSUME NEW e \in Events, NEW o \in Lawyers, NEW kind \in BOOLEAN, Edit(e, o, kind)
        PROVE  DeadlinesFollowTheHearing'
    <2>1. ev[e] \in EventRow /\ ev[e] # None
      BY <1>5, RowTypes DEF Edit
    <2>2. ev'[e].at = ev[e].at /\ (\A x \in Events \ {e} : ev'[x] = ev[x]) /\ sugg' = sugg /\ excused' = excused
      BY <1>5, <2>1 DEF Edit, TypeOK, EventRow
    <2>3. ev'["hearing"].at = ev["hearing"].at /\ (ev["deadline"] # None => ev'["deadline"].at = ev["deadline"].at)
          /\ (ev["deadline"] = None => ev'["deadline"] = None)
      BY <2>1, <2>2
    <2> QED BY <1>0, <2>2, <2>3
  <1>6. ASSUME NEW e \in Events, Remove(e) PROVE DeadlinesFollowTheHearing'
    BY <1>0, <1>6 DEF Remove, TypeOK
  <1>7. CASE CommitDeadline
    <2>1. sugg' = sugg /\ ev'["hearing"] = ev["hearing"] /\ excused'.late = excused.late /\ excused'.own
      BY <1>7 DEF CommitDeadline, TypeOK
    <2> QED BY <1>0, <2>1
  <1>8. CASE CommitHearing
    <2>1. CASE UNCHANGED <<ev, sugg, log, excused>>
      BY <1>1, <2>1
    <2>2. CASE ~UNCHANGED <<ev, sugg, log, excused>> /\ Follows(sugg)
      <3>1. /\ ev'["hearing"].at = moving["hearing"].to /\ sugg'.date = Due[moving["hearing"].to]
            /\ ev["deadline"] # None => ev'["deadline"].at = Due[moving["hearing"].to]
            /\ ev["deadline"] = None => ev'["deadline"] = None
        BY <1>8, <2>2, HearingMove
      <3> QED BY <1>0, <3>1
    <2>3. CASE ~UNCHANGED <<ev, sugg, log, excused>> /\ ~Follows(sugg)
      <3>1. sugg' = sugg
        BY <1>8, <2>3, HearingMove
      <3> QED BY <1>0, <2>3, <3>1 DEF Follows
    <2> QED BY <2>1, <2>2, <2>3
  <1> QED BY <1>1, <1>2, <1>3, <1>4, <1>5, <1>6, <1>7, <1>8
          DEF Next, vars, Look, ChangeLead, Acknowledge, BeginMove, JobReads, Remind, LogReminder, JobEnds, Crash

-----------------------------------------------------------------------------
\* The invariant is inductive.
LEMMA StepIInv == IInv /\ [Next]_vars => IInv'
  <1> SUFFICES ASSUME IInv, [Next]_vars PROVE IInv'
    OBVIOUS
  <1>1. TypeOK'
    BY StepTypeOK
  <1>2. ScreensAreOld' /\ BornOnce'
    BY StepScreens
  <1>3. MovesAreCompared'
    BY StepMoves
  <1>4. AcceptancesAreOld'
    BY <1>1, StepAcceptances
  <1>5. DeadlinesFollowTheHearing'
    BY StepFollow
  <1> QED BY <1>1, <1>2, <1>3, <1>4, <1>5 DEF IInv

LEMMA Invariant == Spec => []IInv
  BY InitIInv, StepIInv, PTL DEF Spec

\* The rows are well formed, and a reschedule under way has rows to write.
THEOREM TypeCorrect == Spec => []TypeOK
  BY Invariant, PTL DEF IInv

\* Nobody has accepted a date other than the one that holds (acknowledge, get).
THEOREM AcceptedIsCurrent == Spec => []AcceptedDateIsTheCurrentOne
  <1>1. IInv => AcceptedDateIsTheCurrentOne
    BY DEF IInv, AcceptancesAreOld, AcceptedDateIsTheCurrentOne, Valid
  <1> QED BY Invariant, <1>1, PTL

\* The suggestion and its deadline go where the rule puts them (reschedule, confirm).
THEOREM DeadlinesFollow == Spec => []DeadlinesFollowTheHearing
  BY Invariant, PTL DEF IInv

\* No date enters or changes that a lawyer had not seen or chosen (confirm, reschedule).
THEOREM OnlyReviewedDates == Spec => ReviewedDatesOnly
  <1> DEFINE Entered == ev["deadline"] = None /\ ev'["deadline"] # None /\ ~excused'.own =>
               \E u \in Lawyers : screen[u] # None /\ screen[u].sugg # None
                                    /\ screen[u].sugg.date = ev'["deadline"].at
             Changed == \A e \in Events :
               ev[e] # None /\ ev'[e] # None /\ ev'[e].at # ev[e].at =>
                 \E f \in Events : moving[f] # None /\ moving[f].seen.ev[e] # None
                                     /\ moving[f].seen.ev[e].at = ev[e].at
  <1>1. IInv /\ [Next]_vars => Entered /\ Changed
    <2> SUFFICES ASSUME IInv, [Next]_vars PROVE Entered /\ Changed
      OBVIOUS
    <2> USE DEF IInv, Events
    <2>1. ev' = ev => Entered /\ Changed
      OBVIOUS
    <2>2. ASSUME NEW u \in Lawyers, NEW d \in Dates \cup {None}, NEW o \in Lawyers, Confirm(u, d, o)
          PROVE  Entered /\ Changed
      <3>1. sugg # None /\ sugg.status = "PENDING" /\ ev["hearing"] # None /\ ev["deadline"] = None
        BY <2>2 DEF Confirm, Pending, TypeOK, BornOnce, NoDeadlineYet
      <3>2. screen[u] # None /\ screen[u].sugg = sugg
        BY <2>2, <3>1 DEF Confirm, Pending, Reviewed, ScreensAreOld, Older
      <3>3. ev'["hearing"] = ev["hearing"] /\ (d = None => ev'["deadline"].at = sugg.date)
        BY <2>2 DEF Confirm, TypeOK
      <3>4. excused'.own = (d # None)
        BY <2>2 DEF Confirm, TypeOK
      <3>5. Entered
        BY <3>1, <3>2, <3>3, <3>4
      <3>6. Changed
        BY <3>1, <3>3
      <3> QED BY <3>5, <3>6
    <2>3. ASSUME NEW e \in Events, NEW o \in Lawyers, NEW kind \in BOOLEAN, Edit(e, o, kind)
          PROVE  Entered /\ Changed
      <3>1. ev[e] \in EventRow /\ ev[e] # None
        BY <2>3, RowTypes DEF Edit
      <3>2. ev'[e].at = ev[e].at /\ (\A x \in Events \ {e} : ev'[x] = ev[x])
        BY <2>3, <3>1 DEF Edit, TypeOK, EventRow
      <3> QED BY <3>1, <3>2
    <2>4. ASSUME NEW e \in Events, Remove(e) PROVE Entered /\ Changed
      BY <2>4 DEF Remove, TypeOK
    <2>5. CASE CommitDeadline
      <3>1. /\ moving["deadline"] # None /\ ev["deadline"] # None
            /\ ev["deadline"] = moving["deadline"].seen.ev["deadline"]
            /\ ev'["hearing"] = ev["hearing"]
        BY <2>5 DEF CommitDeadline, MovesAreCompared, TypeOK
      <3> QED BY <3>1
    <2>6. CASE CommitHearing
      <3>1. moving["hearing"] # None /\ ev["hearing"] # None /\ ev["hearing"] = moving["hearing"].seen.ev["hearing"]
        BY <2>6 DEF CommitHearing, MovesAreCompared, TypeOK
      <3>2. \/ ev'["deadline"] = ev["deadline"]
            \/ /\ ev["deadline"] = moving["hearing"].seen.ev["deadline"]
               /\ ev["deadline"] = None => ev'["deadline"] = None
        BY <2>6, HearingMove
      <3> QED BY <3>1, <3>2
    <2>7. \A u, o, e, complete, to :
            Look(u) \/ Dismiss(u) \/ ChangeLead(e, o) \/ Acknowledge(u, e, complete) \/ BeginMove(u, e, to)
              => ev' = ev
      BY DEF Look, Dismiss, ChangeLead, Acknowledge, BeginMove
    <2>8. \A r, e : JobReads(r) \/ Remind(r, e) \/ LogReminder(r) \/ JobEnds(r) => ev' = ev
      BY DEF JobReads, Remind, LogReminder, JobEnds
    <2>9. ApplyTrigger \/ Crash \/ UNCHANGED vars => ev' = ev
      BY DEF ApplyTrigger, Crash, vars
    <2> HIDE DEF Entered, Changed
    <2> QED BY <2>1, <2>2, <2>3, <2>4, <2>5, <2>6, <2>7, <2>8, <2>9 DEF Next
  <1>2. IInv /\ [Next]_vars => [Entered /\ Changed]_vars
    BY <1>1
  <1> QED BY Invariant, <1>2, PTL DEF Spec, ReviewedDatesOnly
=============================================================================
