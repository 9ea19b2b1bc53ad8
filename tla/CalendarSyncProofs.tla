------------------------- MODULE CalendarSyncProofs -------------------------
(***************************************************************************)
(* Proofs about CalendarSync, for any number of mailboxes, any times and   *)
(* any number of acts.                                                     *)
(***************************************************************************)
EXTENDS CalendarSync, SequenceTheorems, WellFoundedInduction, TLAPS

\* A copy that is held names an event created in Outlook, in its own mailbox, and claims
\* no version that Outlook was not given.
Backed(cp) == cp # None =>
  cp \in CopyOf /\ outlook[cp.gid].box = cp.box /\ cp.synced <= outlook[cp.gid].ver

CopiesAreBacked == Backed(row) /\ Backed(job.cp) /\ Backed(poll.cp) /\ Backed(cleanup.cp)

\* An event as read earlier: an older version, or the time it has now.
ReadBefore(ev) == ev \in EventRows /\ ev.ver <= event.ver /\ (ev.ver = event.ver => ev.time = event.time)

\* The sync's event is at least as new as anything in Outlook, for only the sync writes there.
NewestInOutlook(ev) == \A g \in DOMAIN outlook : outlook[g].ver <= ev.ver

JobHoldsItsReads ==
  /\ job.pc \in {"pick", "write", "record"} \/ job.to # None => ReadBefore(job.ev) /\ NewestInOutlook(job.ev)
  /\ job.pc \in {"delete", "call", "drop"} => job.cp # None
  /\ job.pc \in {"write", "record"} => job.to \in Mailboxes
  /\ job.pc = "write" /\ job.cp # None => job.cp.box = job.to
  /\ job.pc = "record" =>
       /\ job.gid \in DOMAIN outlook
       /\ outlook[job.gid].box = job.to /\ outlook[job.gid].ver = job.ev.ver

PollHoldsItsReads ==
  /\ poll.pc # "idle" => poll.cp # None
  /\ poll.pc \in {"handle", "take"} => poll.seen \in OutlookEvents /\ poll.cp.synced <= poll.seen.ver

CleanupHoldsItsReads ==
  /\ cleanup.pc # "idle" => cleanup.box \in Mailboxes
  /\ cleanup.pc \in {"delete", "call", "drop"} => cleanup.cp # None

\* An Outlook event that the owner left alone shows the time of the version it carries.
OursShowsItsVersion ==
  /\ \A g \in DOMAIN outlook :
       outlook[g].state = "ours" /\ outlook[g].ver = event.ver => outlook[g].time = event.time
  /\ poll.pc \in {"handle", "take"} =>
       (poll.seen.state = "ours" /\ poll.seen.ver = event.ver => poll.seen.time = event.time)

IInv ==
  /\ TypeOK
  /\ CopiesAreBacked
  /\ JobHoldsItsReads
  /\ PollHoldsItsReads
  /\ CleanupHoldsItsReads
  /\ OursShowsItsVersion
  /\ OnlyOwnersMovesAreTaken

-----------------------------------------------------------------------------
\* The initial state satisfies the invariant.
LEMMA InitIInv == Init => IInv
  <1> SUFFICES ASSUME Init PROVE IInv
    OBVIOUS
  <1> USE DEF Init, IdleJob, IdlePoll, IdleCleanup
  <1>1. event = [live |-> TRUE, ver |-> 1, time |-> CHOOSE t \in Times : TRUE, attends |-> TRUE]
    OBVIOUS
  <1>2. (CHOOSE t \in Times : TRUE) \in Times
    BY SyncAssumption
  <1>3. event \in EventRows
    BY <1>1, <1>2 DEF EventRows
  <1>4. outlook \in Seq(OutlookEvents) /\ DOMAIN outlook = {}
    BY EmptySeq
  <1>5. TypeOK
    BY <1>3, <1>4 DEF TypeOK, Jobs, Polls, Cleanups, Statuses
  <1> QED
    BY <1>4, <1>5
    DEF IInv, CopiesAreBacked, Backed, JobHoldsItsReads, PollHoldsItsReads, CleanupHoldsItsReads,
        OursShowsItsVersion, OnlyOwnersMovesAreTaken

-----------------------------------------------------------------------------
(* What a step does to the event and to Outlook.                            *)

\* Setting a column of the event's row.
LEMMA VersionSet ==
  ASSUME NEW e \in EventRows, NEW n \in Nat \ {0}
  PROVE  [e EXCEPT !.ver = n] \in EventRows /\ [e EXCEPT !.ver = n].ver = n
  BY DEF EventRows

LEMMA TimeSet ==
  ASSUME NEW e \in EventRows, NEW t \in Times
  PROVE  [e EXCEPT !.time = t] \in EventRows /\ [e EXCEPT !.time = t].ver = e.ver
  BY DEF EventRows

LEMMA AttendsSet ==
  ASSUME NEW e \in EventRows, NEW a \in BOOLEAN
  PROVE  [e EXCEPT !.attends = a] \in EventRows /\ [e EXCEPT !.attends = a].ver = e.ver
  BY DEF EventRows

LEMMA MarkSet ==
  ASSUME event \in EventRows, event' = [event EXCEPT !.attends = ~@] \/ event' = [event EXCEPT !.live = FALSE]
  PROVE  event' \in EventRows /\ event'.ver = event.ver /\ event'.time = event.time
  BY DEF EventRows

\* The version of the event never falls, and a time belongs to one version.
LEMMA EventSteps ==
  ASSUME IInv, [Next]_vars
  PROVE  /\ event' \in EventRows /\ event.ver \in Nat /\ event'.ver \in Nat
         /\ event.ver <= event'.ver
         /\ event'.ver = event.ver => event'.time = event.time
  <1>1. event \in EventRows /\ event.ver \in Nat \ {0} /\ event.ver + 1 \in Nat \ {0}
    BY DEF IInv, TypeOK, EventRows
  <1> DEFINE e1 == [event EXCEPT !.ver = event.ver + 1]
             e2(t) == [e1 EXCEPT !.time = t]
             e3(t, a) == [e2(t) EXCEPT !.attends = a]
  <1>2. e1 \in EventRows /\ e1.ver = event.ver + 1
    BY <1>1, VersionSet
  <1>3. ASSUME NEW t \in Times PROVE e2(t) \in EventRows /\ e2(t).ver = event.ver + 1
    <2> HIDE DEF e1
    <2> QED BY <1>2, TimeSet
  <1>4. ASSUME NEW t \in Times, NEW a \in BOOLEAN, NEW told \in BOOLEAN, EditEvent(t, a, told)
        PROVE  event' \in EventRows /\ event'.ver = event.ver + 1
    <2>1. event' = e3(t, a)
      BY <1>4 DEF EditEvent
    <2> HIDE DEF e2
    <2>2. e3(t, a) \in EventRows /\ e3(t, a).ver = event.ver + 1
      BY <1>3, AttendsSet
    <2> HIDE DEF e3
    <2> QED BY <2>1, <2>2
  <1>5. CASE \E movable \in BOOLEAN : PollTakes(movable)
    <2>1. poll.seen.time \in Times
      BY <1>5 DEF PollTakes, IInv, PollHoldsItsReads, OutlookEvents
    <2>2. event' = event \/ event' = e2(poll.seen.time)
      BY <1>5 DEF PollTakes
    <2>3. e2(poll.seen.time) \in EventRows /\ e2(poll.seen.time).ver = event.ver + 1
      BY <1>3, <2>1
    <2> HIDE DEF e2
    <2> QED BY <1>1, <2>2, <2>3
  <1>6. CASE ChangeLead
    BY <1>1, <1>6, MarkSet DEF ChangeLead
  <1>7. CASE \E told \in BOOLEAN : RemoveEvent(told)
    BY <1>1, <1>7, MarkSet DEF RemoveEvent
  <1>8. KeepProposal \/ MarkKeptCopy \/ RestoreMyCopy => event' = event
    BY DEF KeepProposal, MarkKeptCopy, RestoreMyCopy
  <1>9. \A g \in DOMAIN outlook : (\E t \in Times : OwnerMoves(g, t)) \/ OwnerDeletes(g) => event' = event
    BY DEF OwnerMoves, OwnerDeletes
  <1>10. \A b \in Mailboxes : Break(b) \/ Reconnect(b) \/ TurnOn(b) \/ TurnOff(b) \/ Disconnect(b) => event' = event
    BY DEF Break, Reconnect, TurnOn, TurnOff, Disconnect
  <1>11. Sync => event' = event
    BY DEF Sync, ReadEvent, PickMailbox, LookAtOldCopy, DeleteOldCopy, DropOldRow, WriteCopy, WriteFails, RecordCopy
  <1>12. Cleanup \/ Reconcile \/ Crash => event' = event
    BY DEF Cleanup, CleanupReads, CleanupLooks, CleanupDeletes, CleanupDropsRow, CleanupRevokes, Reconcile, Crash
  <1>13. PollReads \/ PollDelta \/ PollSeesNothing \/ PollMarksRemoved \/ PollReadsEvent => event' = event
    BY DEF PollReads, PollDelta, PollSeesNothing, PollMarksRemoved, PollReadsEvent
  <1> QED
    BY <1>1, <1>4, <1>5, <1>6, <1>7, <1>8, <1>9, <1>10, <1>11, <1>12, <1>13 DEF Next, People, Poll, vars

\* An event in Outlook is added or changed: by its owner or a deletion, which leave its
\* mailbox and version and mark it, or by the sync, which writes what it read.
Changed(g, v) ==
  /\ outlook' \in Seq(OutlookEvents)
  /\ g \in DOMAIN outlook' /\ DOMAIN outlook' = DOMAIN outlook \cup {g}
  /\ outlook'[g] = v
  /\ \A h \in DOMAIN outlook \ {g} : outlook'[h] = outlook[h]
  /\ \/ g \in DOMAIN outlook /\ v.box = outlook[g].box /\ v.ver = outlook[g].ver /\ v.state # "ours"
     \/ /\ job.pc = "write" /\ v = Written
        /\ g \in DOMAIN outlook => outlook[g].box = v.box /\ outlook[g].ver <= v.ver

\* Replacing one event changes that one.
LEMMA Replaced ==
  ASSUME IInv, NEW g \in DOMAIN outlook, NEW v \in OutlookEvents,
         v.box = outlook[g].box,
         \/ v.ver = outlook[g].ver /\ v.state # "ours"
         \/ job.pc = "write" /\ v = Written /\ outlook[g].ver <= v.ver,
         outlook' = [outlook EXCEPT ![g] = v]
  PROVE  Changed(g, v)
  <1>1. outlook \in Seq(OutlookEvents) /\ DOMAIN outlook = 1 .. Len(outlook)
    BY LenProperties DEF IInv, TypeOK
  <1>2. /\ outlook' \in Seq(OutlookEvents) /\ Len(outlook') = Len(outlook)
        /\ \A h \in 1 .. Len(outlook) : outlook'[h] = IF h = g THEN v ELSE outlook[h]
    BY <1>1, ExceptSeq
  <1>3. DOMAIN outlook' = 1 .. Len(outlook')
    BY <1>2, LenProperties
  <1> QED
    BY <1>1, <1>2, <1>3 DEF Changed

\* What the sync writes is an Outlook event.
LEMMA WrittenType ==
  ASSUME IInv, job.pc = "write"
  PROVE  Written \in OutlookEvents
  BY DEF IInv, JobHoldsItsReads, ReadBefore, EventRows, Written, OutlookEvents, TypeOK

\* An event that the owner or a deletion touches keeps its mailbox and version.
LEMMA Marked ==
  ASSUME IInv, NEW g \in DOMAIN outlook, NEW st \in {"moved"} \cup Gone,
         outlook' = [outlook EXCEPT ![g].state = st]
  PROVE  \E v : Changed(g, v)
  <1>1. outlook[g] \in OutlookEvents
    BY LenProperties, ElementOfSeq DEF IInv, TypeOK
  <1> DEFINE v == [outlook[g] EXCEPT !.state = st]
  <1>2. v \in OutlookEvents /\ v.box = outlook[g].box /\ v.ver = outlook[g].ver /\ v.state # "ours"
    BY <1>1 DEF OutlookEvents, Gone
  <1>3. outlook' = [outlook EXCEPT ![g] = v]
    OBVIOUS
  <1> HIDE DEF v
  <1> QED BY <1>2, <1>3, Replaced

LEMMA MovedByOwner ==
  ASSUME IInv, NEW g \in DOMAIN outlook, NEW t \in Times,
         outlook' = [outlook EXCEPT ![g].time = t, ![g].state = "moved"]
  PROVE  \E v : Changed(g, v)
  <1>1. outlook \in Seq(OutlookEvents) /\ outlook[g] \in OutlookEvents
    BY LenProperties, ElementOfSeq DEF IInv, TypeOK
  <1> DEFINE u == [outlook[g] EXCEPT !.time = t]
             v == [u EXCEPT !.state = "moved"]
  <1>2. outlook' = [outlook EXCEPT ![g] = v]
    BY <1>1
  <1>3. u \in OutlookEvents /\ u.box = outlook[g].box /\ u.ver = outlook[g].ver
    BY <1>1 DEF OutlookEvents
  <1> HIDE DEF u
  <1>4. v \in OutlookEvents /\ v.box = outlook[g].box /\ v.ver = outlook[g].ver /\ v.state # "ours"
    BY <1>3 DEF OutlookEvents
  <1> HIDE DEF v
  <1> QED BY <1>2, <1>4, Replaced

\* Outlook stays as it is or has one event added or changed.
LEMMA OutlookSteps ==
  ASSUME IInv, [Next]_vars
  PROVE  outlook' = outlook \/ \E g, v : Changed(g, v)
  <1>1. ASSUME NEW g \in DOMAIN outlook, NEW t \in Times, OwnerMoves(g, t) \/ OwnerDeletes(g)
        PROVE  \E h, v : Changed(h, v)
    <2>1. CASE OwnerMoves(g, t)
      BY <2>1, MovedByOwner DEF OwnerMoves
    <2>2. CASE OwnerDeletes(g)
      <3>1. "deleted" \in {"moved"} \cup Gone
        BY DEF Gone
      <3> QED BY <2>2, <3>1, Marked DEF OwnerDeletes
    <2> QED BY <1>1, <2>1, <2>2
  <1>2. ASSUME NEW cp, Backed(cp), cp # None,
               outlook' = [outlook EXCEPT ![cp.gid].state = "withdrawn"]
        PROVE  \E h, v : Changed(h, v)
    <2>1. cp.gid \in DOMAIN outlook /\ "withdrawn" \in {"moved"} \cup Gone
      BY <1>2 DEF Backed, CopyOf, Gone
    <2> QED BY <1>2, <2>1, Marked
  <1>3. ASSUME job.pc = "write", Found, outlook' = [outlook EXCEPT ![job.cp.gid] = Written]
        PROVE  Changed(job.cp.gid, Written)
    <2>1. job.cp.gid \in DOMAIN outlook /\ outlook[job.cp.gid].box = job.to
      BY <1>3 DEF IInv, CopiesAreBacked, Backed, CopyOf, JobHoldsItsReads, Found
    <2>2. Written.box = job.to /\ outlook[job.cp.gid].ver <= Written.ver
      BY <1>3, <2>1 DEF Written, IInv, JobHoldsItsReads, NewestInOutlook
    <2> QED BY <1>3, <2>1, <2>2, WrittenType, Replaced
  <1>4. CASE WriteCopy
    <2>1. CASE Found
      BY <1>3, <1>4, <2>1 DEF WriteCopy
    <2>2. CASE ~Found
      <3>1. job.pc = "write" /\ outlook' = Append(outlook, Written)
        BY <1>4, <2>2 DEF WriteCopy
      <3>2. Written \in OutlookEvents /\ outlook \in Seq(OutlookEvents) /\ Len(outlook) \in Nat
            /\ DOMAIN outlook = 1 .. Len(outlook)
        BY <3>1, WrittenType, LenProperties DEF IInv, TypeOK
      <3>3. /\ outlook' \in Seq(OutlookEvents) /\ Len(outlook') = Len(outlook) + 1
            /\ outlook'[Len(outlook) + 1] = Written
            /\ \A h \in 1 .. Len(outlook) : outlook'[h] = outlook[h]
        BY <3>1, <3>2, AppendProperties
      <3>4. DOMAIN outlook' = 1 .. Len(outlook')
        BY <3>3, LenProperties
      <3>5. Changed(Len(outlook) + 1, Written)
        BY <3>1, <3>2, <3>3, <3>4 DEF Changed
      <3> QED BY <3>5
    <2> QED BY <2>1, <2>2
  <1>5. ASSUME NEW a \in BOOLEAN, WriteFails(a) PROVE outlook' = outlook \/ \E g, v : Changed(g, v)
    BY <1>3, <1>5 DEF WriteFails
  <1>6. ASSUME NEW a \in BOOLEAN, NEW b \in BOOLEAN, DeleteOldCopy(a, b) \/ CleanupDeletes(a, b)
        PROVE  outlook' = outlook \/ \E g, v : Changed(g, v)
    <2>1. CASE DeleteOldCopy(a, b)
      BY <1>2, <2>1 DEF DeleteOldCopy, DeleteInOutlook, IInv, JobHoldsItsReads, CopiesAreBacked
    <2>2. CASE CleanupDeletes(a, b)
      BY <1>2, <2>2 DEF CleanupDeletes, DeleteInOutlook, IInv, CleanupHoldsItsReads, CopiesAreBacked
    <2> QED BY <1>6, <2>1, <2>2
  <1>7. \A t \in Times, a, told \in BOOLEAN : EditEvent(t, a, told) => outlook' = outlook
    BY DEF EditEvent
  <1>8. ChangeLead \/ KeepProposal \/ MarkKeptCopy \/ RestoreMyCopy \/ (\E told \in BOOLEAN : RemoveEvent(told)) => outlook' = outlook
    BY DEF ChangeLead, KeepProposal, MarkKeptCopy, RestoreMyCopy, RemoveEvent
  <1>9. \A b \in Mailboxes : Break(b) \/ Reconnect(b) \/ TurnOn(b) \/ TurnOff(b) \/ Disconnect(b) => outlook' = outlook
    BY DEF Break, Reconnect, TurnOn, TurnOff, Disconnect
  <1>10. ReadEvent \/ PickMailbox \/ LookAtOldCopy \/ DropOldRow \/ RecordCopy => outlook' = outlook
    BY DEF ReadEvent, PickMailbox, LookAtOldCopy, DropOldRow, RecordCopy
  <1>11. CleanupReads \/ CleanupLooks \/ CleanupDropsRow \/ CleanupRevokes \/ Reconcile \/ Crash \/ Poll => outlook' = outlook
    BY DEF CleanupReads, CleanupLooks, CleanupDropsRow, CleanupRevokes, Reconcile, Crash, Poll, PollReads, PollDelta,
           PollSeesNothing, PollMarksRemoved, PollReadsEvent, PollTakes
  <1> QED
    BY SyncAssumption, <1>1, <1>4, <1>5, <1>6, <1>7, <1>8, <1>9, <1>10, <1>11 DEF Next, People, Sync, Cleanup, vars

\* Row ids only grow.
LEMMA RowsSteps ==
  ASSUME IInv, [Next]_vars
  PROVE  rows \in Nat /\ rows' \in Nat /\ rows <= rows'
  <1>1. rows \in Nat
    BY DEF IInv, TypeOK
  <1>2. (\E t \in Times, a, told \in BOOLEAN : EditEvent(t, a, told)) \/ ChangeLead
          \/ (\E told \in BOOLEAN : RemoveEvent(told)) \/ KeepProposal \/ MarkKeptCopy \/ RestoreMyCopy => rows' = rows
    BY DEF EditEvent, ChangeLead, RemoveEvent, KeepProposal, MarkKeptCopy, RestoreMyCopy
  <1>3. \A g \in DOMAIN outlook : (\E t \in Times : OwnerMoves(g, t)) \/ OwnerDeletes(g) => rows' = rows
    BY DEF OwnerMoves, OwnerDeletes
  <1>4. \A b \in Mailboxes : Break(b) \/ Reconnect(b) \/ TurnOn(b) \/ TurnOff(b) \/ Disconnect(b) => rows' = rows
    BY DEF Break, Reconnect, TurnOn, TurnOff, Disconnect
  <1>5. Sync => rows' = rows \/ rows' = rows + 1
    BY DEF Sync, ReadEvent, PickMailbox, LookAtOldCopy, DeleteOldCopy, DropOldRow, WriteCopy, WriteFails, RecordCopy
  <1>6. Cleanup \/ Reconcile \/ Crash => rows' = rows
    BY DEF Cleanup, CleanupReads, CleanupLooks, CleanupDeletes, CleanupDropsRow, CleanupRevokes, Reconcile, Crash
  <1>7. Poll => rows' = rows
    BY DEF Poll, PollReads, PollDelta, PollSeesNothing, PollMarksRemoved, PollReadsEvent, PollTakes
  <1> QED
    BY <1>1, <1>2, <1>3, <1>4, <1>5, <1>6, <1>7 DEF Next, People, vars

\* What was read or recorded stays true of the next state.
LEMMA Grows ==
  ASSUME IInv, [Next]_vars
  PROVE  /\ \A g \in DOMAIN outlook : /\ g \in DOMAIN outlook'
                                      /\ outlook'[g].box = outlook[g].box
                                      /\ outlook[g].ver <= outlook'[g].ver
         /\ OutlookEvents \subseteq OutlookEvents' /\ outlook' \in Seq(OutlookEvents')
         /\ CopyOf \subseteq CopyOf'
         /\ \A cp : Backed(cp) => Backed(cp)'
         /\ \A e : ReadBefore(e) => ReadBefore(e)'
  <1>1. /\ outlook \in Seq(OutlookEvents)
        /\ \A g \in DOMAIN outlook : outlook[g] \in OutlookEvents
    BY LenProperties, ElementOfSeq DEF IInv, TypeOK
  <1>2. \A g \in DOMAIN outlook : outlook[g].ver \in Nat
    BY <1>1, EventSteps DEF OutlookEvents
  <1>3. \A g \in DOMAIN outlook : /\ g \in DOMAIN outlook'
                                  /\ outlook'[g].box = outlook[g].box
                                  /\ outlook[g].ver <= outlook'[g].ver
    <2>1. CASE outlook' = outlook
      BY <1>2, <2>1
    <2>2. ASSUME NEW h, NEW v, Changed(h, v)
          PROVE  \A g \in DOMAIN outlook : /\ g \in DOMAIN outlook'
                                           /\ outlook'[g].box = outlook[g].box
                                           /\ outlook[g].ver <= outlook'[g].ver
      BY <1>2, <2>2 DEF Changed
    <2> QED BY <2>1, <2>2, OutlookSteps
  <1>4. OutlookEvents \subseteq OutlookEvents'
    BY EventSteps DEF OutlookEvents
  <1>5. outlook' \in Seq(OutlookEvents)
    BY <1>1, OutlookSteps DEF Changed
  <1>6. outlook' \in Seq(OutlookEvents')
    BY <1>4, <1>5, SeqMonotonic
  <1>7. CopyOf \subseteq CopyOf'
    BY <1>3, EventSteps, RowsSteps DEF CopyOf
  <1>8. ASSUME NEW cp, Backed(cp) PROVE Backed(cp)'
    <2>1. CASE cp = None
      BY <2>1 DEF Backed
    <2>2. CASE cp # None
      <3>1. cp \in CopyOf /\ cp.gid \in DOMAIN outlook /\ cp.synced \in Nat
            /\ outlook[cp.gid].box = cp.box /\ cp.synced <= outlook[cp.gid].ver
        BY <1>8, <2>2, EventSteps DEF Backed, CopyOf
      <3>2. outlook'[cp.gid].box = cp.box /\ outlook[cp.gid].ver <= outlook'[cp.gid].ver
        BY <1>3, <3>1
      <3>3. outlook'[cp.gid].ver \in Nat
        <4>1. cp.gid \in DOMAIN outlook'
          BY <1>3, <3>1
        <4>2. outlook'[cp.gid] \in OutlookEvents
          BY <1>5, <4>1, LenProperties, ElementOfSeq
        <4> QED BY <4>2, EventSteps DEF OutlookEvents
      <3>4. cp.synced <= outlook'[cp.gid].ver
        BY <1>2, <3>1, <3>2, <3>3
      <3> QED BY <1>7, <3>1, <3>2, <3>4 DEF Backed
    <2> QED BY <2>1, <2>2
  <1>9. \A e : ReadBefore(e) => ReadBefore(e)'
    BY EventSteps DEF ReadBefore, EventRows
  <1> QED
    BY <1>3, <1>4, <1>6, <1>7, <1>8, <1>9

-----------------------------------------------------------------------------
(* What a step does to the processes and the rows they hold.                *)

\* Outside its own steps the sync is started, left alone, or lost in a crash.
LEMMA JobLeftAlone ==
  ASSUME [Next]_vars, ~Sync
  PROVE  job' = job \/ job' = Started \/ job' = IdleJob
  <1>1. (\E t \in Times, a, told \in BOOLEAN : EditEvent(t, a, told)) \/ ChangeLead
          \/ (\E told \in BOOLEAN : RemoveEvent(told)) \/ KeepProposal \/ MarkKeptCopy \/ RestoreMyCopy
          => job' = job \/ job' = Started
    BY DEF EditEvent, ChangeLead, RemoveEvent, KeepProposal, MarkKeptCopy, RestoreMyCopy
  <1>2. \A g \in DOMAIN outlook : (\E t \in Times : OwnerMoves(g, t)) \/ OwnerDeletes(g) => job' = job
    BY DEF OwnerMoves, OwnerDeletes
  <1>3. \A b \in Mailboxes : Break(b) \/ Reconnect(b) \/ TurnOn(b) \/ TurnOff(b) \/ Disconnect(b) => job' = job
    BY DEF Break, Reconnect, TurnOn, TurnOff, Disconnect
  <1>4. Cleanup => job' = job
    BY DEF Cleanup, CleanupReads, CleanupLooks, CleanupDeletes, CleanupDropsRow, CleanupRevokes
  <1>5. Reconcile \/ Crash => job' = job \/ job' = Started \/ job' = IdleJob
    BY DEF Reconcile, Crash
  <1>6. Poll => job' = job
    BY DEF Poll, PollReads, PollDelta, PollSeesNothing, PollMarksRemoved, PollReadsEvent, PollTakes
  <1> QED
    BY <1>1, <1>2, <1>3, <1>4, <1>5, <1>6 DEF Next, People, vars

\* A job that is started, or lost, holds nothing that it did not hold.
LEMMA StartedKeeps ==
  ASSUME IInv, job' = job \/ job' = Started \/ job' = IdleJob
  PROVE  /\ job' = job \/ job'.pc \in {"idle", "read"}
         /\ job'.cp \in {job.cp, None} /\ job'.to \in {job.to, None}
         /\ job'.ev = job.ev \/ job'.to = None
         /\ job' \in Jobs
  BY DEF IInv, TypeOK, Jobs, Started, IdleJob

\* A nonempty set of numbers has a least one.
LEMMA Least ==
  ASSUME NEW S, S \subseteq Nat, S # {}
  PROVE  \E b \in S : \A c \in S : b <= c
  <1>1. PICK b \in S : \A c \in S : ~(<<c, b>> \in OpToRel(<, Nat))
    BY NatLessThanWellFounded, WFMin
  <1>2. \A c \in S : ~(c < b)
    BY <1>1 DEF OpToRel
  <1> QED BY <1>2

LEMMA DesiredType ==
  ASSUME NEW e, NEW cp
  PROVE  Desired(e, cp) \in Mailboxes \cup {None}
  <1>1. Eligible \subseteq Mailboxes /\ Eligible \subseteq Nat
    BY SyncAssumption DEF Eligible, Active, Mailboxes
  <1>2. Eligible # {} => (CHOOSE b \in Eligible : \A c \in Eligible : b <= c) \in Eligible
    BY <1>1, Least
  <1> QED BY <1>1, <1>2 DEF Desired

\* Nothing newer gets into Outlook than what the sync writes, and only a write changes a version.
LEMMA VersionsInOutlook ==
  ASSUME IInv, [Next]_vars
  PROVE  /\ \A e : NewestInOutlook(e) /\ (job.pc = "write" => e = job.ev) => NewestInOutlook(e)'
         /\ job.pc # "write" => \A g \in DOMAIN outlook : outlook'[g].ver = outlook[g].ver
         /\ job.pc # "write" => DOMAIN outlook' = DOMAIN outlook
  <1>1. CASE outlook' = outlook
    BY <1>1 DEF NewestInOutlook
  <1>2. ASSUME NEW g, NEW v, Changed(g, v)
        PROVE  /\ \A e : NewestInOutlook(e) /\ (job.pc = "write" => e = job.ev) => NewestInOutlook(e)'
               /\ job.pc # "write" => \A h \in DOMAIN outlook : outlook'[h].ver = outlook[h].ver
               /\ job.pc # "write" => DOMAIN outlook' = DOMAIN outlook
    <2>1. Written.ver = job.ev.ver
      BY DEF Written
    <2>2. job.pc = "write" => job.ev.ver \in Nat
      BY EventSteps DEF IInv, JobHoldsItsReads, ReadBefore, EventRows
    <2>3. job.pc # "write" => /\ g \in DOMAIN outlook /\ v.ver = outlook[g].ver
                              /\ DOMAIN outlook' = DOMAIN outlook
      BY <1>2 DEF Changed
    <2>4. \A h \in DOMAIN outlook' : \/ outlook'[h].ver = job.ev.ver /\ job.pc = "write"
                                     \/ h \in DOMAIN outlook /\ outlook'[h].ver = outlook[h].ver
      BY <1>2, <2>1 DEF Changed
    <2>5. \A e : NewestInOutlook(e) /\ (job.pc = "write" => e = job.ev) => NewestInOutlook(e)'
      BY <2>2, <2>4 DEF NewestInOutlook
    <2>6. job.pc # "write" => \A h \in DOMAIN outlook : outlook'[h].ver = outlook[h].ver
      BY <2>3, <2>4
    <2> QED BY <2>3, <2>5, <2>6
  <1> QED BY <1>1, <1>2, OutlookSteps

-----------------------------------------------------------------------------
(* The sync.                                                                *)

\* What is to be shown of a job in the next state.
JobOK == job \in Jobs /\ Backed(job.cp) /\ JobHoldsItsReads

LEMMA JobsGrow ==
  ASSUME IInv, [Next]_vars
  PROVE  Jobs \subseteq Jobs' /\ Polls \subseteq Polls' /\ Cleanups \subseteq Cleanups'
  <1>1. DOMAIN outlook \subseteq DOMAIN outlook'
    BY Grows
  <1>2. Jobs \subseteq Jobs'
    BY <1>1, Grows DEF Jobs
  <1>3. Polls \subseteq Polls'
    BY Grows DEF Polls
  <1>4. Cleanups \subseteq Cleanups'
    BY Grows DEF Cleanups
  <1> QED BY <1>2, <1>3, <1>4

LEMMA StepJobAlone ==
  ASSUME IInv, [Next]_vars, ~Sync
  PROVE  JobOK'
  <1>1. job' = job \/ job' = Started \/ job' = IdleJob
    BY JobLeftAlone
  <1>2. job' \in Jobs'
    BY <1>1, StartedKeeps, JobsGrow
  <1>3. Backed(job.cp)'
    BY <1>1, StartedKeeps, Grows DEF IInv, CopiesAreBacked, Backed
  <1>4. CASE job' # job
    <2>1. job'.pc \in {"idle", "read"}
      BY <1>1, <1>4, StartedKeeps
    <2>2. PICK e : e = job.ev
      OBVIOUS
    <2>3. job'.to # None => job.to # None /\ job'.ev = e /\ job.pc # "write"
      BY <1>1, <1>4, <2>2 DEF Started, IdleJob, IInv, TypeOK, Jobs
    <2>4. job'.to # None => ReadBefore(e)' /\ NewestInOutlook(e)'
      BY <2>2, <2>3, Grows, VersionsInOutlook DEF IInv, JobHoldsItsReads
    <2>5. job'.to # None => ReadBefore(job.ev)' /\ NewestInOutlook(job.ev)'
      BY <2>3, <2>4
    <2> QED BY <1>2, <1>3, <2>1, <2>5 DEF JobOK, JobHoldsItsReads
  <1>5. CASE job' = job
    <2>1. PICK e : e = job.ev
      OBVIOUS
    <2>2. job.pc \in {"pick", "write", "record"} \/ job.to # None => ReadBefore(e)' /\ NewestInOutlook(e)'
      BY <2>1, Grows, VersionsInOutlook DEF IInv, JobHoldsItsReads
    <2>3. job.pc \in {"pick", "write", "record"} \/ job.to # None => ReadBefore(job.ev)' /\ NewestInOutlook(job.ev)'
      BY <1>5, <2>1, <2>2
    <2>4. job.pc = "record" =>
            /\ job.gid \in DOMAIN outlook'
            /\ outlook'[job.gid].box = job.to /\ outlook'[job.gid].ver = job.ev.ver
      BY Grows, VersionsInOutlook DEF IInv, JobHoldsItsReads
    <2> QED BY <1>2, <1>3, <1>5, <2>3, <2>4 DEF JobOK, IInv, JobHoldsItsReads
  <1> QED BY <1>4, <1>5

LEMMA StepSync ==
  ASSUME IInv, [Next]_vars, Sync
  PROVE  JobOK'
  <1> USE DEF JobOK
  <1>0. job \in Jobs /\ JobHoldsItsReads /\ Backed(job.cp)
    BY DEF IInv, TypeOK, CopiesAreBacked
  <1>1. CASE ReadEvent
    <2>1. ReadBefore(event) /\ NewestInOutlook(event) /\ event \in EventRows
      <3>1. event \in EventRows /\ event.ver \in Nat
        BY DEF IInv, TypeOK, EventRows
      <3>2. ASSUME NEW g \in DOMAIN outlook PROVE outlook[g].ver <= event.ver
        <4>1. outlook[g] \in OutlookEvents
          BY LenProperties, ElementOfSeq DEF IInv, TypeOK
        <4> QED BY <3>1, <4>1 DEF OutlookEvents
      <3> QED BY <3>1, <3>2 DEF ReadBefore, NewestInOutlook
    <2>2. Backed(row) /\ (row # None => row \in CopyOf)
      BY DEF IInv, CopiesAreBacked, Backed
    <2>3. event' = event /\ outlook' = outlook /\ rows' = rows
      BY <1>1 DEF ReadEvent
    <2>4. CASE event.live
      <3>1. /\ job'.pc = "pick" /\ job'.ev = event /\ job'.cp = row /\ job'.to = job.to
            /\ job' \in Jobs
        BY <1>0, <1>1, <2>1, <2>2, <2>4 DEF ReadEvent, Jobs
      <3> QED
        BY <2>1, <2>2, <2>3, <3>1
        DEF JobHoldsItsReads, ReadBefore, NewestInOutlook, Backed, Jobs, CopyOf, OutlookEvents
    <2>5. CASE ~event.live /\ row # None
      <3>1. /\ job'.pc = "delete" /\ job'.ev = job.ev /\ job'.cp = row /\ job'.to = job.to
            /\ job' \in Jobs
        BY <1>0, <1>1, <2>2, <2>5 DEF ReadEvent, Jobs
      <3> QED
        BY <1>0, <2>2, <2>3, <2>5, <3>1
        DEF JobHoldsItsReads, ReadBefore, NewestInOutlook, Backed, Jobs, CopyOf, OutlookEvents
    <2>6. CASE ~event.live /\ row = None
      BY <1>1, <2>3, <2>6 DEF ReadEvent, IdleJob, JobHoldsItsReads, Backed, Jobs
    <2> QED BY <2>4, <2>5, <2>6
  <1>2. CASE PickMailbox
    <2> DEFINE to == Desired(job.ev, job.cp)
    <2>1. event' = event /\ outlook' = outlook /\ rows' = rows /\ to \in Mailboxes \cup {None}
          /\ job.pc = "pick"
      BY <1>2, DesiredType DEF PickMailbox
    <2>2. ReadBefore(job.ev) /\ NewestInOutlook(job.ev)
      BY <1>0, <2>1 DEF JobHoldsItsReads
    <2>3. CASE job' = IdleJob
      BY <2>3 DEF IdleJob, JobHoldsItsReads, Backed, Jobs
    <2>4. CASE job.cp # None /\ job' = [job EXCEPT !.pc = "delete", !.to = to]
      <3> HIDE DEF to
      <3>1. job' \in Jobs /\ job'.pc = "delete" /\ job'.ev = job.ev /\ job'.cp = job.cp
        BY <1>0, <2>1, <2>4 DEF Jobs
      <3> QED
        BY <1>0, <2>1, <2>2, <2>4, <3>1
        DEF JobHoldsItsReads, ReadBefore, NewestInOutlook, Backed, Jobs, CopyOf, OutlookEvents
    <2>5. CASE /\ to # None /\ job' = [job EXCEPT !.pc = "write", !.to = to]
               /\ job.cp # None => job.cp.box = to
      <3> HIDE DEF to
      <3>1. job' \in Jobs /\ job'.pc = "write" /\ job'.ev = job.ev /\ job'.cp = job.cp /\ job'.to = to
        BY <1>0, <2>1, <2>5 DEF Jobs
      <3> QED
        BY <1>0, <2>1, <2>2, <2>5, <3>1
        DEF JobHoldsItsReads, ReadBefore, NewestInOutlook, Backed, Jobs, CopyOf, OutlookEvents
    <2> QED BY <1>2, <2>3, <2>4, <2>5 DEF PickMailbox
  <1>3. CASE (\E answered, applied \in BOOLEAN : DeleteOldCopy(answered, applied)) \/ LookAtOldCopy \/ DropOldRow
    <2>1. event' = event /\ rows' = rows /\ job.pc \in {"delete", "call", "drop"} /\ job.cp # None
      BY <1>0, <1>3 DEF LookAtOldCopy, DeleteOldCopy, DropOldRow, JobHoldsItsReads
    <2>2. (\E pc \in {"call", "drop"} : job' = [job EXCEPT !.pc = pc]) \/ job' = AfterDelete
      BY <1>3 DEF LookAtOldCopy, AfterLook, DeleteOldCopy, DropOldRow
    <2>3. PICK e, cp : e = job.ev /\ cp = job.cp
      OBVIOUS
    <2>4. Backed(cp)' /\ (job.to # None => ReadBefore(e)' /\ NewestInOutlook(e)')
      BY <1>0, <2>1, <2>3, Grows, VersionsInOutlook DEF JobHoldsItsReads
    <2>5. ASSUME NEW pc \in {"call", "drop"}, job' = [job EXCEPT !.pc = pc] PROVE JobOK'
      <3>1. job' \in Jobs /\ job'.pc = pc /\ job'.ev = e /\ job'.cp = cp /\ job'.to = job.to
        BY <1>0, <2>3, <2>5 DEF Jobs
      <3>2. job' \in Jobs'
        BY <3>1, JobsGrow
      <3> QED BY <2>1, <2>3, <2>4, <3>1, <3>2 DEF JobHoldsItsReads
    <2>6. CASE job' = AfterDelete /\ job.to # None
      <3>1. /\ job' \in Jobs /\ job'.pc = "write" /\ job'.ev = e /\ job'.cp = None /\ job'.to = job.to
            /\ job.to \in Mailboxes
        BY <1>0, <2>3, <2>6 DEF Jobs, AfterDelete
      <3>2. job' \in Jobs'
        BY <3>1, JobsGrow
      <3> QED BY <2>4, <2>6, <3>1, <3>2 DEF JobHoldsItsReads, Backed
    <2>7. CASE job' = AfterDelete /\ job.to = None
      <3>1. job' = IdleJob /\ job' \in Jobs
        BY <2>7 DEF AfterDelete, IdleJob, Jobs
      <3>2. job' \in Jobs'
        BY <3>1, JobsGrow
      <3> QED BY <3>1, <3>2 DEF IdleJob, JobHoldsItsReads, Backed
    <2> QED BY <2>2, <2>5, <2>6, <2>7
  <1>4. CASE WriteCopy
    <2>1. job.pc = "write" /\ job.to \in Mailboxes /\ Written.box = job.to /\ Written.ver = job.ev.ver
      BY <1>0, <1>4 DEF WriteCopy, JobHoldsItsReads, Written
    <2>2. PICK e, cp : e = job.ev /\ cp = job.cp
      OBVIOUS
    <2>3. Backed(cp)' /\ ReadBefore(e)' /\ NewestInOutlook(e)'
      BY <1>0, <2>1, <2>2, Grows, VersionsInOutlook DEF JobHoldsItsReads
    <2>4. PICK g : /\ g \in DOMAIN outlook' /\ outlook'[g] = Written
                   /\ job' = [job EXCEPT !.pc = "record", !.gid = g]
      <3>1. outlook \in Seq(OutlookEvents) /\ Written \in OutlookEvents
        BY <2>1, WrittenType DEF IInv, TypeOK
      <3>2. CASE Found
        <4>1. job.cp.gid \in DOMAIN outlook /\ DOMAIN outlook = 1 .. Len(outlook)
          BY <1>0, <3>1, <3>2, LenProperties DEF Found, Backed, CopyOf
        <4>2. outlook' = [outlook EXCEPT ![job.cp.gid] = Written]
          BY <1>4, <3>2 DEF WriteCopy
        <4> QED BY <1>4, <3>2, <4>1, <4>2 DEF WriteCopy
      <3>3. CASE ~Found
        <4>1. outlook' = Append(outlook, Written)
          BY <1>4, <3>3 DEF WriteCopy
        <4>2. Len(outlook) + 1 \in DOMAIN outlook' /\ outlook'[Len(outlook) + 1] = Written
          BY <3>1, <4>1, AppendProperties, LenProperties
        <4> QED BY <1>4, <3>3, <4>2 DEF WriteCopy
      <3> QED BY <3>2, <3>3
    <2>5. /\ job'.pc = "record" /\ job'.ev = e /\ job'.cp = cp /\ job'.to = job.to /\ job'.gid = g
      BY <1>0, <2>2, <2>4 DEF Jobs
    <2>6. job' \in Jobs'
      <3>1. job \in Jobs'
        BY <1>0, JobsGrow
      <3> QED BY <2>4, <3>1 DEF Jobs
    <2> QED
      BY <2>1, <2>2, <2>3, <2>4, <2>5, <2>6 DEF JobHoldsItsReads
  <1>5. CASE (\E applied \in BOOLEAN : WriteFails(applied)) \/ RecordCopy
    <2>1. job' = IdleJob
      BY <1>5 DEF WriteFails, RecordCopy
    <2> QED BY <2>1 DEF IdleJob, JobHoldsItsReads, Backed, Jobs
  <1> QED
    BY <1>1, <1>2, <1>3, <1>4, <1>5 DEF Sync

-----------------------------------------------------------------------------
(* The row, the poll and the cleanup.                                       *)

\* Setting columns of the row.
LEMMA CopySet ==
  ASSUME NEW I, NEW B, NEW G, NEW S, NEW r \in [id : I, box : B, gid : G, synced : S, removed : BOOLEAN],
         NEW b \in B, NEW g \in G, NEW n \in S, NEW u,
         u = [r EXCEPT !.box = b, !.gid = g, !.synced = n]
  PROVE  /\ u \in [id : I, box : B, gid : G, synced : S, removed : BOOLEAN]
         /\ u.box = b /\ u.gid = g /\ u.synced = n
  OBVIOUS

LEMMA StepRow ==
  ASSUME IInv, [Next]_vars
  PROVE  Backed(row)'
  <1>0. Backed(row) /\ \A cp : Backed(cp) => Backed(cp)'
    BY Grows DEF IInv, CopiesAreBacked
  <1>1. ASSUME row' = row \/ row' = None PROVE Backed(row)'
    <2>1. PICK r : r = row
      OBVIOUS
    <2> QED BY <1>0, <1>1, <2>1 DEF Backed
  <1>2. CASE MarkKeptCopy \/ RestoreMyCopy \/ PollMarksRemoved
    <2>1. event' = event /\ rows' = rows /\ outlook' = outlook
      BY <1>2 DEF MarkKeptCopy, RestoreMyCopy, PollMarksRemoved
    <2>2. CASE row = None
      BY <1>1, <1>2, <2>2 DEF MarkKeptCopy, RestoreMyCopy, PollMarksRemoved
    <2>3. CASE row # None
      <3>1. /\ row \in CopyOf /\ outlook[row.gid].box = row.box /\ row.synced <= outlook[row.gid].ver
            /\ event.ver \in Nat
        BY <1>0, <2>3, EventSteps DEF Backed
      <3>2. outlook[row.gid].ver \in Nat
        <4>1. outlook[row.gid] \in OutlookEvents
          BY <3>1, LenProperties, ElementOfSeq DEF IInv, TypeOK, CopyOf
        <4> QED BY <3>1, <4>1 DEF OutlookEvents
      <3>3. CASE row' = [row EXCEPT !.synced = 0] \/ row' = [row EXCEPT !.removed = FALSE, !.synced = 0]
        <4>1. row' \in CopyOf /\ row'.gid = row.gid /\ row'.box = row.box /\ row'.synced = 0
          <5>1. 0 \in 0 .. event.ver
            BY <3>1
          <5>2. CASE row' = [row EXCEPT !.synced = 0]
            BY <3>1, <5>1, <5>2 DEF CopyOf
          <5>3. CASE row' = [row EXCEPT !.removed = FALSE, !.synced = 0]
            <6>1. PICK r : r = [row EXCEPT !.removed = FALSE]
              OBVIOUS
            <6>2. r \in CopyOf /\ r.gid = row.gid /\ r.box = row.box
              BY <3>1, <6>1 DEF CopyOf
            <6>3. row' = [r EXCEPT !.synced = 0]
              BY <5>3, <6>1
            <6> QED BY <5>1, <6>2, <6>3 DEF CopyOf
          <5> QED BY <3>3, <5>2, <5>3
        <4> QED BY <2>1, <3>1, <3>2, <4>1 DEF Backed, CopyOf, OutlookEvents
      <3>4. CASE row' = [row EXCEPT !.removed = TRUE]
        <4>1. row' \in CopyOf /\ row'.gid = row.gid /\ row'.box = row.box /\ row'.synced = row.synced
          BY <3>1, <3>4 DEF CopyOf
        <4> QED BY <2>1, <3>1, <4>1 DEF Backed, CopyOf
      <3> QED
        BY <1>1, <1>2, <2>3, <3>3, <3>4 DEF MarkKeptCopy, RestoreMyCopy, PollMarksRemoved
    <2> QED BY <2>2, <2>3
  <1>3. CASE RecordCopy
    <2>1. /\ job.gid \in DOMAIN outlook /\ job.to \in Mailboxes
          /\ outlook[job.gid].box = job.to /\ outlook[job.gid].ver = job.ev.ver
          /\ job.ev.ver \in Nat /\ job.ev.ver <= event.ver /\ event.ver \in Nat
      BY <1>3, EventSteps DEF RecordCopy, IInv, JobHoldsItsReads, ReadBefore, EventRows
    <2>2. event' = event /\ outlook' = outlook
      BY <1>3 DEF RecordCopy
    <2>3. rows \in Nat /\ (row # None => row \in CopyOf)
      BY <1>0, RowsSteps DEF Backed
    <2>4. CASE row = None
      <3>1. /\ row' = [id |-> rows + 1, box |-> job.to, gid |-> job.gid, synced |-> job.ev.ver, removed |-> FALSE]
            /\ rows' = rows + 1
        BY <1>3, <2>4 DEF RecordCopy, RecordedVersion
      <3> QED BY <2>1, <2>2, <2>3, <3>1 DEF Backed, CopyOf
    <2>5. CASE row # None
      <3>1. row' = [row EXCEPT !.box = job.to, !.gid = job.gid, !.synced = job.ev.ver] /\ rows' = rows
        BY <1>3, <2>5 DEF RecordCopy, RecordedVersion
      <3>2. row' \in CopyOf /\ row'.box = job.to /\ row'.gid = job.gid /\ row'.synced = job.ev.ver
        <4>1. job.ev.ver \in 0 .. event.ver /\ row \in CopyOf
          BY <2>1, <2>3, <2>5
        <4> QED BY <2>1, <3>1, <4>1, CopySet DEF CopyOf
      <3> QED BY <2>1, <2>2, <3>1, <3>2 DEF Backed, CopyOf
    <2> QED BY <2>4, <2>5
  <1>4. DropOldRow \/ CleanupDropsRow \/ Reconcile \/ Crash => row' = row \/ row' = None
    BY DEF DropOldRow, CleanupDropsRow, Without, Reconcile, Crash
  <1>5. (\E t \in Times, a, told \in BOOLEAN : EditEvent(t, a, told)) \/ ChangeLead
          \/ (\E told \in BOOLEAN : RemoveEvent(told)) \/ KeepProposal => row' = row
    BY DEF EditEvent, ChangeLead, RemoveEvent, KeepProposal
  <1>6. \A g \in DOMAIN outlook : (\E t \in Times : OwnerMoves(g, t)) \/ OwnerDeletes(g) => row' = row
    BY DEF OwnerMoves, OwnerDeletes
  <1>7. \A b \in Mailboxes : Break(b) \/ Reconnect(b) \/ TurnOn(b) \/ TurnOff(b) \/ Disconnect(b) => row' = row
    BY DEF Break, Reconnect, TurnOn, TurnOff, Disconnect
  <1>8. ReadEvent \/ PickMailbox \/ LookAtOldCopy \/ WriteCopy \/ (\E applied \in BOOLEAN : WriteFails(applied))
          \/ (\E answered, applied \in BOOLEAN : DeleteOldCopy(answered, applied)) => row' = row
    BY DEF ReadEvent, PickMailbox, LookAtOldCopy, WriteCopy, WriteFails, DeleteOldCopy
  <1>9. CleanupReads \/ CleanupLooks \/ CleanupRevokes
          \/ (\E answered, applied \in BOOLEAN : CleanupDeletes(answered, applied)) => row' = row
    BY DEF CleanupReads, CleanupLooks, CleanupRevokes, CleanupDeletes
  <1>10. PollReads \/ PollDelta \/ PollSeesNothing \/ PollReadsEvent \/ (\E movable \in BOOLEAN : PollTakes(movable)) => row' = row
    BY DEF PollReads, PollDelta, PollSeesNothing, PollReadsEvent, PollTakes
  <1> QED
    BY <1>1, <1>2, <1>3, <1>4, <1>5, <1>6, <1>7, <1>8, <1>9, <1>10 DEF Next, People, Sync, Cleanup, Poll, vars

\* What is to be shown of the cleanup in the next state.
CleanupOK == cleanup \in Cleanups /\ Backed(cleanup.cp) /\ CleanupHoldsItsReads

LEMMA StepCleanup ==
  ASSUME IInv, [Next]_vars
  PROVE  CleanupOK'
  <1> USE DEF CleanupOK
  <1>0. cleanup \in Cleanups /\ Backed(cleanup.cp) /\ CleanupHoldsItsReads /\ Backed(row)
    BY DEF IInv, TypeOK, CopiesAreBacked
  <1>1. PICK cp, r : cp = cleanup.cp /\ r = row
    OBVIOUS
  <1>2. Backed(cp)' /\ Backed(r)'
    BY <1>0, <1>1, Grows
  <1>3. CASE cleanup' = cleanup
    <2>1. cleanup' \in Cleanups'
      BY <1>0, <1>3, JobsGrow
    <2> QED BY <1>0, <1>1, <1>2, <1>3, <2>1 DEF CleanupHoldsItsReads
  <1>4. CASE cleanup' = IdleCleanup
    BY <1>4 DEF IdleCleanup, Cleanups, CleanupHoldsItsReads, Backed
  <1>5. CASE cleanup.pc # "idle" /\ (cleanup' = [cleanup EXCEPT !.pc = "revoke"])
    <2>1. /\ cleanup' \in Cleanups /\ cleanup'.pc = "revoke" /\ cleanup'.box = cleanup.box /\ cleanup'.cp = cp
      BY <1>0, <1>1, <1>5 DEF Cleanups
    <2>2. cleanup' \in Cleanups'
      BY <2>1, JobsGrow
    <2> QED BY <1>0, <1>2, <1>5, <2>1, <2>2 DEF CleanupHoldsItsReads
  <1>6. CASE CleanupLooks \/ \E answered, applied \in BOOLEAN : CleanupDeletes(answered, applied)
    <2>1. /\ cleanup.pc \in {"delete", "call"} /\ cleanup.cp # None
          /\ (\E pc \in {"call", "drop"} : cleanup' = [cleanup EXCEPT !.pc = pc]) \/ cleanup' = AfterCleanup
      BY <1>0, <1>6 DEF CleanupLooks, AfterLook, CleanupDeletes, CleanupHoldsItsReads
    <2>2. ASSUME NEW pc \in {"call", "drop"}, cleanup' = [cleanup EXCEPT !.pc = pc] PROVE CleanupOK'
      <3>1. /\ cleanup' \in Cleanups /\ cleanup'.pc = pc /\ cleanup'.box = cleanup.box /\ cleanup'.cp = cp
        BY <1>0, <1>1, <2>2 DEF Cleanups
      <3>2. cleanup' \in Cleanups'
        BY <3>1, JobsGrow
      <3> QED BY <1>0, <1>1, <1>2, <2>1, <3>1, <3>2 DEF CleanupHoldsItsReads
    <2> QED BY <1>4, <1>5, <2>1, <2>2 DEF AfterCleanup
  <1>7. CASE CleanupReads
    <2>1. CASE row # None /\ row.box = cleanup.box
      <3>1. cleanup.pc = "read" /\ cleanup' = [cleanup EXCEPT !.pc = "delete", !.cp = row] /\ row \in CopyOf
        BY <1>0, <1>7, <2>1 DEF CleanupReads, Backed
      <3>2. /\ cleanup' \in Cleanups /\ cleanup'.pc = "delete" /\ cleanup'.box = cleanup.box /\ cleanup'.cp = r
        BY <1>0, <1>1, <3>1 DEF Cleanups
      <3>3. cleanup' \in Cleanups'
        BY <3>2, JobsGrow
      <3> QED BY <1>0, <1>1, <1>2, <2>1, <3>1, <3>2, <3>3 DEF CleanupHoldsItsReads
    <2>2. CASE ~(row # None /\ row.box = cleanup.box)
      BY <1>4, <1>5, <1>7, <2>2 DEF CleanupReads, AfterCleanup
    <2> QED BY <2>1, <2>2
  <1>8. CASE CleanupDropsRow \/ CleanupRevokes
    BY <1>4, <1>5, <1>8 DEF CleanupDropsRow, CleanupRevokes, AfterCleanup
  <1>9. CASE \E b \in Mailboxes : TurnOff(b) \/ Disconnect(b)
    <2>1. PICK b \in Mailboxes, k \in BOOLEAN : cleanup' = [pc |-> "read", box |-> b, cp |-> None, revoke |-> k]
      BY <1>9 DEF TurnOff, Disconnect
    <2> QED BY <2>1 DEF Cleanups, CleanupHoldsItsReads, Backed
  <1>10. (\E t \in Times, a, told \in BOOLEAN : EditEvent(t, a, told)) \/ ChangeLead
          \/ (\E told \in BOOLEAN : RemoveEvent(told)) \/ KeepProposal \/ MarkKeptCopy \/ RestoreMyCopy => cleanup' = cleanup
    BY DEF EditEvent, ChangeLead, RemoveEvent, KeepProposal, MarkKeptCopy, RestoreMyCopy
  <1>11. \A g \in DOMAIN outlook : (\E t \in Times : OwnerMoves(g, t)) \/ OwnerDeletes(g) => cleanup' = cleanup
    BY DEF OwnerMoves, OwnerDeletes
  <1>12. \A b \in Mailboxes : Break(b) \/ Reconnect(b) \/ TurnOn(b) => cleanup' = cleanup
    BY DEF Break, Reconnect, TurnOn
  <1>13. Sync => cleanup' = cleanup
    BY DEF Sync, ReadEvent, PickMailbox, LookAtOldCopy, DeleteOldCopy, DropOldRow, WriteCopy, WriteFails, RecordCopy
  <1>14. Poll => cleanup' = cleanup
    BY DEF Poll, PollReads, PollDelta, PollSeesNothing, PollMarksRemoved, PollReadsEvent, PollTakes
  <1>15. (Reconcile => cleanup' = cleanup) /\ (Crash => cleanup' = IdleCleanup)
    BY DEF Reconcile, Crash
  <1> QED
    BY <1>3, <1>4, <1>6, <1>7, <1>8, <1>9, <1>10, <1>11, <1>12, <1>13, <1>14, <1>15 DEF Next, People, Cleanup, vars

\* What is to be shown of the poll in the next state.
SeenOK ==
  poll.pc \in {"handle", "take"} =>
    (poll.seen.state = "ours" /\ poll.seen.ver = event.ver => poll.seen.time = event.time)

PollOK == poll \in Polls /\ Backed(poll.cp) /\ PollHoldsItsReads /\ SeenOK /\ OnlyOwnersMovesAreTaken

LEMMA StepPoll ==
  ASSUME IInv, [Next]_vars
  PROVE  PollOK'
  <1> USE DEF PollOK
  <1>0. poll \in Polls /\ Backed(poll.cp) /\ PollHoldsItsReads /\ SeenOK /\ OnlyOwnersMovesAreTaken /\ Backed(row)
    BY DEF IInv, TypeOK, CopiesAreBacked, OursShowsItsVersion, SeenOK
  <1>1. PICK cp, r : cp = poll.cp /\ r = row
    OBVIOUS
  <1>2. Backed(cp)' /\ Backed(r)'
    BY <1>0, <1>1, Grows
  <1>3. CASE poll' = poll
    <2>1. poll' \in Polls'
      BY <1>0, <1>3, JobsGrow
    <2>2. poll.pc \in {"handle", "take"} => poll.seen \in OutlookEvents'
      BY <1>0, Grows DEF PollHoldsItsReads
    <2>3. SeenOK'
      <3>1. poll.pc \in {"handle", "take"} => poll.seen.ver \in Nat /\ poll.seen.ver <= event.ver
        BY <1>0, EventSteps DEF PollHoldsItsReads, OutlookEvents
      <3> QED BY <1>0, <1>3, <3>1, EventSteps DEF SeenOK
    <2> QED
      BY <1>0, <1>1, <1>2, <1>3, <2>1, <2>2, <2>3 DEF PollHoldsItsReads, OnlyOwnersMovesAreTaken
  <1>4. CASE poll' = IdlePoll
    BY <1>4 DEF IdlePoll, Polls, PollHoldsItsReads, SeenOK, OnlyOwnersMovesAreTaken, Backed
  <1>5. CASE PollReads
    <2>1. row # None /\ row \in CopyOf /\ poll' = [poll EXCEPT !.pc = "delta", !.cp = row]
      BY <1>0, <1>5 DEF PollReads, Backed
    <2>2. poll' \in Polls /\ poll'.pc = "delta" /\ poll'.cp = r
      BY <1>0, <1>1, <2>1 DEF Polls
    <2>3. poll' \in Polls'
      BY <2>2, JobsGrow
    <2> QED
      BY <1>1, <1>2, <2>1, <2>2, <2>3 DEF PollHoldsItsReads, SeenOK, OnlyOwnersMovesAreTaken
  <1>6. CASE PollDelta
    <2>1. /\ poll.cp # None /\ poll.cp.gid \in DOMAIN outlook /\ poll.cp.synced <= outlook[poll.cp.gid].ver
          /\ poll' = [poll EXCEPT !.pc = "handle", !.seen = outlook[poll.cp.gid]]
          /\ event' = event
      BY <1>0, <1>6 DEF PollDelta, PollHoldsItsReads, Backed, CopyOf
    <2>2. PICK v : v = outlook[poll.cp.gid]
      OBVIOUS
    <2>3. v \in OutlookEvents
      BY <2>1, <2>2, LenProperties, ElementOfSeq DEF IInv, TypeOK
    <2>4. poll' \in Polls /\ poll'.pc = "handle" /\ poll'.cp = cp /\ poll'.seen = v
      BY <1>0, <1>1, <2>1, <2>2, <2>3 DEF Polls
    <2>5. poll' \in Polls' /\ v \in OutlookEvents'
      BY <2>3, <2>4, JobsGrow, Grows
    <2>6. v.state = "ours" /\ v.ver = event.ver => v.time = event.time
      BY <2>1, <2>2 DEF IInv, OursShowsItsVersion
    <2> QED
      BY <1>1, <1>2, <2>1, <2>2, <2>4, <2>5, <2>6 DEF PollHoldsItsReads, SeenOK, OnlyOwnersMovesAreTaken
  <1>7. CASE PollReadsEvent /\ OwnersMove
    <2>1. /\ poll.pc = "handle" /\ poll.cp # None /\ poll.seen \in OutlookEvents
          /\ poll.cp.synced <= poll.seen.ver /\ poll.cp.synced >= event.ver
          /\ poll.seen.state \notin Gone /\ poll.seen.time # event.time
          /\ poll' = [poll EXCEPT !.pc = "take", !.ev = event]
          /\ event' = event /\ event \in EventRows
      BY <1>0, <1>7 DEF PollReadsEvent, OwnersMove, Shown, PollHoldsItsReads, IInv, TypeOK
    <2>2. poll.cp.synced \in Nat
      BY <1>0, <2>1, EventSteps DEF Backed, CopyOf
    <2>3. poll.seen.ver = event.ver
      BY <2>1, <2>2, EventSteps DEF OutlookEvents
    <2>4. poll.seen.state = "moved"
      BY <1>0, <2>1, <2>3 DEF SeenOK, OutlookEvents
    <2>5. /\ poll' \in Polls /\ poll'.pc = "take" /\ poll'.cp = cp /\ poll'.seen = poll.seen /\ poll'.ev = event
      BY <1>0, <1>1, <2>1 DEF Polls
    <2>6. poll' \in Polls' /\ poll.seen \in OutlookEvents'
      BY <2>1, <2>5, JobsGrow, Grows
    <2> QED
      BY <1>1, <1>2, <2>1, <2>3, <2>4, <2>5, <2>6 DEF PollHoldsItsReads, SeenOK, OnlyOwnersMovesAreTaken
  <1>8. CASE PollSeesNothing \/ PollMarksRemoved \/ (\E movable \in BOOLEAN : PollTakes(movable)) \/ (PollReadsEvent /\ ~OwnersMove)
    BY <1>4, <1>8 DEF PollSeesNothing, PollMarksRemoved, PollTakes, PollReadsEvent
  <1>9. (\E t \in Times, a, told \in BOOLEAN : EditEvent(t, a, told)) \/ ChangeLead
          \/ (\E told \in BOOLEAN : RemoveEvent(told)) \/ KeepProposal \/ MarkKeptCopy \/ RestoreMyCopy => poll' = poll
    BY DEF EditEvent, ChangeLead, RemoveEvent, KeepProposal, MarkKeptCopy, RestoreMyCopy
  <1>10. \A g \in DOMAIN outlook : (\E t \in Times : OwnerMoves(g, t)) \/ OwnerDeletes(g) => poll' = poll
    BY DEF OwnerMoves, OwnerDeletes
  <1>11. \A b \in Mailboxes : Break(b) \/ Reconnect(b) \/ TurnOn(b) \/ TurnOff(b) \/ Disconnect(b) => poll' = poll
    BY DEF Break, Reconnect, TurnOn, TurnOff, Disconnect
  <1>12. Sync => poll' = poll
    BY DEF Sync, ReadEvent, PickMailbox, LookAtOldCopy, DeleteOldCopy, DropOldRow, WriteCopy, WriteFails, RecordCopy
  <1>13. Cleanup => poll' = poll
    BY DEF Cleanup, CleanupReads, CleanupLooks, CleanupDeletes, CleanupDropsRow, CleanupRevokes
  <1>14. (Reconcile => poll' = poll) /\ (Crash => poll' = IdlePoll)
    BY DEF Reconcile, Crash
  <1> QED
    BY <1>3, <1>4, <1>5, <1>6, <1>7, <1>8, <1>9, <1>10, <1>11, <1>12, <1>13, <1>14 DEF Next, People, Poll, vars

-----------------------------------------------------------------------------
(* The invariant.                                                           *)

\* An event that the owner left alone still shows the time of its version.
LEMMA StepOurs ==
  ASSUME IInv, [Next]_vars, NEW g \in DOMAIN outlook',
         outlook'[g].state = "ours", outlook'[g].ver = event'.ver
  PROVE  outlook'[g].time = event'.time
  <1>1. ASSUME g \in DOMAIN outlook, outlook'[g] = outlook[g] PROVE outlook'[g].time = event'.time
    <2>1. outlook[g] \in OutlookEvents
      BY <1>1, LenProperties, ElementOfSeq DEF IInv, TypeOK
    <2>2. outlook[g].ver \in Nat /\ outlook[g].ver <= event.ver
      BY <2>1, EventSteps DEF OutlookEvents
    <2>3. outlook[g].ver = event.ver /\ event'.time = event.time
      BY <1>1, <2>2, EventSteps
    <2> QED BY <1>1, <2>3 DEF IInv, OursShowsItsVersion
  <1>2. ASSUME job.pc = "write", outlook'[g] = Written PROVE outlook'[g].time = event'.time
    <2>1. PICK e : e = job.ev
      OBVIOUS
    <2>2. ReadBefore(e)'
      BY <1>2, <2>1, Grows DEF IInv, JobHoldsItsReads
    <2>3. outlook'[g].ver = e.ver /\ outlook'[g].time = e.time
      BY <1>2, <2>1 DEF Written
    <2> QED BY <2>2, <2>3 DEF ReadBefore
  <1>3. CASE outlook' = outlook
    BY <1>1, <1>3
  <1>4. ASSUME NEW h, NEW v, Changed(h, v) PROVE outlook'[g].time = event'.time
    BY <1>1, <1>2, <1>4 DEF Changed
  <1> QED BY <1>3, <1>4, OutlookSteps

\* The switches, the connections and the proposal keep their types.
LEMMA StepSettings ==
  ASSUME IInv, [Next]_vars
  PROVE  box' \in [Mailboxes -> [status : Statuses, sync : BOOLEAN]] /\ proposal' \in Times \cup {None}
  <1>0. /\ box \in [Mailboxes -> [status : Statuses, sync : BOOLEAN]] /\ proposal \in Times \cup {None}
    BY DEF IInv, TypeOK
  <1>1. ASSUME NEW b \in Mailboxes, Break(b) \/ Reconnect(b) \/ TurnOn(b) \/ TurnOff(b) \/ Disconnect(b)
        PROVE  /\ box' \in [Mailboxes -> [status : Statuses, sync : BOOLEAN]] /\ proposal' = proposal
    <2>1. \A st \in {"ACTIVE", "BROKEN"} :
            [box EXCEPT ![b].status = st] \in [Mailboxes -> [status : Statuses, sync : BOOLEAN]]
      BY <1>0 DEF Statuses
    <2>2. /\ [box EXCEPT ![b].sync = TRUE] \in [Mailboxes -> [status : Statuses, sync : BOOLEAN]]
          /\ [box EXCEPT ![b].sync = FALSE] \in [Mailboxes -> [status : Statuses, sync : BOOLEAN]]
      BY <1>0
    <2>3. CASE Break(b) \/ Reconnect(b)
      BY <2>1, <2>3 DEF Break, Reconnect
    <2>4. CASE TurnOn(b) \/ TurnOff(b) \/ Disconnect(b)
      BY <1>0, <2>2, <2>4 DEF TurnOn, TurnOff, Disconnect
    <2> QED BY <1>1, <2>3, <2>4
  <1>2. CASE CleanupRevokes
    <2>1. cleanup.box \in Mailboxes
      BY <1>2 DEF CleanupRevokes, IInv, CleanupHoldsItsReads
    <2> QED BY <1>0, <1>2, <2>1 DEF CleanupRevokes, Statuses
  <1>3. CASE \E movable \in BOOLEAN : PollTakes(movable)
    <2>1. poll.seen.time \in Times
      BY <1>3 DEF PollTakes, IInv, PollHoldsItsReads, OutlookEvents
    <2> QED BY <1>0, <1>3, <2>1 DEF PollTakes
  <1>4. (\E t \in Times, a, told \in BOOLEAN : EditEvent(t, a, told)) \/ ChangeLead
          \/ (\E told \in BOOLEAN : RemoveEvent(told)) \/ KeepProposal \/ MarkKeptCopy \/ RestoreMyCopy
          => box' = box /\ proposal' \in {proposal, None}
    BY DEF EditEvent, ChangeLead, RemoveEvent, KeepProposal, MarkKeptCopy, RestoreMyCopy
  <1>5. \A g \in DOMAIN outlook : (\E t \in Times : OwnerMoves(g, t)) \/ OwnerDeletes(g)
          => box' = box /\ proposal' = proposal
    BY DEF OwnerMoves, OwnerDeletes
  <1>6. Sync => box' = box /\ proposal' = proposal
    BY DEF Sync, ReadEvent, PickMailbox, LookAtOldCopy, DeleteOldCopy, DropOldRow, WriteCopy, WriteFails, RecordCopy
  <1>7. CleanupReads \/ CleanupLooks \/ CleanupDropsRow \/ Reconcile \/ Crash
          \/ (\E answered, applied \in BOOLEAN : CleanupDeletes(answered, applied))
          => box' = box /\ proposal' = proposal
    BY DEF CleanupReads, CleanupLooks, CleanupDeletes, CleanupDropsRow, Reconcile, Crash
  <1>8. PollReads \/ PollDelta \/ PollSeesNothing \/ PollMarksRemoved \/ PollReadsEvent
          => box' = box /\ proposal' = proposal
    BY DEF PollReads, PollDelta, PollSeesNothing, PollMarksRemoved, PollReadsEvent
  <1> QED
    BY <1>0, <1>1, <1>2, <1>3, <1>4, <1>5, <1>6, <1>7, <1>8 DEF Next, People, Cleanup, Poll, vars

\* The copies of which track is lost are events of Outlook.
LEMMA StepLost ==
  ASSUME IInv, [Next]_vars
  PROVE  keeping' \in BOOLEAN /\ lost' \subseteq DOMAIN outlook'
  <1>0. /\ keeping \in BOOLEAN /\ lost \subseteq DOMAIN outlook
        /\ Backed(row) /\ Backed(job.cp) /\ Backed(poll.cp) /\ Backed(cleanup.cp)
    BY DEF IInv, TypeOK, CopiesAreBacked
  <1>1. \A cp : Backed(cp) /\ cp # None => cp.gid \in DOMAIN outlook /\ GivenUp(cp) \subseteq DOMAIN outlook
    BY DEF Backed, CopyOf, GivenUp
  <1>2. Sync => keeping' = keeping /\ lost' \subseteq DOMAIN outlook
    <2>1. CASE LookAtOldCopy \/ \E answered, applied \in BOOLEAN : DeleteOldCopy(answered, applied)
      <3>1. job.cp # None /\ keeping' = keeping
        BY <2>1 DEF LookAtOldCopy, DeleteOldCopy, IInv, JobHoldsItsReads
      <3> QED BY <1>0, <1>1, <2>1, <3>1 DEF LookAtOldCopy, DeleteOldCopy
    <2>2. CASE RecordCopy
      <3>1. job.gid \in DOMAIN outlook /\ keeping' = keeping
        BY <2>2 DEF RecordCopy, IInv, JobHoldsItsReads
      <3> QED BY <1>0, <1>1, <2>2, <3>1 DEF RecordCopy, LostByUpsert
    <2>3. ReadEvent \/ PickMailbox \/ DropOldRow \/ WriteCopy \/ (\E applied \in BOOLEAN : WriteFails(applied))
            => keeping' = keeping /\ lost' = lost
      BY DEF ReadEvent, PickMailbox, DropOldRow, WriteCopy, WriteFails
    <2> QED BY <1>0, <2>1, <2>2, <2>3 DEF Sync
  <1>3. Cleanup => keeping' = keeping /\ lost' \subseteq DOMAIN outlook
    <2>1. CASE CleanupLooks \/ \E answered, applied \in BOOLEAN : CleanupDeletes(answered, applied)
      <3>1. cleanup.cp # None /\ keeping' = keeping
        BY <2>1 DEF CleanupLooks, CleanupDeletes, IInv, CleanupHoldsItsReads
      <3> QED BY <1>0, <1>1, <2>1, <3>1 DEF CleanupLooks, CleanupDeletes
    <2>2. CASE CleanupDropsRow
      BY <1>0, <1>1, <2>2 DEF CleanupDropsRow, Rewritten
    <2>3. CleanupReads \/ CleanupRevokes => keeping' = keeping /\ lost' = lost
      BY DEF CleanupReads, CleanupRevokes
    <2> QED BY <1>0, <2>1, <2>2, <2>3 DEF Cleanup
  <1>4. Poll => keeping' = keeping /\ lost' \subseteq DOMAIN outlook
    <2>1. CASE PollMarksRemoved
      BY <1>0, <1>1, <2>1 DEF PollMarksRemoved, Rewritten
    <2>2. PollReads \/ PollDelta \/ PollSeesNothing \/ PollReadsEvent
            \/ (\E movable \in BOOLEAN : PollTakes(movable)) => keeping' = keeping /\ lost' = lost
      BY DEF PollReads, PollDelta, PollSeesNothing, PollReadsEvent, PollTakes
    <2> QED BY <1>0, <2>1, <2>2 DEF Poll
  <1>5. Reconcile => keeping' = keeping /\ lost' \subseteq DOMAIN outlook
    BY <1>0, <1>1 DEF Reconcile
  <1>6. Crash => keeping' = FALSE /\ lost' \subseteq DOMAIN outlook
    <2>1. BrokenOff \subseteq DOMAIN outlook
      BY <1>0, <1>1 DEF BrokenOff, IInv, JobHoldsItsReads, CleanupHoldsItsReads
    <2> QED BY <1>0, <2>1 DEF Crash
  <1>7. (\E t \in Times, a, told \in BOOLEAN : EditEvent(t, a, told)) \/ ChangeLead
          \/ (\E told \in BOOLEAN : RemoveEvent(told)) \/ KeepProposal \/ MarkKeptCopy \/ RestoreMyCopy
          => keeping' \in {keeping, TRUE, FALSE} /\ lost' = lost
    BY DEF EditEvent, ChangeLead, RemoveEvent, KeepProposal, MarkKeptCopy, RestoreMyCopy
  <1>8. \A g \in DOMAIN outlook : (\E t \in Times : OwnerMoves(g, t)) \/ OwnerDeletes(g)
          => keeping' = keeping /\ lost' = lost
    BY DEF OwnerMoves, OwnerDeletes
  <1>9. \A b \in Mailboxes : Break(b) \/ Reconnect(b) \/ TurnOn(b) \/ TurnOff(b) \/ Disconnect(b)
          => keeping' = keeping /\ lost' = lost
    BY DEF Break, Reconnect, TurnOn, TurnOff, Disconnect
  <1>10. keeping' \in BOOLEAN /\ lost' \subseteq DOMAIN outlook
    <2>1. CASE People
      BY <1>0, <1>7, <1>8, <1>9, <2>1 DEF People
    <2>2. CASE UNCHANGED vars
      BY <1>0, <2>2 DEF vars
    <2> QED BY <1>0, <1>2, <1>3, <1>4, <1>5, <1>6, <2>1, <2>2 DEF Next
  <1> QED BY <1>10, Grows

LEMMA StepIInv == IInv /\ [Next]_vars => IInv'
  <1> SUFFICES ASSUME IInv, [Next]_vars PROVE IInv'
    OBVIOUS
  <1>1. JobOK'
    BY StepJobAlone, StepSync
  <1>2. PollOK' /\ CleanupOK' /\ Backed(row)'
    BY StepPoll, StepCleanup, StepRow
  <1>3. TypeOK'
    BY <1>1, <1>2, EventSteps, RowsSteps, Grows, StepSettings, StepLost DEF TypeOK, JobOK, PollOK, CleanupOK, Backed
  <1>4. OursShowsItsVersion'
    BY <1>2, StepOurs DEF OursShowsItsVersion, PollOK, SeenOK
  <1> QED
    BY <1>1, <1>2, <1>3, <1>4 DEF IInv, CopiesAreBacked, JobOK, PollOK, CleanupOK

LEMMA Invariance == Spec => []IInv
  BY InitIInv, StepIInv, PTL DEF Spec

\* The state is well typed, the row names an event of Outlook, and nothing claims a
\* version that the event has not had.
THEOREM TypeCorrect == Spec => []TypeOK
  <1>1. IInv => TypeOK
    BY DEF IInv
  <1> QED BY <1>1, Invariance, PTL

\* A row never claims a version that Outlook was not given (doSync).
THEOREM ClaimsAreTrue == Spec => []ClaimedVersionsWereWritten
  <1>1. IInv => ClaimedVersionsWereWritten
    BY DEF IInv, CopiesAreBacked, Backed, ClaimedVersionsWereWritten
  <1> QED BY <1>1, Invariance, PTL

\* Only a time that the owner set, on a copy of the version that is compared, is taken
\* over (pollConnection, handle).
THEOREM OwnersMovesOnly == Spec => []OnlyOwnersMovesAreTaken
  <1>1. IInv => OnlyOwnersMovesAreTaken
    BY DEF IInv
  <1> QED BY <1>1, Invariance, PTL

=============================================================================
