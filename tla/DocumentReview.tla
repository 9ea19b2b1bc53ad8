--------------------------- MODULE DocumentReview ---------------------------
(***************************************************************************)
(* The versions of one case document and the rounds in which they are      *)
(* reviewed (src/apps/api/src/document-review, documents.service.ts).      *)
(*                                                                         *)
(* No handler here uses a transaction: each database statement is a step   *)
(* of its own, other requests run between two of them, and a request may   *)
(* break off at any of them (a statement fails or the process stops). Only *)
(* two unique indexes hold requests apart: one row per (document, version) *)
(* and one decision per (round, reviewer).                                 *)
(***************************************************************************)
EXTENDS Naturals, FiniteSets

CONSTANTS Rounds,      \* review rounds that can come to exist
          Reviewers,   \* the members who may access the case
          Calls,       \* API requests that can be in flight at once (a bound)
          MaxVersion,  \* bound: versions of the document
          MaxFaults,   \* bound: requests that break off
          None         \* a row that does not exist

Versions == 1 .. MaxVersion

Rules == {"ALL", "ANY_ONE"}
Outcomes == {"APPROVED", "RETURNED"}

\* reviewerIds is a list; it is taken to name each reviewer once.
RoundRows == [version : Versions, reviewers : (SUBSET Reviewers) \ {{}}, rule : Rules,
              status : Outcomes \cup {"WAITING_REVIEW"}]
VersionStatuses == {"DRAFT", "WAITING_REVIEW", "RETURNED_FOR_CHANGES", "APPROVED", "SUPERSEDED"}

ASSUME ReviewAssumption ==
  /\ MaxVersion \in Nat \ {0} /\ MaxFaults \in Nat
  /\ None \notin RoundRows /\ None \notin VersionStatuses /\ None \notin Outcomes
  /\ IsFiniteSet(Reviewers)

VARIABLES
  current,   \* Document.version
  version,   \* the status of each DocumentVersion
  round,     \* the ReviewRound rows
  decision,  \* the ReviewDecision rows, by round and reviewer
  call,      \* what each request in flight has read and does next
  timely,    \* history: the rounds opened on the version that was current then
  broken,    \* history: the rounds that a broken request was deciding
  faults

vars == <<current, version, round, decision, call, timely, broken, faults>>

Idle == [pc |-> "idle"]
Uploading == [pc : {"supersede", "store", "point"}, v : Versions]
Opening == [pc : {"open"}, v : Versions, reviewers : (SUBSET Reviewers) \ {{}}, rule : Rules]
Marking == [pc : {"mark"}, v : Versions]
Deciding == [pc : {"decide"}, r : Rounds, by : Reviewers, outcome : Outcomes]
Closing == [pc : {"count"}, r : Rounds] \cup [pc : {"close", "settle"}, r : Rounds, outcome : Outcomes]

\* The document was uploaded (createFromBuffer).
Init ==
  /\ current = 1
  /\ version = [v \in Versions |-> IF v = 1 THEN "DRAFT" ELSE None]
  /\ round = [r \in Rounds |-> None]
  /\ decision = [r \in Rounds |-> [p \in Reviewers |-> None]]
  /\ call = [c \in Calls |-> Idle]
  /\ timely = {}
  /\ broken = {}
  /\ faults = 0

Goes(c, to) == call' = [call EXCEPT ![c] = to]

-----------------------------------------------------------------------------
(* uploadNewVersion: approvals are superseded, the version is created, and  *)
(* the document is pointed at it.                                           *)

StartUpload(c) ==
  /\ call[c] = Idle
  /\ current < MaxVersion
  /\ Goes(c, [pc |-> "supersede", v |-> current + 1])
  /\ UNCHANGED <<current, version, round, decision, timely, broken, faults>>

Supersede(c) ==
  /\ call[c].pc = "supersede"
  /\ version' = [v \in Versions |-> IF version[v] = "APPROVED" THEN "SUPERSEDED" ELSE version[v]]
  /\ Goes(c, [call[c] EXCEPT !.pc = "store"])
  /\ UNCHANGED <<current, round, decision, timely, broken, faults>>

\* A version that another upload has created meanwhile is refused by the index.
CreateVersion(c) ==
  /\ call[c].pc = "store"
  /\ LET v == call[c].v IN
       IF version[v] = None
         THEN version' = [version EXCEPT ![v] = "DRAFT"] /\ Goes(c, [call[c] EXCEPT !.pc = "point"])
         ELSE Goes(c, Idle) /\ UNCHANGED version
  /\ UNCHANGED <<current, round, decision, timely, broken, faults>>

PointDocument(c) ==
  /\ call[c].pc = "point"
  /\ current' = call[c].v
  /\ Goes(c, Idle)
  /\ UNCHANGED <<version, round, decision, timely, broken, faults>>

-----------------------------------------------------------------------------
(* createReviewRound                                                        *)

\* Bound: a round is opened only while an id is left for it.
RoundsLeft == Cardinality({c \in Calls : call[c].pc = "open"}) < Cardinality({r \in Rounds : round[r] = None})

\* A version that passed its review is not reviewed again.
ReadForRound(c, v, reviewers, rule) ==
  /\ call[c] = Idle
  /\ RoundsLeft
  /\ version[v] \notin {None, "APPROVED"}
  /\ reviewers # {}
  /\ Goes(c, [pc |-> "open", v |-> v, reviewers |-> reviewers, rule |-> rule])
  /\ UNCHANGED <<current, version, round, decision, timely, broken, faults>>

CreateRound(c, r) ==
  /\ call[c].pc = "open"
  /\ round[r] = None
  /\ round' = [round EXCEPT ![r] = [version |-> call[c].v, reviewers |-> call[c].reviewers,
                                    rule |-> call[c].rule, status |-> "WAITING_REVIEW"]]
  /\ timely' = IF call[c].v = current THEN timely \cup {r} ELSE timely
  /\ Goes(c, [pc |-> "mark", v |-> call[c].v])
  /\ UNCHANGED <<current, version, decision, broken, faults>>

MarkWaiting(c) ==
  /\ call[c].pc = "mark"
  /\ version' = [version EXCEPT ![call[c].v] = "WAITING_REVIEW"]
  /\ Goes(c, Idle)
  /\ UNCHANGED <<current, round, decision, timely, broken, faults>>

-----------------------------------------------------------------------------
(* recordDecision                                                           *)

Approvals(r) == {p \in Reviewers : decision[r][p] = "APPROVED"}

\* Fault: whoever has decided counts, whatever they decided.
Enough_AnyDecision(r) ==
  LET n == Cardinality({p \in Reviewers : decision[r][p] # None})
  IN  n >= (IF round[r].rule = "ANY_ONE" THEN 1 ELSE Cardinality(round[r].reviewers))

\* allApproved
Enough(r) ==
  Cardinality(Approvals(r)) >= (IF round[r].rule = "ANY_ONE" THEN 1 ELSE Cardinality(round[r].reviewers))

\* A reviewer who has decided gets the round back and changes nothing. The version
\* that was reviewed is compared with the round's, which never changes.
ReadForDecision(c, r, p, outcome) ==
  /\ call[c] = Idle
  /\ round[r] # None
  /\ p \in round[r].reviewers
  /\ decision[r][p] = None
  /\ round[r].status = "WAITING_REVIEW"
  /\ Goes(c, [pc |-> "decide", r |-> r, by |-> p, outcome |-> outcome])
  /\ UNCHANGED <<current, version, round, decision, timely, broken, faults>>

\* Fault: a decision replaces the one the reviewer has recorded.
CreateDecision_Replaces(c) ==
  /\ call[c].pc = "decide"
  /\ LET q == call[c] IN
       /\ decision' = [decision EXCEPT ![q.r][q.by] = q.outcome]
       /\ Goes(c, IF q.outcome = "RETURNED" THEN [pc |-> "close", r |-> q.r, outcome |-> "RETURNED"]
                                            ELSE [pc |-> "count", r |-> q.r])
  /\ UNCHANGED <<current, version, round, timely, broken, faults>>

\* Fault: the approvals are counted before this one is recorded.
CreateDecision_CountedBefore(c) ==
  /\ call[c].pc = "decide"
  /\ LET q == call[c] IN
       /\ decision[q.r][q.by] = None
       /\ decision' = [decision EXCEPT ![q.r][q.by] = q.outcome]
       /\ Goes(c, IF q.outcome = "RETURNED" THEN [pc |-> "close", r |-> q.r, outcome |-> "RETURNED"]
                  ELSE IF Enough(q.r) THEN [pc |-> "close", r |-> q.r, outcome |-> "APPROVED"]
                  ELSE Idle)
  /\ UNCHANGED <<current, version, round, timely, broken, faults>>

\* One reviewer decides a round once: the index refuses a second decision.
CreateDecision(c) ==
  /\ call[c].pc = "decide"
  /\ LET q == call[c] IN
       IF decision[q.r][q.by] = None
         THEN /\ decision' = [decision EXCEPT ![q.r][q.by] = q.outcome]
              /\ Goes(c, IF q.outcome = "RETURNED"
                           THEN [pc |-> "close", r |-> q.r, outcome |-> "RETURNED"]
                           ELSE [pc |-> "count", r |-> q.r])
         ELSE Goes(c, Idle) /\ UNCHANGED decision
  /\ UNCHANGED <<current, version, round, timely, broken, faults>>

\* The approvals are counted after this one was recorded.
CountApprovals(c) ==
  /\ call[c].pc = "count"
  /\ Goes(c, IF Enough(call[c].r) THEN [pc |-> "close", r |-> call[c].r, outcome |-> "APPROVED"] ELSE Idle)
  /\ UNCHANGED <<current, version, round, decision, timely, broken, faults>>

CloseRound(c) ==
  /\ call[c].pc = "close"
  /\ round' = [round EXCEPT ![call[c].r].status = call[c].outcome]
  /\ Goes(c, [call[c] EXCEPT !.pc = "settle"])
  /\ UNCHANGED <<current, version, decision, timely, broken, faults>>

SettleVersion(c) ==
  /\ call[c].pc = "settle"
  /\ version' = [version EXCEPT ![round[call[c].r].version] =
                   IF call[c].outcome = "APPROVED" THEN "APPROVED" ELSE "RETURNED_FOR_CHANGES"]
  /\ Goes(c, Idle)
  /\ UNCHANGED <<current, round, decision, timely, broken, faults>>

\* A request breaks off: what it wrote stays, the rest is never written.
BreakOff(c) ==
  /\ call[c] # Idle
  /\ faults < MaxFaults
  /\ faults' = faults + 1
  /\ broken' = IF call[c].pc \in {"count", "close"} THEN broken \cup {call[c].r} ELSE broken
  /\ Goes(c, Idle)
  /\ UNCHANGED <<current, version, round, decision, timely>>

-----------------------------------------------------------------------------
Step(c) ==
  \/ StartUpload(c) \/ Supersede(c) \/ CreateVersion(c) \/ PointDocument(c)
  \/ \E v \in Versions, reviewers \in SUBSET Reviewers, rule \in Rules :
       ReadForRound(c, v, reviewers, rule)
  \/ \E r \in Rounds : CreateRound(c, r)
  \/ MarkWaiting(c)
  \/ \E r \in Rounds, p \in Reviewers, outcome \in Outcomes : ReadForDecision(c, r, p, outcome)
  \/ CreateDecision(c) \/ CountApprovals(c) \/ CloseRound(c) \/ SettleVersion(c)
  \/ BreakOff(c)

Next == \E c \in Calls : Step(c)

Spec == Init /\ [][Next]_vars

-----------------------------------------------------------------------------
\* Every variable has its type.
TypeOK ==
  /\ current \in Versions
  /\ version \in [Versions -> VersionStatuses \cup {None}]
  /\ round \in [Rounds -> RoundRows \cup {None}]
  /\ decision \in [Rounds -> [Reviewers -> Outcomes \cup {None}]]
  /\ call \in [Calls -> {Idle} \cup Uploading \cup Opening \cup Marking \cup Deciding \cup Closing]
  /\ timely \subseteq Rounds
  /\ broken \subseteq Rounds
  /\ faults \in 0 .. MaxFaults

Approved(r) == IF round[r].rule = "ANY_ONE"
                 THEN \E p \in round[r].reviewers : decision[r][p] = "APPROVED"
                 ELSE \A p \in round[r].reviewers : decision[r][p] = "APPROVED"

Returned(r) == \E p \in round[r].reviewers : decision[r][p] = "RETURNED"

\* No approval out of thin air: a round is closed as APPROVED only when every
\* reviewer (or, if the rule says so, one) approved, as RETURNED only when one
\* returned it, and a version counts as approved or superseded only if such a round
\* was about it, whatever rounds, decisions and uploads overlap or break off
\* (recordDecision, uploadNewVersion).
ApprovalIsEarned ==
  /\ \A r \in Rounds : round[r] # None =>
       /\ round[r].status = "APPROVED" => Approved(r)
       /\ round[r].status = "RETURNED" => Returned(r)
  /\ \A v \in Versions : version[v] \in {"APPROVED", "SUPERSEDED"} =>
       \E r \in Rounds : round[r] # None /\ round[r].version = v /\ Approved(r)

\* The outcome of a round that all must approve stands once the round is closed:
\* of two reviewers who decide at the same time, or one who submits twice, none
\* turns an approval into a return or back (recordDecision).
UnanimousOutcomeStands ==
  [][\A r \in Rounds : round[r] # None /\ round[r].rule = "ALL" /\ round[r].status \in Outcomes =>
       round'[r] = round[r]]_vars

\* A round does not wait for reviewers who have all decided: when nobody is at work
\* on it and no request of it broke off, it is closed, also if the last approvals
\* came at the same time (recordDecision).
DecidedRoundIsClosed ==
  \A r \in Rounds :
    round[r] # None /\ (Approved(r) \/ Returned(r)) /\ r \notin broken
      /\ (\A c \in Calls : call[c].pc \in {"count", "close"} => call[c].r # r)
    => round[r].status # "WAITING_REVIEW"

-----------------------------------------------------------------------------
(* What the repository says and the code does not keep.                    *)

\* A decision that arrives after a newer version was uploaded is rejected: a round
\* opened on the current version admits none once it is no longer current ("instead
\* of silently applying to the stale version", recordDecision).
StaleDecisionIsRejected ==
  [][\A c \in Calls : call[c].pc = "idle" /\ call'[c].pc = "decide" /\ call'[c].r \in timely =>
       round[call'[c].r].version >= current]_vars

\* A version that passed its review is not reviewed again and keeps its approval
\* until a newer one supersedes it (createReviewRound).
ApprovedVersionIsFinal ==
  [][\A v \in Versions : version[v] = "APPROVED" => version'[v] \in {"APPROVED", "SUPERSEDED"}]_vars

=============================================================================
