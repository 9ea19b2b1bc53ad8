------------------------ MODULE DocumentReviewProofs ------------------------
(***************************************************************************)
(* Proofs about DocumentReview, for any reviewers, rounds, versions and    *)
(* requests, and any number of requests that break off.                    *)
(***************************************************************************)
EXTENDS DocumentReview, FiniteSetTheorems, TLAPS

Requests == {Idle} \cup Uploading \cup Opening \cup Marking \cup Deciding \cup Closing

\* Only the reviewers of a round have decided it.
DecisionsAreByReviewers ==
  \A r \in Rounds : \A p \in Reviewers :
    decision[r][p] # None => round[r] # None /\ p \in round[r].reviewers

\* A request decides a round that exists, for one of its reviewers.
DecidersAreReviewers ==
  \A c \in Calls :
    /\ call[c].pc \in {"decide", "count", "close", "settle"} => round[call[c].r] # None
    /\ call[c].pc = "decide" => call[c].by \in round[call[c].r].reviewers

\* What a request is about to write as an outcome was decided.
OutcomesAreEarned ==
  \A c \in Calls : call[c].pc \in {"close", "settle"} =>
    IF call[c].outcome = "APPROVED" THEN Approved(call[c].r) ELSE Returned(call[c].r)

CloserOf(r) == \E c \in Calls : call[c].pc = "close" /\ call[c].r = r

CounterOf(r) == \E c \in Calls : call[c].pc = "count" /\ call[c].r = r

\* Somebody is about to close each round that was decided.
SomebodyCloses ==
  \A r \in Rounds :
    round[r] # None /\ round[r].status = "WAITING_REVIEW" /\ r \notin broken =>
      /\ Returned(r) => CloserOf(r)
      /\ Approved(r) => CloserOf(r) \/ CounterOf(r)

IInv ==
  /\ TypeOK
  /\ DecisionsAreByReviewers
  /\ DecidersAreReviewers
  /\ OutcomesAreEarned
  /\ ApprovalIsEarned
  /\ SomebodyCloses

-----------------------------------------------------------------------------
\* The initial state satisfies the invariant.
LEMMA InitIInv == Init => IInv
  <1> SUFFICES ASSUME Init PROVE IInv
    OBVIOUS
  <1>1. TypeOK
    BY ReviewAssumption DEF Init, TypeOK, Versions, VersionStatuses, Idle
  <1>2. DecisionsAreByReviewers
    BY DEF Init, DecisionsAreByReviewers
  <1>3. DecidersAreReviewers /\ OutcomesAreEarned
    BY DEF Init, DecidersAreReviewers, OutcomesAreEarned, Idle
  <1>4. ApprovalIsEarned
    <2>1. \A v \in Versions : version[v] \notin {"APPROVED", "SUPERSEDED"}
      BY ReviewAssumption DEF Init, VersionStatuses
    <2> QED BY <2>1 DEF Init, ApprovalIsEarned
  <1>5. SomebodyCloses
    BY DEF Init, SomebodyCloses
  <1> QED BY <1>1, <1>2, <1>3, <1>4, <1>5 DEF IInv

\* What a request's program counter says about its record.
LEMMA RequestTypes ==
  ASSUME TypeOK, NEW c \in Calls
  PROVE  /\ call[c].pc \in {"supersede", "store", "point"} => call[c] \in Uploading
         /\ call[c].pc = "open" => call[c] \in Opening
         /\ call[c].pc = "mark" => call[c] \in Marking
         /\ call[c].pc = "decide" => call[c] \in Deciding
         /\ call[c].pc \in {"count", "close", "settle"} => call[c].r \in Rounds
         /\ call[c].pc \in {"close", "settle"} => call[c].outcome \in Outcomes
  BY DEF TypeOK, Idle, Uploading, Opening, Marking, Deciding, Closing

\* A request whose new record is well typed keeps all of them so.
LEMMA NewRequest ==
  ASSUME TypeOK, NEW c \in Calls, NEW q \in Requests, Goes(c, q)
  PROVE  call' \in [Calls -> Requests] /\ call'[c] = q /\ \A d \in Calls \ {c} : call'[d] = call[d]
  BY DEF TypeOK, Goes, Requests

\* The rows of a round have their type.
LEMMA RoundTypes ==
  ASSUME TypeOK, NEW r \in Rounds, round[r] # None
  PROVE  /\ round[r] \in RoundRows
         /\ round[r].version \in Versions
         /\ round[r].reviewers \in (SUBSET Reviewers) \ {{}}
         /\ round[r].rule \in Rules
  BY DEF TypeOK, RoundRows

\* allApproved counts what it should: nobody but the reviewers of a round decides it,
\* so as many approvals as reviewers means that each of them approved.
LEMMA EnoughIsApproved ==
  ASSUME TypeOK, DecisionsAreByReviewers, NEW r \in Rounds, round[r] # None
  PROVE  Enough(r) <=> Approved(r)
  <1> DEFINE R == round[r].reviewers
  <1> DEFINE A == Approvals(r)
  <1>1. R \in SUBSET Reviewers /\ R # {} /\ round[r].rule \in {"ALL", "ANY_ONE"}
    BY RoundTypes DEF Rules
  <1>2. A \in SUBSET R
    BY ReviewAssumption DEF Approvals, DecisionsAreByReviewers, Outcomes
  <1>3. IsFiniteSet(R)
    BY <1>1, ReviewAssumption, FS_Subset
  <1>4. /\ IsFiniteSet(A) /\ Cardinality(A) <= Cardinality(R)
        /\ Cardinality(R) = Cardinality(A) => R = A
    <2> HIDE DEF A, R
    <2> QED BY <1>2, <1>3, FS_Subset
  <1>5. Cardinality(A) \in Nat /\ Cardinality(R) \in Nat
    BY <1>3, <1>4, FS_CardinalityType
  <1>6. Cardinality(A) = 0 <=> A = {}
    BY <1>4, FS_EmptySet
  <1>7. CASE round[r].rule = "ANY_ONE"
    <2>1. Enough(r) <=> Cardinality(A) >= 1
      BY <1>7 DEF Enough
    <2>2. Enough(r) <=> A # {}
      BY <2>1, <1>5, <1>6
    <2>3. A # {} <=> \E p \in R : decision[r][p] = "APPROVED"
      BY <1>1, <1>2 DEF Approvals
    <2> QED BY <2>2, <2>3, <1>7 DEF Approved
  <1>8. CASE round[r].rule = "ALL"
    <2>1. Enough(r) <=> Cardinality(A) >= Cardinality(R)
      BY <1>8 DEF Enough
    <2>2. Enough(r) <=> R = A
      BY <2>1, <1>4, <1>5
    <2>3. R = A <=> \A p \in R : decision[r][p] = "APPROVED"
      BY <1>1, <1>2 DEF Approvals
    <2> QED BY <2>2, <2>3, <1>8 DEF Approved
  <1> QED BY <1>1, <1>7, <1>8

\* Every step keeps every variable in its type.
LEMMA StepTypeOK == IInv /\ [Next]_vars => TypeOK'
  <1> SUFFICES ASSUME IInv, [Next]_vars PROVE TypeOK'
    OBVIOUS
  <1> USE DEF IInv
  <1>0. Idle \in Requests
    BY DEF Requests
  <1>1. ASSUME NEW c \in Calls, StartUpload(c) PROVE TypeOK'
    <2> DEFINE q == [pc |-> "supersede", v |-> current + 1]
    <2>1. q \in Requests /\ Goes(c, q)
      BY <1>1, ReviewAssumption DEF StartUpload, TypeOK, Versions, Requests, Uploading
    <2> QED BY <1>1, <2>1, NewRequest DEF StartUpload, TypeOK, Requests
  <1>2. ASSUME NEW c \in Calls, Supersede(c) PROVE TypeOK'
    <2> DEFINE q == [call[c] EXCEPT !.pc = "store"]
    <2>1. q \in Requests /\ Goes(c, q)
      BY <1>2, RequestTypes DEF Supersede, Requests, Uploading
    <2>2. version' \in [Versions -> VersionStatuses \cup {None}]
      BY <1>2 DEF Supersede, TypeOK, VersionStatuses
    <2> QED BY <1>2, <2>1, <2>2, NewRequest DEF Supersede, TypeOK, Requests
  <1>3. ASSUME NEW c \in Calls, CreateVersion(c) PROVE TypeOK'
    <2> DEFINE q == [call[c] EXCEPT !.pc = "point"]
    <2>1. q \in Requests /\ call[c].v \in Versions
      BY <1>3, RequestTypes DEF CreateVersion, Requests, Uploading
    <2>2. version' \in [Versions -> VersionStatuses \cup {None}]
      BY <1>3, <2>1 DEF CreateVersion, TypeOK, VersionStatuses
    <2>3. call' \in [Calls -> Requests]
      BY <1>0, <1>3, <2>1, NewRequest DEF CreateVersion
    <2> QED BY <1>3, <2>2, <2>3 DEF CreateVersion, TypeOK, Requests
  <1>4. ASSUME NEW c \in Calls, PointDocument(c) PROVE TypeOK'
    BY <1>0, <1>4, RequestTypes, NewRequest DEF PointDocument, TypeOK, Requests, Uploading
  <1>5. ASSUME NEW c \in Calls, NEW v \in Versions, NEW reviewers \in SUBSET Reviewers, NEW rule \in Rules,
               ReadForRound(c, v, reviewers, rule)
        PROVE  TypeOK'
    <2> DEFINE q == [pc |-> "open", v |-> v, reviewers |-> reviewers, rule |-> rule]
    <2>1. q \in Requests /\ Goes(c, q)
      BY <1>5 DEF ReadForRound, Requests, Opening
    <2> QED BY <1>5, <2>1, NewRequest DEF ReadForRound, TypeOK, Requests
  <1>6. ASSUME NEW c \in Calls, NEW r \in Rounds, CreateRound(c, r) PROVE TypeOK'
    <2> DEFINE q == [pc |-> "mark", v |-> call[c].v]
    <2>1. call[c] \in Opening
      BY <1>6, RequestTypes DEF CreateRound
    <2>2. q \in Requests /\ Goes(c, q)
      BY <1>6, <2>1 DEF CreateRound, Requests, Opening, Marking
    <2>3. [version |-> call[c].v, reviewers |-> call[c].reviewers, rule |-> call[c].rule,
           status |-> "WAITING_REVIEW"] \in RoundRows
      BY <2>1 DEF Opening, RoundRows
    <2>4. round' \in [Rounds -> RoundRows \cup {None}]
      BY <1>6, <2>3 DEF CreateRound, TypeOK
    <2> QED BY <1>6, <2>2, <2>4, NewRequest DEF CreateRound, TypeOK, Requests
  <1>7. ASSUME NEW c \in Calls, MarkWaiting(c) PROVE TypeOK'
    <2>1. call[c].v \in Versions
      BY <1>7, RequestTypes DEF MarkWaiting, Marking
    <2>2. version' \in [Versions -> VersionStatuses \cup {None}]
      BY <1>7, <2>1 DEF MarkWaiting, TypeOK, VersionStatuses
    <2> QED BY <1>0, <1>7, <2>2, NewRequest DEF MarkWaiting, TypeOK, Requests
  <1>8. ASSUME NEW c \in Calls, NEW r \in Rounds, NEW p \in Reviewers, NEW outcome \in Outcomes,
               ReadForDecision(c, r, p, outcome)
        PROVE  TypeOK'
    <2> DEFINE q == [pc |-> "decide", r |-> r, by |-> p, outcome |-> outcome]
    <2>1. q \in Requests /\ Goes(c, q)
      BY <1>8 DEF ReadForDecision, Requests, Deciding
    <2> QED BY <1>8, <2>1, NewRequest DEF ReadForDecision, TypeOK, Requests
  <1>9. ASSUME NEW c \in Calls, CreateDecision(c) PROVE TypeOK'
    <2> DEFINE q == call[c]
    <2>1. q.r \in Rounds /\ q.by \in Reviewers /\ q.outcome \in Outcomes
      BY <1>9, RequestTypes DEF CreateDecision, Deciding
    <2>2. /\ [pc |-> "close", r |-> q.r, outcome |-> "RETURNED"] \in Requests
          /\ [pc |-> "count", r |-> q.r] \in Requests
      BY <2>1 DEF Requests, Closing, Outcomes
    <2>3. call' \in [Calls -> Requests]
      BY <1>0, <1>9, <2>2, NewRequest DEF CreateDecision
    <2>4. decision' \in [Rounds -> [Reviewers -> Outcomes \cup {None}]]
      BY <1>9, <2>1 DEF CreateDecision, TypeOK
    <2> QED BY <1>9, <2>3, <2>4 DEF CreateDecision, TypeOK, Requests
  <1>10. ASSUME NEW c \in Calls, CountApprovals(c) PROVE TypeOK'
    <2>1. [pc |-> "close", r |-> call[c].r, outcome |-> "APPROVED"] \in Requests
      BY <1>10, RequestTypes DEF CountApprovals, Requests, Closing, Outcomes
    <2>2. call' \in [Calls -> Requests]
      BY <1>0, <1>10, <2>1, NewRequest DEF CountApprovals
    <2> QED BY <1>10, <2>2 DEF CountApprovals, TypeOK, Requests
  <1>11. ASSUME NEW c \in Calls, CloseRound(c) PROVE TypeOK'
    <2> DEFINE q == [call[c] EXCEPT !.pc = "settle"]
    <2>1. call[c] \in [pc : {"close", "settle"}, r : Rounds, outcome : Outcomes]
      BY <1>11 DEF CloseRound, TypeOK, Idle, Uploading, Opening, Marking, Deciding, Closing
    <2>2. q \in Requests /\ Goes(c, q)
      BY <1>11, <2>1 DEF CloseRound, Requests, Closing
    <2>3. round[call[c].r] # None
      BY <1>11 DEF CloseRound, DecidersAreReviewers
    <2>4. round' \in [Rounds -> RoundRows \cup {None}]
      BY <1>11, <2>1, <2>3 DEF CloseRound, TypeOK, RoundRows
    <2> QED BY <1>11, <2>2, <2>4, NewRequest DEF CloseRound, TypeOK, Requests
  <1>12. ASSUME NEW c \in Calls, SettleVersion(c) PROVE TypeOK'
    <2>1. version' \in [Versions -> VersionStatuses \cup {None}]
      BY <1>12 DEF SettleVersion, TypeOK, VersionStatuses
    <2> QED BY <1>0, <1>12, <2>1, NewRequest DEF SettleVersion, TypeOK, Requests
  <1>13. ASSUME NEW c \in Calls, BreakOff(c) PROVE TypeOK'
    <2>1. broken' \subseteq Rounds
      BY <1>13, RequestTypes DEF BreakOff, TypeOK
    <2>2. faults' \in 0 .. MaxFaults
      BY <1>13, ReviewAssumption DEF BreakOff, TypeOK
    <2> QED BY <1>0, <1>13, <2>1, <2>2, NewRequest DEF BreakOff, TypeOK, Requests
  <1>14. ASSUME UNCHANGED vars PROVE TypeOK'
    BY <1>14 DEF vars, TypeOK
  <1> QED
    BY <1>1, <1>2, <1>3, <1>4, <1>5, <1>6, <1>7, <1>8, <1>9, <1>10, <1>11, <1>12, <1>13, <1>14 DEF Next, Step

\* A round keeps what it was opened with, and a decision stands.
LEMMA StepKeepsRecords ==
  ASSUME IInv, [Next]_vars, NEW r \in Rounds, round[r] # None
  PROVE  /\ round'[r] # None
         /\ round'[r].version = round[r].version
         /\ round'[r].reviewers = round[r].reviewers
         /\ round'[r].rule = round[r].rule
         /\ \A p \in Reviewers : decision[r][p] # None => decision'[r][p] = decision[r][p]
  <1> USE DEF IInv
  <1>1. ASSUME NEW c \in Calls, NEW s \in Rounds, CreateRound(c, s)
        PROVE  round'[r] = round[r] /\ decision' = decision
    BY <1>1 DEF CreateRound, TypeOK
  <1>2. ASSUME NEW c \in Calls, CreateDecision(c)
        PROVE  /\ round' = round
               /\ \A p \in Reviewers : decision[r][p] # None => decision'[r][p] = decision[r][p]
    <2>1. call[c].r \in Rounds /\ call[c].by \in Reviewers
      BY <1>2, RequestTypes DEF CreateDecision, Deciding
    <2> QED BY <1>2, <2>1 DEF CreateDecision, TypeOK
  <1>3. ASSUME NEW c \in Calls, CloseRound(c)
        PROVE  /\ decision' = decision
               /\ round'[r] = IF call[c].r = r THEN [round[r] EXCEPT !.status = call[c].outcome] ELSE round[r]
    BY <1>3, RequestTypes DEF CloseRound, TypeOK
  <1>4. round[r] \in RoundRows
    BY RoundTypes
  <1>5. ASSUME NEW c \in Calls, CloseRound(c)
        PROVE  /\ round'[r] \in RoundRows /\ round'[r].version = round[r].version
               /\ round'[r].reviewers = round[r].reviewers /\ round'[r].rule = round[r].rule
    BY <1>3, <1>4, <1>5, RequestTypes DEF CloseRound, RoundRows
  <1>6. CASE UNCHANGED <<round, decision>>
    BY <1>6
  <1> QED
    BY <1>1, <1>2, <1>3, <1>5, <1>6, ReviewAssumption
    DEF Next, Step, vars, StartUpload, Supersede, CreateVersion, PointDocument, ReadForRound, MarkWaiting,
        ReadForDecision, CountApprovals, SettleVersion, BreakOff

\* So what was decided stays decided.
LEMMA StepKeepsOutcomes ==
  ASSUME IInv, [Next]_vars, NEW r \in Rounds, round[r] # None
  PROVE  (Approved(r) => Approved(r)') /\ (Returned(r) => Returned(r)')
  BY StepKeepsRecords, RoundTypes, ReviewAssumption DEF Approved, Returned, Outcomes, IInv

\* The requests that do not act keep their record.
LEMMA OneRequestActs ==
  ASSUME NEW c \in Calls, Step(c), TypeOK
  PROVE  \A d \in Calls \ {c} : call'[d] = call[d]
  <1>1. ASSUME NEW q, Goes(c, q) PROVE \A d \in Calls \ {c} : call'[d] = call[d]
    BY <1>1 DEF Goes, TypeOK
  <1>2. \E q : Goes(c, q)
    <2>1. ASSUME Supersede(c) \/ CreateVersion(c) \/ CloseRound(c) PROVE \E q : Goes(c, q)
      BY <2>1, Zenon DEF Supersede, CreateVersion, CloseRound
    <2> QED
      BY <2>1 DEF Step, StartUpload, PointDocument, ReadForRound, CreateRound, MarkWaiting,
                  ReadForDecision, CreateDecision, CountApprovals, SettleVersion, BreakOff
  <1> QED BY <1>1, <1>2

\* A step that records no decision leaves them by reviewers, and one that records
\* one was admitted for a reviewer.
LEMMA StepDecisions == IInv /\ [Next]_vars => DecisionsAreByReviewers'
  <1> SUFFICES ASSUME IInv, [Next]_vars, NEW r \in Rounds, NEW p \in Reviewers, decision'[r][p] # None
               PROVE  round'[r] # None /\ p \in round'[r].reviewers
    BY DEF DecisionsAreByReviewers
  <1> USE DEF IInv
  <1>1. CASE decision[r][p] # None
    BY <1>1, StepKeepsRecords DEF DecisionsAreByReviewers
  <1>2. CASE decision[r][p] = None
    <2>1. PICK c \in Calls : CreateDecision(c)
      BY <1>2 DEF Next, Step, vars, StartUpload, Supersede, CreateVersion, PointDocument, ReadForRound, CreateRound,
                  MarkWaiting, ReadForDecision, CountApprovals, CloseRound, SettleVersion, BreakOff
    <2>2. call[c].r \in Rounds /\ call[c].by \in Reviewers /\ call[c].pc = "decide"
      BY <2>1, RequestTypes DEF CreateDecision, Deciding
    <2>3. call[c].r = r /\ call[c].by = p
      BY <1>2, <2>1, <2>2 DEF CreateDecision, TypeOK
    <2>4. round[r] # None /\ p \in round[r].reviewers
      BY <2>2, <2>3 DEF DecidersAreReviewers
    <2> QED BY <2>4, StepKeepsRecords
  <1> QED BY <1>1, <1>2

\* What a request that is deciding a round knows of it.
LEMMA StepDeciders == IInv /\ [Next]_vars => DecidersAreReviewers'
  <1> SUFFICES ASSUME IInv, [Next]_vars, NEW d \in Calls
               PROVE  /\ call'[d].pc \in {"decide", "count", "close", "settle"} => round'[call'[d].r] # None
                      /\ call'[d].pc = "decide" => call'[d].by \in round'[call'[d].r].reviewers
    BY DEF DecidersAreReviewers
  <1> USE DEF IInv
  <1>1. ASSUME call'[d] = call[d]
        PROVE  /\ call'[d].pc \in {"decide", "count", "close", "settle"} => round'[call'[d].r] # None
               /\ call'[d].pc = "decide" => call'[d].by \in round'[call'[d].r].reviewers
    <2>1. CASE call[d].pc = "decide"
      <3>1. call[d].r \in Rounds
        BY <2>1, RequestTypes DEF Deciding
      <3> QED BY <1>1, <2>1, <3>1, StepKeepsRecords DEF DecidersAreReviewers
    <2>2. CASE call[d].pc \in {"count", "close", "settle"}
      BY <1>1, <2>2, RequestTypes, StepKeepsRecords DEF DecidersAreReviewers
    <2> QED BY <1>1, <2>1, <2>2
  <1>2. ASSUME NEW r \in Rounds, NEW p \in Reviewers, NEW outcome \in Outcomes, ReadForDecision(d, r, p, outcome)
        PROVE  round'[call'[d].r] # None /\ call'[d].by \in round'[call'[d].r].reviewers
    BY <1>2 DEF ReadForDecision, Goes, TypeOK
  <1>3. ASSUME CreateDecision(d) \/ CountApprovals(d) \/ CloseRound(d),
               call'[d].pc \in {"decide", "count", "close", "settle"}
        PROVE  round'[call'[d].r] # None /\ call'[d].pc # "decide"
    <2>1. call[d].r \in Rounds /\ round[call[d].r] # None
      BY <1>3, RequestTypes DEF CreateDecision, CountApprovals, CloseRound, DecidersAreReviewers, Deciding
    <2>2. round'[call[d].r] # None
      BY <2>1, StepKeepsRecords
    <2>3. call'[d].r = call[d].r /\ call'[d].pc # "decide"
      <3>1. CASE CreateDecision(d)
        BY <1>3, <3>1 DEF CreateDecision, Goes, TypeOK, Idle
      <3>2. CASE CountApprovals(d)
        BY <1>3, <3>2 DEF CountApprovals, Goes, TypeOK, Idle
      <3>3. CASE CloseRound(d)
        <4>1. call[d] \in [pc : {"close", "settle"}, r : Rounds, outcome : Outcomes]
          BY <3>3 DEF CloseRound, TypeOK, Idle, Uploading, Opening, Marking, Deciding, Closing
        <4> QED BY <3>3, <4>1 DEF CloseRound, Goes, TypeOK
      <3> QED BY <1>3, <3>1, <3>2, <3>3
    <2> QED BY <2>2, <2>3
  <1>4. ASSUME call'[d] # call[d],
               call'[d].pc \in {"decide", "count", "close", "settle"}
        PROVE  \/ \E r \in Rounds, p \in Reviewers, outcome \in Outcomes : ReadForDecision(d, r, p, outcome)
               \/ CreateDecision(d) \/ CountApprovals(d) \/ CloseRound(d)
    <2>1. Step(d)
      BY <1>4, OneRequestActs DEF Next, vars
    <2>2. ASSUME Supersede(d) PROVE FALSE
      BY <1>4, <2>2, RequestTypes DEF Supersede, Goes, TypeOK, Uploading
    <2>3. ASSUME CreateVersion(d) PROVE FALSE
      BY <1>4, <2>3, RequestTypes DEF CreateVersion, Goes, TypeOK, Uploading, Idle
    <2>4. ASSUME StartUpload(d) \/ PointDocument(d) \/ MarkWaiting(d) \/ SettleVersion(d) \/ BreakOff(d)
          PROVE  FALSE
      BY <1>4, <2>4 DEF StartUpload, PointDocument, MarkWaiting, SettleVersion, BreakOff, Goes, TypeOK, Idle
    <2>5. ASSUME NEW v \in Versions, NEW reviewers \in SUBSET Reviewers, NEW rule \in Rules,
                 ReadForRound(d, v, reviewers, rule)
          PROVE  FALSE
      BY <1>4, <2>5 DEF ReadForRound, Goes, TypeOK
    <2>6. ASSUME NEW r \in Rounds, CreateRound(d, r) PROVE FALSE
      BY <1>4, <2>6 DEF CreateRound, Goes, TypeOK
    <2> QED BY <2>1, <2>2, <2>3, <2>4, <2>5, <2>6 DEF Step
  <1> QED BY <1>1, <1>2, <1>3, <1>4


Earned(r, outcome) == IF outcome = "APPROVED" THEN Approved(r) ELSE Returned(r)

\* The outcome that the request's new record names was decided.
WritesWhatIsEarned(d) ==
  \E r \in Rounds : \E outcome \in Outcomes :
    call'[d].r = r /\ call'[d].outcome = outcome /\ Earned(r, outcome)'

\* What a request is about to write is decided when it starts to, and stays so.
LEMMA StepOutcomes == IInv /\ [Next]_vars => OutcomesAreEarned'
  <1> SUFFICES ASSUME IInv, [Next]_vars, NEW d \in Calls, call'[d].pc \in {"close", "settle"}
               PROVE  WritesWhatIsEarned(d)
    BY DEF OutcomesAreEarned, Earned, WritesWhatIsEarned
  <1> USE DEF IInv, WritesWhatIsEarned
  <1>1. ASSUME call[d].pc \in {"close", "settle"}, call'[d].r = call[d].r, call'[d].outcome = call[d].outcome
        PROVE  WritesWhatIsEarned(d)
    <2>1. call[d].r \in Rounds /\ round[call[d].r] # None
      BY <1>1, RequestTypes DEF DecidersAreReviewers
    <2>2. Earned(call[d].r, call[d].outcome)
      BY <1>1 DEF OutcomesAreEarned, Earned
    <2>3. ASSUME NEW r \in Rounds, NEW outcome, r = call[d].r, outcome = call[d].outcome
          PROVE  Earned(r, outcome)'
      BY <2>1, <2>2, <2>3, StepKeepsOutcomes DEF Earned
    <2>4. call[d].outcome \in Outcomes
      BY <1>1, RequestTypes
    <2> QED BY <1>1, <2>1, <2>3, <2>4
  <1>2. ASSUME CreateDecision(d) PROVE WritesWhatIsEarned(d)
    <2>1. /\ call[d].r \in Rounds /\ call[d].by \in Reviewers /\ call[d].pc = "decide"
          /\ round[call[d].r] # None /\ call[d].by \in round[call[d].r].reviewers
      BY <1>2, RequestTypes DEF CreateDecision, Deciding, DecidersAreReviewers
    <2>2. /\ call'[d].r = call[d].r /\ call'[d].outcome = "RETURNED"
          /\ decision'[call[d].r][call[d].by] = "RETURNED"
      BY <1>2, <2>1 DEF CreateDecision, Goes, TypeOK, Idle
    <2>3. round' = round
      BY <1>2 DEF CreateDecision
    <2>4. ASSUME NEW r \in Rounds, r = call[d].r PROVE Returned(r)'
      BY <2>1, <2>2, <2>3, <2>4 DEF Returned
    <2> QED BY <2>1, <2>2, <2>4 DEF Earned, Outcomes
  <1>3. ASSUME CountApprovals(d) PROVE WritesWhatIsEarned(d)
    <2>1. call[d].r \in Rounds /\ round[call[d].r] # None
      BY <1>3, RequestTypes DEF CountApprovals, DecidersAreReviewers
    <2>2. call'[d].r = call[d].r /\ call'[d].outcome = "APPROVED" /\ Enough(call[d].r)
      BY <1>3 DEF CountApprovals, Goes, TypeOK, Idle
    <2>3. ASSUME NEW r \in Rounds, r = call[d].r PROVE Approved(r)'
      BY <2>1, <2>2, <2>3, EnoughIsApproved, StepKeepsOutcomes
    <2> QED BY <2>1, <2>2, <2>3 DEF Earned, Outcomes
  <1>4. ASSUME CloseRound(d) PROVE call[d].pc = "close" /\ call'[d].r = call[d].r /\ call'[d].outcome = call[d].outcome
    <2>1. call[d] \in [pc : {"close", "settle"}, r : Rounds, outcome : Outcomes]
      BY <1>4 DEF CloseRound, TypeOK, Idle, Uploading, Opening, Marking, Deciding, Closing
    <2> QED BY <1>4, <2>1 DEF CloseRound, Goes, TypeOK
  <1>5. ASSUME call'[d] # call[d] PROVE CreateDecision(d) \/ CountApprovals(d) \/ CloseRound(d)
    <2>1. Step(d)
      BY <1>5, OneRequestActs DEF Next, vars
    <2>2. ASSUME Supersede(d) PROVE FALSE
      BY <2>2, RequestTypes DEF Supersede, Goes, TypeOK, Uploading
    <2>3. ASSUME CreateVersion(d) PROVE FALSE
      BY <2>3, RequestTypes DEF CreateVersion, Goes, TypeOK, Uploading, Idle
    <2>4. ASSUME StartUpload(d) \/ PointDocument(d) \/ MarkWaiting(d) \/ SettleVersion(d) \/ BreakOff(d)
          PROVE  FALSE
      BY <2>4 DEF StartUpload, PointDocument, MarkWaiting, SettleVersion, BreakOff, Goes, TypeOK, Idle
    <2>5. ASSUME NEW v \in Versions, NEW reviewers \in SUBSET Reviewers, NEW rule \in Rules,
                 ReadForRound(d, v, reviewers, rule)
          PROVE  FALSE
      BY <2>5 DEF ReadForRound, Goes, TypeOK
    <2>6. ASSUME NEW r \in Rounds, CreateRound(d, r) PROVE FALSE
      BY <2>6 DEF CreateRound, Goes, TypeOK
    <2>7. ASSUME NEW r \in Rounds, NEW p \in Reviewers, NEW outcome \in Outcomes, ReadForDecision(d, r, p, outcome)
          PROVE  FALSE
      BY <2>7 DEF ReadForDecision, Goes, TypeOK
    <2> QED BY <2>1, <2>2, <2>3, <2>4, <2>5, <2>6, <2>7 DEF Step
  <1> QED BY <1>1, <1>2, <1>3, <1>4, <1>5

\* Only a new round and the close of a round change its row.
LEMMA StepRounds ==
  ASSUME IInv, [Next]_vars, NEW r \in Rounds, round'[r] # round[r]
  PROVE  \/ round[r] = None /\ round'[r].status = "WAITING_REVIEW"
         \/ /\ round[r] # None
            /\ \E c \in Calls : CloseRound(c) /\ call[c].r = r /\ round'[r].status = call[c].outcome
                                /\ call[c].outcome \in Outcomes /\ Earned(r, call[c].outcome)
  <1> USE DEF IInv
  <1>1. PICK c \in Calls : CloseRound(c) \/ \E s \in Rounds : CreateRound(c, s)
    BY DEF Next, Step, vars, StartUpload, Supersede, CreateVersion, PointDocument, ReadForRound, MarkWaiting,
           ReadForDecision, CreateDecision, CountApprovals, SettleVersion, BreakOff
  <1>2. CASE \E s \in Rounds : CreateRound(c, s)
    BY <1>2 DEF CreateRound, TypeOK
  <1>3. CASE CloseRound(c)
    <2>1. call[c].r \in Rounds /\ call[c].outcome \in Outcomes /\ round[call[c].r] # None
      BY <1>3, RequestTypes DEF CloseRound, DecidersAreReviewers
    <2>2. call[c].r = r
      BY <1>3, <2>1 DEF CloseRound, TypeOK
    <2>3. round[r] \in RoundRows
      BY <2>1, <2>2, RoundTypes
    <2>4. round'[r].status = call[c].outcome
      BY <1>3, <2>2, <2>3 DEF CloseRound, TypeOK, RoundRows
    <2>5. Earned(r, call[c].outcome)
      BY <1>3, <2>2 DEF CloseRound, OutcomesAreEarned, Earned
    <2> QED BY <1>3, <2>1, <2>2, <2>4, <2>5
  <1> QED BY <1>1, <1>2, <1>3

\* No approval or return is recorded that was not given.
LEMMA StepEarned == IInv /\ [Next]_vars => ApprovalIsEarned'
  <1> SUFFICES ASSUME IInv, [Next]_vars PROVE ApprovalIsEarned'
    OBVIOUS
  <1> USE DEF IInv
  <1>1. ASSUME NEW r \in Rounds, round'[r] # None
        PROVE  /\ round'[r].status = "APPROVED" => Approved(r)'
               /\ round'[r].status = "RETURNED" => Returned(r)'
    <2>1. CASE round'[r] = round[r]
      BY <1>1, <2>1, StepKeepsOutcomes DEF ApprovalIsEarned
    <2>2. CASE round'[r] # round[r]
      BY <1>1, <2>2, StepRounds, StepKeepsOutcomes DEF Earned
    <2> QED BY <2>1, <2>2
  <1>2. ASSUME NEW v \in Versions, version'[v] \in {"APPROVED", "SUPERSEDED"}
        PROVE  \E r \in Rounds : round[r] # None /\ round[r].version = v /\ Approved(r)
    <2>1. CASE version[v] \in {"APPROVED", "SUPERSEDED"}
      BY <2>1 DEF ApprovalIsEarned
    <2>2. CASE version[v] \notin {"APPROVED", "SUPERSEDED"}
      <3>1. ASSUME NEW c \in Calls, Supersede(c) \/ CreateVersion(c) \/ MarkWaiting(c) PROVE FALSE
        BY <1>2, <2>2, <3>1 DEF Supersede, CreateVersion, MarkWaiting, TypeOK
      <3>2. PICK c \in Calls : SettleVersion(c)
        BY <1>2, <2>2, <3>1 DEF Next, Step, vars, StartUpload, PointDocument, ReadForRound, CreateRound,
               ReadForDecision, CreateDecision, CountApprovals, CloseRound, BreakOff
      <3>3. call[c].r \in Rounds /\ round[call[c].r] # None
        BY <3>2, RequestTypes DEF SettleVersion, DecidersAreReviewers
      <3>4. round[call[c].r].version = v /\ call[c].outcome = "APPROVED"
        BY <1>2, <2>2, <3>2 DEF SettleVersion, TypeOK
      <3>5. Approved(call[c].r)
        BY <3>2, <3>4 DEF SettleVersion, OutcomesAreEarned
      <3> QED BY <3>3, <3>4, <3>5
    <2> QED BY <2>1, <2>2
  <1>3. ASSUME NEW v \in Versions, version'[v] \in {"APPROVED", "SUPERSEDED"}
        PROVE  \E r \in Rounds : round'[r] # None /\ round'[r].version = v /\ Approved(r)'
    BY <1>2, <1>3, StepKeepsRecords, StepKeepsOutcomes
  <1> QED BY <1>1, <1>3 DEF ApprovalIsEarned


\* A request that is to close or count a round goes on as long as the round waits.
LEMMA ClosersGoOn ==
  ASSUME IInv, [Next]_vars, NEW r \in Rounds, NEW c \in Calls, call[c].r = r,
         round'[r].status = "WAITING_REVIEW", r \notin broken', round[r] # None
  PROVE  /\ call[c].pc = "close" => call'[c] = call[c]
         /\ call[c].pc = "count" /\ Approved(r) =>
              call'[c] = call[c] \/ (call'[c].pc = "close" /\ call'[c].r = r)
  <1> USE DEF IInv
  <1>1. SUFFICES ASSUME call[c].pc \in {"close", "count"}, Step(c)
        PROVE  call[c].pc = "count" /\ (Approved(r) => call'[c].pc = "close" /\ call'[c].r = r)
    BY OneRequestActs DEF Next, vars
  <1>2. ~BreakOff(c)
    BY <1>1 DEF BreakOff
  <1>3. ~CloseRound(c)
    <2> SUFFICES ASSUME CloseRound(c) PROVE FALSE
      OBVIOUS
    <2>1. call[c].outcome \in Outcomes /\ round[r] \in RoundRows
      BY RequestTypes, RoundTypes DEF CloseRound
    <2>2. round'[r].status = call[c].outcome
      BY <2>1 DEF CloseRound, TypeOK, RoundRows
    <2> QED BY <2>1, <2>2 DEF Outcomes
  <1>4. CountApprovals(c)
    <2>1. ~StartUpload(c) /\ ~PointDocument(c) /\ ~MarkWaiting(c) /\ ~SettleVersion(c)
      BY <1>1 DEF StartUpload, PointDocument, MarkWaiting, SettleVersion, Idle
    <2>2. ~Supersede(c) /\ ~CreateVersion(c) /\ ~CreateDecision(c)
      BY <1>1 DEF Supersede, CreateVersion, CreateDecision
    <2>3. ASSUME NEW v, NEW reviewers, NEW rule PROVE ~ReadForRound(c, v, reviewers, rule)
      BY <1>1 DEF ReadForRound, Idle
    <2>4. ASSUME NEW s PROVE ~CreateRound(c, s)
      BY <1>1 DEF CreateRound
    <2>5. ASSUME NEW s, NEW p, NEW outcome PROVE ~ReadForDecision(c, s, p, outcome)
      BY <1>1 DEF ReadForDecision, Idle
    <2> QED BY <1>1, <1>2, <1>3, <2>1, <2>2, <2>3, <2>4, <2>5, Zenon DEF Step
  <1>5. Approved(r) => Enough(r)
    BY EnoughIsApproved
  <1> QED BY <1>4, <1>5 DEF CountApprovals, Goes, TypeOK

\* A decision that was not there before is followed by a count, or by the return.
LEMMA DecidersClose ==
  ASSUME IInv, [Next]_vars, NEW r \in Rounds, NEW p \in Reviewers, decision'[r][p] # decision[r][p]
  PROVE  /\ round' = round
         /\ \A s \in Reviewers \ {p} : decision'[r][s] = decision[r][s]
         /\ \E c \in Calls : call'[c].r = r /\ call'[c].pc = IF decision'[r][p] = "RETURNED" THEN "close" ELSE "count"
  <1> USE DEF IInv
  <1>1. PICK c \in Calls : CreateDecision(c)
    BY DEF Next, Step, vars, StartUpload, Supersede, CreateVersion, PointDocument, ReadForRound, CreateRound,
           MarkWaiting, ReadForDecision, CountApprovals, CloseRound, SettleVersion, BreakOff
  <1>2. call[c].r \in Rounds /\ call[c].by \in Reviewers /\ call[c].outcome \in Outcomes
    BY <1>1, RequestTypes DEF CreateDecision, Deciding
  <1>3. /\ call[c].r = r /\ call[c].by = p /\ decision'[r][p] = call[c].outcome
        /\ \A s \in Reviewers \ {p} : decision'[r][s] = decision[r][s]
    BY <1>1, <1>2 DEF CreateDecision, TypeOK
  <1>4. call'[c].r = r /\ call'[c].pc = IF decision'[r][p] = "RETURNED" THEN "close" ELSE "count"
    BY <1>1, <1>2, <1>3 DEF CreateDecision, Goes, TypeOK
  <1> QED BY <1>1, <1>3, <1>4 DEF CreateDecision

\* Who decides a round closes it, or leaves that to somebody who is about to.
LEMMA StepCloses == IInv /\ [Next]_vars => SomebodyCloses'
  <1> SUFFICES ASSUME IInv, [Next]_vars, NEW r \in Rounds,
                      round'[r] # None, round'[r].status = "WAITING_REVIEW", r \notin broken'
               PROVE  /\ Returned(r)' => CloserOf(r)'
                      /\ Approved(r)' => CloserOf(r)' \/ CounterOf(r)'
    BY DEF SomebodyCloses
  <1> USE DEF IInv
  <1>1. CASE round[r] = None
    <2>1. \A p \in Reviewers : decision[r][p] = None
      BY <1>1 DEF DecisionsAreByReviewers
    <2>2. \A p \in Reviewers : decision'[r][p] = None
      BY <1>1, <2>1, DecidersClose
    <2>3. round'[r] \in RoundRows
      BY StepTypeOK DEF TypeOK
    <2> QED BY <2>2, <2>3, ReviewAssumption DEF Approved, Returned, RoundRows, Outcomes
  <1>2. CASE round[r] # None
    <2>1. round[r].status = "WAITING_REVIEW" /\ r \notin broken
      <3>1. round[r].status = "WAITING_REVIEW"
        BY <1>2, StepRounds DEF Outcomes
      <3>2. broken \subseteq broken'
        BY DEF Next, Step, vars, StartUpload, Supersede, CreateVersion, PointDocument, ReadForRound, CreateRound,
               MarkWaiting, ReadForDecision, CreateDecision, CountApprovals, CloseRound, SettleVersion, BreakOff
      <3> QED BY <3>1, <3>2
    <2>2. Returned(r) => CloserOf(r)'
      BY <1>2, <2>1, ClosersGoOn DEF SomebodyCloses, CloserOf
    <2>3. Approved(r) => CloserOf(r)' \/ CounterOf(r)'
      BY <1>2, <2>1, ClosersGoOn DEF SomebodyCloses, CloserOf, CounterOf
    <2>4. round[r].reviewers \in (SUBSET Reviewers) \ {{}} /\ round[r].rule \in Rules
      BY <1>2, RoundTypes
    <2>5. ASSUME NEW p \in Reviewers, decision'[r][p] # decision[r][p]
          PROVE  /\ Returned(r)' => CloserOf(r)'
                 /\ Approved(r)' => CloserOf(r)' \/ CounterOf(r)'
      <3>1. CASE decision'[r][p] = "RETURNED"
        BY <2>5, <3>1, DecidersClose DEF CloserOf
      <3>2. CASE decision'[r][p] # "RETURNED"
        <4>1. CounterOf(r)'
          BY <2>5, <3>2, DecidersClose DEF CounterOf
        <4>2. Returned(r)' => Returned(r)
          BY <2>4, <2>5, <3>2, DecidersClose DEF Returned
        <4> QED BY <4>1, <4>2, <2>2
      <3> QED BY <3>1, <3>2
    <2>6. ASSUME \A p \in Reviewers : decision'[r][p] = decision[r][p]
          PROVE  /\ Returned(r)' => CloserOf(r)'
                 /\ Approved(r)' => CloserOf(r)' \/ CounterOf(r)'
      <3>1. (Returned(r)' => Returned(r)) /\ (Approved(r)' => Approved(r))
        BY <1>2, <2>4, <2>6, StepKeepsRecords DEF Returned, Approved
      <3> QED BY <3>1, <2>2, <2>3
    <2> QED BY <2>5, <2>6
  <1> QED BY <1>1, <1>2

-----------------------------------------------------------------------------
\* The invariant is inductive.
LEMMA StepIInv == IInv /\ [Next]_vars => IInv'
  BY StepTypeOK, StepDecisions, StepDeciders, StepOutcomes, StepEarned, StepCloses DEF IInv

\* Every behaviour keeps the invariant.
LEMMA Invariance == Spec => []IInv
  BY InitIInv, StepIInv, PTL DEF Spec

\* Every variable keeps its type.
THEOREM TypeCorrect == Spec => []TypeOK
  BY Invariance, PTL DEF IInv

\* No version counts as approved, and no round is closed, without the decisions that
\* earn it, whatever rounds, uploads and decisions overlap or break off.
THEOREM ApprovalsAreEarned == Spec => []ApprovalIsEarned
  BY Invariance, PTL DEF IInv

\* A round whose reviewers have decided is closed when nobody is at work on it.
THEOREM DecidedRoundsAreClosed == Spec => []DecidedRoundIsClosed
  <1>1. IInv => DecidedRoundIsClosed
    BY DEF IInv, SomebodyCloses, DecidedRoundIsClosed, CloserOf, CounterOf
  <1> QED BY <1>1, Invariance, PTL

\* Of a round that all must approve, no step changes the outcome.
LEMMA StepOutcomeStands ==
  ASSUME IInv, [Next]_vars, NEW r \in Rounds,
         round[r] # None, round[r].rule = "ALL", round[r].status \in Outcomes
  PROVE  round'[r] = round[r]
  <1> USE DEF IInv
  <1> SUFFICES ASSUME round'[r] # round[r] PROVE FALSE
    OBVIOUS
  <1>1. PICK c \in Calls : /\ CloseRound(c) /\ call[c].r = r /\ call[c].outcome \in Outcomes
                           /\ Earned(r, call[c].outcome)
    BY StepRounds
  <1>2. ~(Approved(r) /\ Returned(r))
    BY RoundTypes DEF Approved, Returned
  <1>3. call[c].outcome = round[r].status
    BY <1>1, <1>2 DEF Earned, ApprovalIsEarned, Outcomes
  <1>4. round[r] \in RoundRows
    BY RoundTypes
  <1>5. [round[r] EXCEPT !.status = round[r].status] = round[r]
    BY <1>4 DEF RoundRows
  <1> QED BY <1>1, <1>3, <1>5 DEF CloseRound, TypeOK

\* The outcome of a round that all must approve stands once the round is closed.
THEOREM OutcomesStand == Spec => UnanimousOutcomeStands
  <1>1. IInv /\ [Next]_vars =>
          [\A r \in Rounds : round[r] # None /\ round[r].rule = "ALL" /\ round[r].status \in Outcomes =>
             round'[r] = round[r]]_vars
    BY StepOutcomeStands
  <1> QED BY <1>1, Invariance, PTL DEF Spec, UnanimousOutcomeStands


=============================================================================
