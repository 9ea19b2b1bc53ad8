--------------------------- MODULE ExpenseProofs ---------------------------
(***************************************************************************)
(* Proofs about ExpenseClaims and CashAdvance, for any finite sets of      *)
(* expenses and claims, any amounts, and any advances and concurrent       *)
(* requests.                                                               *)
(***************************************************************************)
EXTENDS ExpenseClaims, CashAdvance, FiniteSums, TLAPS

-----------------------------------------------------------------------------
(* Expenses, claims and petty cash: ExpenseClaims.                         *)

\* A claim handler in flight acts on a claim that exists, by a decision that
\* fits the status it read, and while that claim is still pending no line has
\* joined it: lines only leave a claim that was created.
ClaimReqSound ==
  \A r \in Requests : req[r].op = "claim" =>
    LET q == req[r]
    IN  /\ claimStatus[q.c] # None
        /\ <<q.seen, q.next>> \in Decision
        /\ claimStatus[q.c] = "PENDING" => LinesOf(q.c) \subseteq q.lines

\* A line points to a claim row that exists.
LinesHaveClaims == \A e \in Expenses : claimOf[e] # None => claimStatus[claimOf[e]] # None

\* An expense that was debited on its own is never again a pending expense
\* without a claim, which is the only thing that is debited on its own.
DebitedAloneIsGone ==
  \A e \in Expenses :
    debitedAlone[e] = 0
      \/ (debitedAlone[e] = 1 /\ status[e] # None /\ ~(status[e] = "PENDING" /\ claimOf[e] = None))

IInv ==
  /\ TypeOK
  /\ ClaimLinesAgree
  /\ ReimbursedLinesWereDebited
  /\ ClaimReqSound
  /\ LinesHaveClaims
  /\ DebitedAloneIsGone
  /\ FundAccounted

\* What the lines of a claim come to is a natural number.
LEMMA TotalAmountType == \A lines \in SUBSET Expenses : TotalAmount(lines) \in Nat
  <1> SUFFICES ASSUME NEW lines \in SUBSET Expenses PROVE TotalAmount(lines) \in Nat
    OBVIOUS
  <1>1. IsFiniteSet(lines) /\ \A e \in lines : Amount[e] \in Nat
    BY RowsAssumption, AmountAssumption, FS_Subset
  <1> QED BY <1>1, SumType DEF TotalAmount

\* The claims whose approval drew on the fund, and what it drew; what was drawn for
\* expenses on their own.
Approved == {c \in Claims : claimStatus[c] \in {"APPROVED", "PAID"}}
ClaimDebits == [c \in Claims |-> TotalAmount(debited[c])]
AloneDebits == [e \in Expenses |-> Amount[e] * debitedAlone[e]]

\* The parts of the account of the fund, and what they add up to.
LEMMA FundParts ==
  ASSUME TypeOK
  PROVE  /\ IsFiniteSet(Approved) /\ Approved \subseteq Claims
         /\ \A c \in Claims : ClaimDebits[c] = TotalAmount(debited[c]) /\ ClaimDebits[c] \in Nat
         /\ \A e \in Expenses : AloneDebits[e] = Amount[e] * debitedAlone[e] /\ AloneDebits[e] \in Nat
         /\ SumFunctionOnSet(ClaimDebits, Approved) \in Nat
         /\ SumFunctionOnSet(AloneDebits, Expenses) \in Nat
         /\ FundAccounted <=> Fund - balance = SumFunctionOnSet(ClaimDebits, Approved)
                                               + SumFunctionOnSet(AloneDebits, Expenses)
  <1>1. IsFiniteSet(Approved) /\ Approved \subseteq Claims
    BY RowsAssumption, FS_Subset DEF Approved
  <1>2. \A c \in Claims : ClaimDebits[c] = TotalAmount(debited[c]) /\ ClaimDebits[c] \in Nat
    BY TotalAmountType DEF ClaimDebits, TypeOK
  <1>3. \A e \in Expenses : AloneDebits[e] = Amount[e] * debitedAlone[e] /\ AloneDebits[e] \in Nat
    BY AmountAssumption DEF AloneDebits, TypeOK
  <1>4. SumFunctionOnSet(ClaimDebits, Approved) \in Nat
    BY <1>1, <1>2, SumType
  <1>5. SumFunctionOnSet(AloneDebits, Expenses) \in Nat
    BY <1>3, RowsAssumption, SumType
  <1>6. FundAccounted <=> Fund - balance = SumFunctionOnSet(ClaimDebits, Approved)
                                         + SumFunctionOnSet(AloneDebits, Expenses)
    <2>1. DOMAIN AloneDebits = Expenses
      BY DEF AloneDebits
    <2> QED BY <2>1 DEF FundAccounted, Approved, ClaimDebits, AloneDebits, SumFunction
  <1> QED BY <1>1, <1>2, <1>3, <1>4, <1>5, <1>6

\* A step after which the same claims are approved, and that takes nothing, leaves
\* the account in order.
LEMMA NothingIsTaken ==
  ASSUME FundAccounted, UNCHANGED <<balance, debited, debitedAlone>>, Approved' = Approved
  PROVE  FundAccounted'
  BY DEF FundAccounted, Approved

\* The initial state satisfies the invariant.
LEMMA InitIInv == Init => IInv
  <1> SUFFICES ASSUME Init PROVE IInv
    OBVIOUS
  <1>1. TypeOK
    BY AmountAssumption DEF Init, TypeOK
  <1>2. ClaimLinesAgree /\ ReimbursedLinesWereDebited /\ LinesHaveClaims /\ DebitedAloneIsGone
    BY DEF Init, ClaimLinesAgree, ReimbursedLinesWereDebited, LinesHaveClaims, DebitedAloneIsGone
  <1>3. ClaimReqSound
    BY DEF Init, ClaimReqSound, Idle
  <1>4. FundAccounted
    <2>1. Approved = {} /\ \A e \in Expenses : AloneDebits[e] = 0
      <3>1. Approved = {}
        BY NoneAssumption DEF Init, Approved, ExpenseStatus
      <3> QED BY <3>1, AmountAssumption DEF Init, AloneDebits
    <2>2. SumFunctionOnSet(ClaimDebits, Approved) = 0
      BY <2>1, SumOfNone
    <2>3. SumFunctionOnSet(AloneDebits, Expenses) = 0
      BY <2>1, RowsAssumption, SumOfZeros
    <2> QED BY <1>1, <2>2, <2>3, FundParts, AmountAssumption DEF Init
  <1> QED BY <1>1, <1>2, <1>3, <1>4 DEF IInv

\* The facts about a request that the type invariant gives, by its operation.
LEMMA ReqTypes ==
  ASSUME TypeOK, NEW r \in Requests
  PROVE  /\ req[r].op = "submit" => req[r].ids \in SUBSET Expenses
         /\ req[r].op = "status" => req[r] \in StatusReq
         /\ req[r].op = "claim" => req[r] \in ClaimReq
  BY DEF TypeOK, Idle, SubmitReq, StatusReq, ClaimReq

\* Every step keeps every variable in its type.
LEMMA StepTypeOK == TypeOK /\ [Next]_vars => TypeOK'
  <1> SUFFICES ASSUME TypeOK, [Next]_vars PROVE TypeOK'
    OBVIOUS
  <1> USE DEF TypeOK, ExpenseStatus, ClaimStatus
  <1>1. ASSUME NEW e \in Expenses, CreateExpenseFromAdvance(e) PROVE TypeOK'
    BY <1>1 DEF CreateExpenseFromAdvance, history
  <1>2. ASSUME NEW e \in Expenses, NEW s \in {"DRAFT", "PENDING", None}, CreateExpense(e, s) PROVE TypeOK'
    BY <1>2 DEF CreateExpense
  <1>3. ASSUME NEW r \in Requests, NEW ids \in SUBSET Expenses, ReadForSubmit(r, ids) PROVE TypeOK'
    <2>1. [op |-> "submit", ids |-> ids] \in SubmitReq
      BY <1>3 DEF ReadForSubmit, SubmitReq
    <2> QED BY <1>3, <2>1 DEF ReadForSubmit, rows, history
  <1>4. ASSUME NEW r \in Requests, NEW c \in Claims, CommitSubmit(r, c) PROVE TypeOK'
    <2>1. req[r].ids \in SUBSET Expenses
      BY <1>4, ReqTypes DEF CommitSubmit
    <2> QED BY <1>4, <2>1 DEF CommitSubmit
  <1>5. ASSUME NEW r \in Requests, NEW e \in Expenses, NEW next \in ExpenseStatus,
               ReadForStatus(r, e, next)
        PROVE  TypeOK'
    <2>1. [op |-> "status", e |-> e, seen |-> status[e], next |-> next] \in StatusReq
      BY <1>5 DEF ReadForStatus, StatusReq
    <2> QED BY <1>5, <2>1 DEF ReadForStatus, rows, history
  <1>6. ASSUME NEW r \in Requests, CommitStatus(r) PROVE TypeOK'
    <2> DEFINE q == req[r]
    <2>1. q \in StatusReq
      BY <1>6, ReqTypes DEF CommitStatus
    <2>2. q.e \in Expenses /\ q.next \in ExpenseStatus
      BY <2>1 DEF StatusReq
    <2>3. Amount[q.e] \in Nat
      BY <2>2, AmountAssumption
    <2>4. balance' \in Nat
      BY <1>6, <2>3 DEF CommitStatus, StatusGuard, CanDeduct
    <2>5. debitedAlone' \in [Expenses -> Nat]
      BY <1>6, <2>2 DEF CommitStatus
    <2>6. status' \in [Expenses -> ExpenseStatus \cup {None}]
      BY <1>6, <2>2 DEF CommitStatus
    <2>7. req' \in [Requests -> {Idle} \cup SubmitReq \cup StatusReq \cup ClaimReq]
      BY <1>6 DEF CommitStatus
    <2> QED BY <1>6, <2>4, <2>5, <2>6, <2>7 DEF CommitStatus
  <1>7. ASSUME NEW r \in Requests, NEW c \in Claims, NEW next \in ClaimStatus, ReadForClaim(r, c, next)
        PROVE  TypeOK'
    <2>1. [op |-> "claim", c |-> c, seen |-> claimStatus[c], next |-> next, lines |-> LinesOf(c)]
            \in ClaimReq
      BY <1>7 DEF ReadForClaim, ClaimReq, LinesOf
    <2> QED BY <1>7, <2>1 DEF ReadForClaim, rows, history
  <1>8. ASSUME NEW r \in Requests, CommitClaim(r) PROVE TypeOK'
    <2> DEFINE q == req[r]
    <2>1. q \in ClaimReq
      BY <1>8, ReqTypes DEF CommitClaim
    <2>2. q.c \in Claims /\ q.next \in ClaimStatus /\ q.lines \in SUBSET Expenses
      BY <2>1 DEF ClaimReq
    <2>3. TotalAmount(q.lines) \in Nat
      BY <2>2, TotalAmountType
    <2>4. balance' \in Nat
      BY <1>8, <2>3 DEF CommitClaim, ClaimGuard, CanDeduct
    <2>5. status' \in [Expenses -> ExpenseStatus \cup {None}]
      BY <1>8, <2>2 DEF CommitClaim
    <2>6. claimStatus' \in [Claims -> ClaimStatus \cup {None}] /\ debited' \in [Claims -> SUBSET Expenses]
      BY <1>8, <2>2 DEF CommitClaim
    <2>7. req' \in [Requests -> {Idle} \cup SubmitReq \cup StatusReq \cup ClaimReq]
      BY <1>8 DEF CommitClaim
    <2> QED BY <1>8, <2>4, <2>5, <2>6, <2>7 DEF CommitClaim
  <1>9. ASSUME NEW r \in Requests, Abort(r) PROVE TypeOK'
    BY <1>9 DEF Abort, rows, history
  <1>10. CASE UNCHANGED vars
    BY <1>10 DEF vars, rows, history
  <1> QED BY <1>1, <1>2, <1>3, <1>4, <1>5, <1>6, <1>7, <1>8, <1>9, <1>10 DEF Next

\* Every step keeps the lines of a claim in the status of the claim, and keeps
\* every line of an approved claim among the ones its approval debited.
LEMMA StepLines ==
  IInv /\ [Next]_vars => (ClaimLinesAgree /\ ReimbursedLinesWereDebited /\ LinesHaveClaims)'
  <1> DEFINE Lines == ClaimLinesAgree /\ ReimbursedLinesWereDebited /\ LinesHaveClaims
  <1> SUFFICES ASSUME IInv, [Next]_vars PROVE Lines'
    OBVIOUS
  <1> USE DEF IInv, ClaimLinesAgree, ReimbursedLinesWereDebited, LinesHaveClaims
  <1>1. ASSUME NEW e \in Expenses, CreateExpenseFromAdvance(e) PROVE Lines'
    BY <1>1, NoneAssumption DEF CreateExpenseFromAdvance, history, TypeOK
  <1>2. ASSUME NEW e \in Expenses, NEW s \in {"DRAFT", "PENDING", None}, CreateExpense(e, s) PROVE Lines'
    BY <1>2, NoneAssumption DEF CreateExpense, TypeOK
  <1>3. ASSUME NEW r \in Requests, NEW ids \in SUBSET Expenses, ReadForSubmit(r, ids) PROVE Lines'
    BY <1>3 DEF ReadForSubmit, rows, history
  <1>4. ASSUME NEW r \in Requests, NEW c \in Claims, CommitSubmit(r, c) PROVE Lines'
    <2>1. \A e \in Expenses : claimOf[e] # c
      BY <1>4, NoneAssumption DEF CommitSubmit
    <2>2. ASSUME NEW e \in Expenses, e \in req[r].ids
          PROVE  status'[e] = "PENDING" /\ claimOf'[e] = c /\ claimStatus'[c] = "PENDING"
      BY <1>4, <2>2 DEF CommitSubmit, TypeOK
    <2>3. ASSUME NEW e \in Expenses, e \notin req[r].ids, claimOf[e] # None
          PROVE  /\ status'[e] = status[e] /\ claimOf'[e] = claimOf[e]
                 /\ claimStatus'[claimOf[e]] = claimStatus[claimOf[e]]
      BY <1>4, <2>1, <2>3 DEF CommitSubmit, TypeOK
    <2>4. \A e \in Expenses : e \notin req[r].ids => claimOf'[e] = claimOf[e]
      BY <1>4 DEF CommitSubmit
    <2>5. debited' = debited
      BY <1>4 DEF CommitSubmit
    <2>6. ClaimLinesAgree'
      BY <2>2, <2>3, <2>4
    <2>7. ReimbursedLinesWereDebited'
      BY <2>2, <2>3, <2>4, <2>5
    <2>8. LinesHaveClaims'
      BY <2>2, <2>3, <2>4, NoneAssumption DEF ExpenseStatus
    <2> QED BY <2>6, <2>7, <2>8
  <1>5. ASSUME NEW r \in Requests, NEW e \in Expenses, NEW next \in ExpenseStatus,
               ReadForStatus(r, e, next)
        PROVE  Lines'
    BY <1>5 DEF ReadForStatus, rows, history
  <1>6. ASSUME NEW r \in Requests, CommitStatus(r) PROVE Lines'
    <2>1. claimOf[req[r].e] = None
      BY <1>6 DEF CommitStatus, StatusGuard
    <2>2. \A e \in Expenses : claimOf[e] # None => status'[e] = status[e]
      BY <1>6, <2>1 DEF CommitStatus, TypeOK
    <2> QED BY <1>6, <2>2 DEF CommitStatus
  <1>7. ASSUME NEW r \in Requests, NEW c \in Claims, NEW next \in ClaimStatus, ReadForClaim(r, c, next)
        PROVE  Lines'
    BY <1>7 DEF ReadForClaim, rows, history
  <1>8. ASSUME NEW r \in Requests, CommitClaim(r) PROVE Lines'
    <2> DEFINE q == req[r]
    <2>1. q \in ClaimReq
      BY <1>8, ReqTypes DEF CommitClaim
    <2>2. q.c \in Claims /\ q.next \in ClaimStatus
      BY <2>1 DEF ClaimReq
    <2>3. <<q.seen, q.next>> \in Decision /\ (claimStatus[q.c] = "PENDING" => LinesOf(q.c) \subseteq q.lines)
      BY <1>8 DEF ClaimReqSound, CommitClaim
    <2>4. claimStatus[q.c] = q.seen
      BY <1>8 DEF CommitClaim, ClaimGuard
    <2>5. claimStatus' = [claimStatus EXCEPT ![q.c] = q.next] /\ claimOf' = claimOf
      BY <1>8 DEF CommitClaim
    <2>6. \A e \in Expenses : status'[e] = IF claimOf[e] = q.c THEN q.next ELSE status[e]
      BY <1>8 DEF CommitClaim
    <2>7. ClaimLinesAgree'
      BY <2>2, <2>5, <2>6 DEF TypeOK
    <2>8. LinesHaveClaims'
      BY <2>2, <2>5, NoneAssumption DEF TypeOK, ClaimStatus, ExpenseStatus
    <2>9. ReimbursedLinesWereDebited'
      <3> SUFFICES ASSUME NEW e \in Expenses, claimOf[e] # None,
                          claimStatus'[claimOf[e]] \in {"APPROVED", "PAID"}
                   PROVE  e \in debited'[claimOf[e]]
        BY <2>5
      <3>1. CASE claimOf[e] # q.c
        BY <1>8, <2>5, <3>1 DEF CommitClaim, TypeOK
      <3>2. CASE claimOf[e] = q.c /\ q.next = "APPROVED"
        <4>1. claimStatus[q.c] = "PENDING"
          BY <2>3, <2>4, <3>2 DEF Decision
        <4>2. e \in q.lines
          BY <2>3, <3>2, <4>1 DEF LinesOf
        <4>3. debited' = [debited EXCEPT ![q.c] = q.lines]
          BY <1>8, <3>2 DEF CommitClaim
        <4> QED BY <2>2, <3>2, <4>2, <4>3 DEF TypeOK
      <3>3. CASE claimOf[e] = q.c /\ q.next = "PAID"
        <4>1. claimStatus[q.c] = "APPROVED"
          BY <2>3, <2>4, <3>3 DEF Decision
        <4>2. debited' = debited
          BY <1>8, <3>3 DEF CommitClaim
        <4> QED BY <3>3, <4>1, <4>2
      <3>4. claimOf[e] = q.c => q.next \in {"APPROVED", "PAID"}
        BY <2>2, <2>5 DEF TypeOK
      <3> QED BY <3>1, <3>2, <3>3, <3>4
    <2> QED BY <2>7, <2>8, <2>9
  <1>9. ASSUME NEW r \in Requests, Abort(r) PROVE Lines'
    BY <1>9 DEF Abort, rows, history
  <1>10. CASE UNCHANGED vars
    BY <1>10 DEF vars, rows, history
  <1> QED BY <1>1, <1>2, <1>3, <1>4, <1>5, <1>6, <1>7, <1>8, <1>9, <1>10 DEF Next

\* Every step keeps the claim handlers in flight sound: claims never go back to
\* pending, and the only step that adds lines adds them to a new claim.
LEMMA StepClaimReqSound == IInv /\ [Next]_vars => ClaimReqSound'
  <1> DEFINE NewLinesOf(c) == {e \in Expenses : claimOf'[e] = c}
             Sound(q) == /\ claimStatus'[q.c] # None
                         /\ <<q.seen, q.next>> \in Decision
                         /\ claimStatus'[q.c] = "PENDING" => NewLinesOf(q.c) \subseteq q.lines
  <1> SUFFICES ASSUME IInv, [Next]_vars,
                      NEW r \in Requests, req'[r].op = "claim"
               PROVE  Sound(req'[r])
    BY DEF ClaimReqSound, LinesOf
  <1>0. req[r] = req'[r] => /\ req[r] \in ClaimReq /\ req[r].c \in Claims
                            /\ claimStatus[req[r].c] # None
                            /\ <<req[r].seen, req[r].next>> \in Decision
                            /\ claimStatus[req[r].c] = "PENDING" => LinesOf(req[r].c) \subseteq req[r].lines
    <2> SUFFICES ASSUME req[r] = req'[r]
                 PROVE  /\ req[r] \in ClaimReq /\ req[r].c \in Claims
                        /\ claimStatus[req[r].c] # None
                        /\ <<req[r].seen, req[r].next>> \in Decision
                        /\ claimStatus[req[r].c] = "PENDING" => LinesOf(req[r].c) \subseteq req[r].lines
      OBVIOUS
    <2>1. req[r] \in ClaimReq
      BY ReqTypes DEF IInv
    <2> QED BY <2>1 DEF IInv, ClaimReqSound, ClaimReq
  <1>1. ASSUME claimStatus' = claimStatus, claimOf' = claimOf, req'[r] = req[r] PROVE Sound(req'[r])
    BY <1>0, <1>1 DEF LinesOf
  <1> USE DEF IInv, TypeOK
  <1>2. ASSUME NEW e \in Expenses, CreateExpenseFromAdvance(e) PROVE Sound(req'[r])
    BY <1>1, <1>2 DEF CreateExpenseFromAdvance
  <1>3. ASSUME NEW e \in Expenses, NEW s \in {"DRAFT", "PENDING", None}, CreateExpense(e, s) PROVE Sound(req'[r])
    BY <1>1, <1>3 DEF CreateExpense
  <1>4. ASSUME NEW p \in Requests, NEW ids \in SUBSET Expenses, ReadForSubmit(p, ids) PROVE Sound(req'[r])
    BY <1>1, <1>4 DEF ReadForSubmit, rows
  <1>5. ASSUME NEW p \in Requests, NEW c \in Claims, CommitSubmit(p, c) PROVE Sound(req'[r])
    <2>1. req'[r] = req[r]
      BY <1>5 DEF CommitSubmit, Idle
    <2>2. req[r].c # c
      BY <1>0, <1>5, <2>1 DEF CommitSubmit
    <2>3. claimStatus'[req[r].c] = claimStatus[req[r].c]
      BY <1>0, <1>5, <2>1, <2>2 DEF CommitSubmit
    <2>4. NewLinesOf(req[r].c) \subseteq LinesOf(req[r].c)
      BY <1>5, <2>1, <2>2 DEF CommitSubmit, LinesOf
    <2> QED BY <1>0, <2>1, <2>3, <2>4
  <1>6. ASSUME NEW p \in Requests, NEW e \in Expenses, NEW next \in ExpenseStatus,
               ReadForStatus(p, e, next)
        PROVE  Sound(req'[r])
    BY <1>1, <1>6 DEF ReadForStatus, rows
  <1>7. ASSUME NEW p \in Requests, CommitStatus(p) PROVE Sound(req'[r])
    BY <1>1, <1>7 DEF CommitStatus, Idle
  <1>8. ASSUME NEW p \in Requests, NEW c \in Claims, NEW next \in ClaimStatus, ReadForClaim(p, c, next)
        PROVE  Sound(req'[r])
    <2>1. CASE p = r
      <3>1. req'[r] = [op |-> "claim", c |-> c, seen |-> claimStatus[c], next |-> next, lines |-> LinesOf(c)]
        BY <1>8, <2>1 DEF ReadForClaim
      <3>2. /\ claimStatus' = claimStatus /\ claimOf' = claimOf
            /\ <<claimStatus[c], next>> \in Decision /\ claimStatus[c] # None
        BY <1>8 DEF ReadForClaim, rows
      <3>3. NewLinesOf(c) = LinesOf(c)
        BY <3>2 DEF LinesOf
      <3> QED BY <3>1, <3>2, <3>3
    <2>2. CASE p # r
      BY <1>1, <1>8, <2>2 DEF ReadForClaim, rows
    <2> QED BY <2>1, <2>2
  <1>9. ASSUME NEW p \in Requests, CommitClaim(p) PROVE Sound(req'[r])
    <2>1. req'[r] = req[r]
      BY <1>9 DEF CommitClaim, Idle
    <2>2. req[p] \in ClaimReq /\ <<req[p].seen, req[p].next>> \in Decision
      BY <1>9, ReqTypes DEF CommitClaim, ClaimReqSound
    <2>3. req[p].c \in Claims /\ req[p].next \in ClaimStatus \ {"PENDING"}
      BY <2>2 DEF ClaimReq, Decision
    <2>4. claimStatus' = [claimStatus EXCEPT ![req[p].c] = req[p].next] /\ claimOf' = claimOf
      BY <1>9 DEF CommitClaim
    <2>5. claimStatus'[req[r].c] # None
      BY <1>0, <2>1, <2>3, <2>4, NoneAssumption DEF ClaimStatus, ExpenseStatus
    <2>6. claimStatus'[req[r].c] = "PENDING" => claimStatus[req[r].c] = "PENDING"
      BY <1>0, <2>1, <2>3, <2>4
    <2>7. NewLinesOf(req[r].c) = LinesOf(req[r].c)
      BY <2>1, <2>4 DEF LinesOf
    <2> QED BY <1>0, <2>1, <2>5, <2>6, <2>7
  <1>10. ASSUME NEW p \in Requests, Abort(p) PROVE Sound(req'[r])
    BY <1>1, <1>10 DEF Abort, rows, Idle
  <1>11. CASE UNCHANGED vars
    BY <1>1, <1>11 DEF vars, rows
  <1> QED BY <1>2, <1>3, <1>4, <1>5, <1>6, <1>7, <1>8, <1>9, <1>10, <1>11 DEF Next

\* Every step keeps the debits of single expenses at one at most: the step that
\* debits one needs a pending expense without a claim, and leaves it approved.
LEMMA StepDebitedAlone == IInv /\ [Next]_vars => DebitedAloneIsGone'
  <1> SUFFICES ASSUME IInv, [Next]_vars PROVE DebitedAloneIsGone'
    OBVIOUS
  <1> USE DEF IInv, DebitedAloneIsGone
  <1>1. ASSUME NEW e \in Expenses, CreateExpenseFromAdvance(e) PROVE DebitedAloneIsGone'
    BY <1>1, NoneAssumption DEF CreateExpenseFromAdvance, history, TypeOK, ExpenseStatus
  <1>2. ASSUME NEW e \in Expenses, NEW s \in {"DRAFT", "PENDING", None}, CreateExpense(e, s)
        PROVE  DebitedAloneIsGone'
    BY <1>2, NoneAssumption DEF CreateExpense, TypeOK, ExpenseStatus
  <1>3. ASSUME NEW r \in Requests, NEW ids \in SUBSET Expenses, ReadForSubmit(r, ids)
        PROVE  DebitedAloneIsGone'
    BY <1>3 DEF ReadForSubmit, rows, history
  <1>4. ASSUME NEW r \in Requests, NEW c \in Claims, CommitSubmit(r, c) PROVE DebitedAloneIsGone'
    BY <1>4, NoneAssumption DEF CommitSubmit, TypeOK, ExpenseStatus
  <1>5. ASSUME NEW r \in Requests, NEW e \in Expenses, NEW next \in ExpenseStatus,
               ReadForStatus(r, e, next)
        PROVE  DebitedAloneIsGone'
    BY <1>5 DEF ReadForStatus, rows, history
  <1>6. ASSUME NEW r \in Requests, CommitStatus(r) PROVE DebitedAloneIsGone'
    <2> DEFINE q == req[r]
    <2>1. q \in StatusReq
      BY <1>6, ReqTypes DEF CommitStatus
    <2>2. q.e \in Expenses /\ q.next \in ExpenseStatus \ {"PENDING"}
      BY <2>1 DEF StatusReq
    <2>3. status' = [status EXCEPT ![q.e] = q.next] /\ claimOf' = claimOf
      BY <1>6 DEF CommitStatus
    <2>4. status'[q.e] # None /\ status'[q.e] # "PENDING"
      BY <2>2, <2>3, NoneAssumption DEF TypeOK
    <2>5. CASE StatusDebits(q)
      <3>1. status[q.e] = "PENDING" /\ claimOf[q.e] = None
        BY <1>6, <2>5 DEF CommitStatus, StatusGuard, StatusDebits
      <3>2. debitedAlone[q.e] = 0
        BY <2>2, <3>1
      <3>3. debitedAlone' = [debitedAlone EXCEPT ![q.e] = @ + 1]
        BY <1>6, <2>5 DEF CommitStatus
      <3> QED BY <2>2, <2>3, <2>4, <3>2, <3>3 DEF TypeOK
    <2>6. CASE ~StatusDebits(q)
      <3>1. debitedAlone' = debitedAlone
        BY <1>6, <2>6 DEF CommitStatus
      <3> QED BY <2>2, <2>3, <2>4, <3>1 DEF TypeOK
    <2> QED BY <2>5, <2>6
  <1>7. ASSUME NEW r \in Requests, NEW c \in Claims, NEW next \in ClaimStatus, ReadForClaim(r, c, next)
        PROVE  DebitedAloneIsGone'
    BY <1>7 DEF ReadForClaim, rows, history
  <1>8. ASSUME NEW r \in Requests, CommitClaim(r) PROVE DebitedAloneIsGone'
    <2> DEFINE q == req[r]
    <2>1. q \in ClaimReq
      BY <1>8, ReqTypes DEF CommitClaim
    <2>2. q.c \in Claims /\ q.next \in ClaimStatus
      BY <2>1 DEF ClaimReq
    <2>3. \A e \in Expenses : status'[e] = IF claimOf[e] = q.c THEN q.next ELSE status[e]
      BY <1>8 DEF CommitClaim
    <2>4. q.next # None /\ q.c # None
      BY <2>2, NoneAssumption DEF ClaimStatus, ExpenseStatus
    <2>5. claimOf' = claimOf /\ debitedAlone' = debitedAlone
      BY <1>8 DEF CommitClaim
    <2> QED BY <2>3, <2>4, <2>5
  <1>9. ASSUME NEW r \in Requests, Abort(r) PROVE DebitedAloneIsGone'
    BY <1>9 DEF Abort, rows, history
  <1>10. CASE UNCHANGED vars
    BY <1>10 DEF vars, rows, history
  <1> QED BY <1>1, <1>2, <1>3, <1>4, <1>5, <1>6, <1>7, <1>8, <1>9, <1>10 DEF Next

\* The account of the fund after a step.
LEMMA FundAccountedNext ==
  (Fund - balance' = SumFunctionOnSet(ClaimDebits', Approved') + SumFunctionOnSet(AloneDebits', Expenses))
    => FundAccounted'
  <1>1. DOMAIN AloneDebits' = Expenses
    BY DEF AloneDebits
  <1> QED BY <1>1 DEF FundAccounted, Approved, ClaimDebits, AloneDebits, SumFunction

\* The transaction that approves a claim takes what its lines come to, and no claim is
\* approved twice.
LEMMA ApprovalTakesTheTotal ==
  ASSUME IInv, TypeOK', NEW r \in Requests, CommitClaim(r)
  PROVE  FundAccounted'
  <1> DEFINE q == req[r]
  <1> USE DEF IInv
  <1>1. q \in ClaimReq /\ q.c \in Claims /\ q.lines \in SUBSET Expenses /\ <<q.seen, q.next>> \in Decision
    BY ReqTypes DEF CommitClaim, ClaimReq, ClaimReqSound
  <1>2. claimStatus[q.c] = q.seen /\ claimStatus' = [claimStatus EXCEPT ![q.c] = q.next]
    BY DEF CommitClaim, ClaimGuard
  <1>3. CASE q.next = "APPROVED"
    <2>1. /\ balance' = balance - TotalAmount(q.lines)
          /\ debited' = [debited EXCEPT ![q.c] = q.lines] /\ debitedAlone' = debitedAlone
      BY <1>3 DEF CommitClaim
    <2>2. q.seen = "PENDING"
      BY <1>1, <1>3 DEF Decision
    <2>3. q.c \notin Approved /\ Approved' = Approved \cup {q.c}
      BY <1>1, <1>2, <1>3, <2>2 DEF Approved, TypeOK
    <2>4. /\ \A c \in Approved : ClaimDebits'[c] = ClaimDebits[c]
          /\ ClaimDebits'[q.c] = TotalAmount(q.lines)
      BY <1>1, <2>1, <2>3 DEF ClaimDebits, TypeOK, Approved
    <2>5. AloneDebits' = AloneDebits
      BY <2>1 DEF AloneDebits
    <2> HIDE DEF q
    <2>6. /\ IsFiniteSet(Approved)
          /\ \A c \in Approved \cup {q.c} : ClaimDebits'[c] \in Int
          /\ \A c \in Approved : ClaimDebits[c] \in Int
      <3>1. \A c \in Claims : TotalAmount(debited'[c]) \in Nat /\ ClaimDebits'[c] = TotalAmount(debited'[c])
        BY TotalAmountType DEF TypeOK, ClaimDebits
      <3> QED BY <1>1, <3>1, FundParts
    <2>7. SumFunctionOnSet(ClaimDebits', Approved \cup {q.c})
            = SumFunctionOnSet(ClaimDebits', Approved) + ClaimDebits'[q.c]
      BY <2>3, <2>6, SumAdd
    <2>8. SumFunctionOnSet(ClaimDebits', Approved) = SumFunctionOnSet(ClaimDebits, Approved)
      BY <2>4, <2>6, SumSame
    <2>9. Fund - balance' = SumFunctionOnSet(ClaimDebits', Approved')
                            + SumFunctionOnSet(AloneDebits', Expenses)
      <3>1. TotalAmount(q.lines) \in Nat /\ balance \in Nat /\ Fund \in Nat
        BY <1>1, TotalAmountType, AmountAssumption DEF TypeOK
      <3>2. Fund - balance = SumFunctionOnSet(ClaimDebits, Approved) + SumFunctionOnSet(AloneDebits, Expenses)
        BY FundParts
      <3>3. SumFunctionOnSet(ClaimDebits, Approved) \in Nat /\ SumFunctionOnSet(AloneDebits, Expenses) \in Nat
        BY FundParts
      <3> QED BY <2>1, <2>3, <2>4, <2>5, <2>7, <2>8, <3>1, <3>2, <3>3
    <2> QED BY <2>9, FundAccountedNext
  <1>4. CASE q.next # "APPROVED"
    <2>1. UNCHANGED <<balance, debited, debitedAlone>>
      BY <1>4 DEF CommitClaim
    <2>2. Approved' = Approved
      BY <1>1, <1>2, <1>4 DEF Approved, Decision, TypeOK
    <2> QED BY <2>1, <2>2, NothingIsTaken
  <1> QED BY <1>3, <1>4

\* The transaction that approves an expense on its own takes its amount once.
LEMMA StatusTakesTheAmount ==
  ASSUME IInv, TypeOK', NEW r \in Requests, CommitStatus(r)
  PROVE  FundAccounted'
  <1> DEFINE q == req[r]
  <1> USE DEF IInv
  <1>1. q.e \in Expenses /\ UNCHANGED <<claimStatus, debited>>
    BY ReqTypes DEF CommitStatus, StatusReq
  <1>2. Approved' = Approved /\ ClaimDebits' = ClaimDebits
    BY <1>1 DEF Approved, ClaimDebits
  <1>3. CASE StatusDebits(q)
    <2>1. balance' = balance - Amount[q.e] /\ debitedAlone' = [debitedAlone EXCEPT ![q.e] = @ + 1]
      BY <1>3 DEF CommitStatus
    <2>2. /\ \A e \in Expenses \ {q.e} : AloneDebits'[e] = AloneDebits[e]
          /\ AloneDebits'[q.e] = AloneDebits[q.e] + Amount[q.e]
      <3>1. Amount[q.e] \in Nat /\ debitedAlone[q.e] \in Nat
        BY <1>1, AmountAssumption DEF TypeOK
      <3>2. AloneDebits'[q.e] = Amount[q.e] * (debitedAlone[q.e] + 1)
        BY <1>1, <2>1 DEF AloneDebits, TypeOK
      <3>3. AloneDebits[q.e] = Amount[q.e] * debitedAlone[q.e]
        BY <1>1 DEF AloneDebits
      <3>4. AloneDebits'[q.e] = AloneDebits[q.e] + Amount[q.e]
        BY <3>1, <3>2, <3>3
      <3>5. \A e \in Expenses \ {q.e} : AloneDebits'[e] = AloneDebits[e]
        BY <1>1, <2>1 DEF AloneDebits, TypeOK
      <3> QED BY <3>4, <3>5
    <2>3. \A e \in Expenses : AloneDebits[e] \in Int /\ AloneDebits'[e] \in Int
      <3>1. \A e \in Expenses : AloneDebits[e] \in Nat /\ Amount[e] \in Nat
        BY FundParts, AmountAssumption
      <3> QED BY <1>1, <2>2, <3>1
    <2> HIDE DEF q
    <2>4. SumFunctionOnSet(AloneDebits', Expenses)
            = SumFunctionOnSet(AloneDebits, Expenses) + AloneDebits'[q.e] - AloneDebits[q.e]
      BY <1>1, <2>2, <2>3, RowsAssumption, SumChange
    <2>5. Fund - balance' = SumFunctionOnSet(ClaimDebits', Approved')
                            + SumFunctionOnSet(AloneDebits', Expenses)
      <3>1. Amount[q.e] \in Nat /\ AloneDebits[q.e] \in Int /\ balance \in Nat /\ Fund \in Nat
        BY <1>1, <2>3, AmountAssumption DEF TypeOK
      <3>2. Fund - balance = SumFunctionOnSet(ClaimDebits, Approved) + SumFunctionOnSet(AloneDebits, Expenses)
        BY FundParts
      <3>3. SumFunctionOnSet(ClaimDebits, Approved) \in Nat /\ SumFunctionOnSet(AloneDebits, Expenses) \in Nat
        BY FundParts
      <3> QED BY <1>2, <2>1, <2>2, <2>4, <3>1, <3>2, <3>3
    <2> QED BY <2>5, FundAccountedNext
  <1>4. CASE ~StatusDebits(q)
    <2>1. UNCHANGED <<balance, debited, debitedAlone>>
      BY <1>4 DEF CommitStatus
    <2> QED BY <1>2, <2>1, NothingIsTaken
  <1> QED BY <1>3, <1>4

\* Every step keeps the account of the fund in order.
LEMMA StepFundAccounted == IInv /\ TypeOK' /\ [Next]_vars => FundAccounted'
  <1> SUFFICES ASSUME IInv, TypeOK', [Next]_vars PROVE FundAccounted'
    OBVIOUS
  <1>1. ASSUME NEW r \in Requests, NEW c \in Claims, CommitSubmit(r, c) PROVE FundAccounted'
    <2>1. Approved' = Approved
      BY <1>1, NoneAssumption DEF CommitSubmit, Approved, IInv, TypeOK, ExpenseStatus
    <2>2. UNCHANGED <<balance, debited, debitedAlone>>
      BY <1>1 DEF CommitSubmit
    <2> QED BY <2>1, <2>2, NothingIsTaken DEF IInv
  <1>2. ASSUME UNCHANGED <<claimStatus, balance, debited, debitedAlone>> PROVE FundAccounted'
    BY <1>2, NothingIsTaken DEF IInv, Approved
  <1>3. \/ UNCHANGED <<claimStatus, balance, debited, debitedAlone>>
        \/ \E r \in Requests, c \in Claims : CommitSubmit(r, c)
        \/ \E r \in Requests : CommitStatus(r) \/ CommitClaim(r)
    BY DEF Next, vars, rows, history, CreateExpense, CreateExpenseFromAdvance, ReadForSubmit, ReadForStatus,
           ReadForClaim, Abort
  <1> QED BY <1>1, <1>2, <1>3, ApprovalTakesTheTotal, StatusTakesTheAmount

\* The invariant is inductive, so it holds of every behaviour.
THEOREM Invariance == Spec => []IInv
  <1>1. IInv /\ [Next]_vars => IInv'
    BY StepTypeOK, StepLines, StepClaimReqSound, StepDebitedAlone, StepFundAccounted DEF IInv
  <1> QED BY InitIInv, <1>1, PTL DEF Spec

\* Type correctness, and with it that the petty-cash fund is never negative.
THEOREM TypeCorrect == Spec => []TypeOK
  BY Invariance, PTL DEF IInv

\* A line always has the status of its claim.
THEOREM LinesAgree == Spec => []ClaimLinesAgree
  BY Invariance, PTL DEF IInv

\* The lines of an approved or paid claim were debited when it was approved.
THEOREM Reimbursed == Spec => []ReimbursedLinesWereDebited
  BY Invariance, PTL DEF IInv

\* An expense approved on its own is debited once at most.
THEOREM DebitedOnce == Spec => []DebitedAloneOnce
  <1>1. IInv => DebitedAloneOnce
    BY DEF IInv, DebitedAloneIsGone, DebitedAloneOnce
  <1> QED BY Invariance, <1>1, PTL

\* The fund has lost exactly what approved claims and single expenses took, once each.
THEOREM FundIsAccounted == Spec => []FundAccounted
  BY Invariance, PTL DEF IInv

\* A claim is decided once, whatever decisions race.
THEOREM DecidedOnce == Spec => ClaimDecidedOnce
  <1> DEFINE Forward == \A c \in Claims : claimStatus'[c] # claimStatus[c] =>
                          /\ claimStatus[c] \notin {"REJECTED", "PAID"}
                          /\ claimStatus[c] = "APPROVED" => claimStatus'[c] = "PAID"
                          /\ claimStatus'[c] = "PENDING" => claimStatus[c] = None
  <1>1. IInv /\ [Next]_vars => [Forward]_vars
    <2> SUFFICES ASSUME IInv, [Next]_vars PROVE [Forward]_vars
      OBVIOUS
    <2> USE DEF IInv, TypeOK
    <2>1. ASSUME NEW r \in Requests, NEW d \in Claims, CommitSubmit(r, d) PROVE Forward
      BY <2>1, NoneAssumption DEF CommitSubmit, ExpenseStatus
    <2>2. ASSUME NEW r \in Requests, CommitClaim(r) PROVE Forward
      <3> DEFINE q == req[r]
      <3>1. q \in ClaimReq /\ <<q.seen, q.next>> \in Decision
        BY <2>2, ReqTypes DEF CommitClaim, ClaimReqSound
      <3>2. claimStatus[q.c] = q.seen /\ claimStatus' = [claimStatus EXCEPT ![q.c] = q.next]
        BY <2>2 DEF CommitClaim, ClaimGuard
      <3>3. q.c \in Claims
        BY <3>1 DEF ClaimReq
      <3> QED BY <3>1, <3>2, <3>3 DEF Decision
    <2>3. \/ claimStatus' = claimStatus
          \/ \E r \in Requests, d \in Claims : CommitSubmit(r, d)
          \/ \E r \in Requests : CommitClaim(r)
      BY DEF Next, vars, rows, CreateExpense, CreateExpenseFromAdvance, ReadForSubmit,
             ReadForStatus, CommitStatus, ReadForClaim, Abort
    <2> QED BY <2>1, <2>2, <2>3
  <1> QED BY Invariance, <1>1, PTL DEF Spec, ClaimDecidedOnce

-----------------------------------------------------------------------------
(* Cash advances and the ledger they implement: CashAdvance.               *)

\* Money is conserved: what was handed out is left, returned or spent.
Conserved == \A a \in Advances : amount[a] = remaining[a] + returned[a] + spent[a]

\* A settled advance was issued and is empty.
SettledIsEmpty == \A a \in settled : amount[a] > 0 /\ remaining[a] = 0

\* A request in flight names an issued advance and an amount that the balance
\* it read covers. The balance only falls, so one that equals the balance that
\* was read means that nothing at all has been written since.
ReadingSound ==
  \A r \in Transactions : txn[r].op # "idle" =>
    LET q == txn[r]
    IN  /\ amount[q.a] > 0
        /\ remaining[q.a] <= q.remaining
        /\ remaining[q.a] = q.remaining => returned[q.a] = q.returned
        /\ q.op # "settle" => q.x \in Amounts /\ q.x <= q.remaining

AdvanceIInv == AdvanceTypeOK /\ Conserved /\ SettledIsEmpty /\ ReadingSound

\* The fields of a request in flight.
LEMMA ReadingTypes ==
  ASSUME AdvanceTypeOK, NEW r \in Transactions, txn[r].op # "idle"
  PROVE  txn[r].a \in Advances /\ txn[r].x \in Nat /\ txn[r].remaining \in Nat
           /\ txn[r].returned \in Nat
  BY AmountsAssumption DEF AdvanceTypeOK, NoTransaction, Reading

\* The initial state satisfies the invariant.
LEMMA InitAdvanceIInv == AdvanceInit => AdvanceIInv
  BY DEF AdvanceInit, AdvanceIInv, AdvanceTypeOK, Conserved, SettledIsEmpty, ReadingSound, NoTransaction

\* A request that ends leaves the others as they were.
LEMMA EndedReq ==
  ASSUME AdvanceTypeOK, NEW p \in Transactions, txn' = [txn EXCEPT ![p] = NoTransaction],
         NEW r \in Transactions, txn'[r].op # "idle"
  PROVE  r # p /\ txn'[r] = txn[r]
  BY DEF AdvanceTypeOK, NoTransaction

\* A request that ends without touching a balance keeps the others sound.
LEMMA EndedKeepsReadings ==
  ASSUME AdvanceIInv, NEW p \in Transactions, txn' = [txn EXCEPT ![p] = NoTransaction],
         amount' = amount, remaining' = remaining, returned' = returned
  PROVE  ReadingSound'
  <1>1. ASSUME NEW r \in Transactions, txn'[r].op # "idle" PROVE txn'[r] = txn[r]
    BY <1>1, EndedReq DEF AdvanceIInv
  <1> QED BY <1>1 DEF AdvanceIInv, ReadingSound

\* The step that reads a row keeps the invariant.
LEMMA ReadStep ==
  ASSUME AdvanceIInv, NEW r \in Transactions, NEW a \in Advances, NEW op \in {"consume", "return", "settle"},
         NEW x \in Amounts \cup {0}, ReadRow(r, op, a, x),
         op # "settle" => x \in Amounts /\ x <= remaining[a]
  PROVE  AdvanceIInv'
  <1> DEFINE q == [op |-> op, a |-> a, x |-> x, remaining |-> remaining[a], returned |-> returned[a]]
  <1>1. txn' = [txn EXCEPT ![r] = q] /\ amount[a] > 0 /\ UNCHANGED advanceRows
    BY DEF ReadRow
  <1>2. q \in Reading
    BY DEF AdvanceIInv, AdvanceTypeOK, Reading
  <1>3. AdvanceTypeOK'
    BY <1>1, <1>2 DEF AdvanceIInv, AdvanceTypeOK, advanceRows
  <1>4. Conserved' /\ SettledIsEmpty'
    BY <1>1 DEF AdvanceIInv, Conserved, SettledIsEmpty, advanceRows
  <1>5. ASSUME NEW p \in Transactions, txn'[p].op # "idle", p # r
        PROVE  txn'[p] = txn[p]
    BY <1>1, <1>5 DEF AdvanceIInv, AdvanceTypeOK
  <1>6. txn'[r] = q
    BY <1>1 DEF AdvanceIInv, AdvanceTypeOK
  <1>7. ReadingSound'
    BY <1>1, <1>5, <1>6 DEF AdvanceIInv, AdvanceTypeOK, ReadingSound, advanceRows
  <1> QED BY <1>3, <1>4, <1>7 DEF AdvanceIInv

\* A step that takes the amount of request p out of the balance it read keeps
\* the requests that stay in flight sound: the balance of their advance fell
\* below what they read, or it is another advance.
LEMMA TakeKeepsReadings ==
  ASSUME AdvanceIInv, NEW p \in Transactions, txn[p].op \in {"consume", "return"}, RowAsRead(txn[p]),
         remaining' = [remaining EXCEPT ![txn[p].a] = txn[p].remaining - txn[p].x],
         txn' = [txn EXCEPT ![p] = NoTransaction], amount' = amount,
         \A a \in Advances : a # txn[p].a => returned'[a] = returned[a]
  PROVE  /\ ReadingSound'
         /\ txn[p].a \in Advances /\ txn[p].x \in Amounts /\ txn[p].x <= remaining[txn[p].a]
         /\ remaining' = [remaining EXCEPT ![txn[p].a] = @ - txn[p].x]
         /\ remaining' \in [Advances -> Nat]
  <1> DEFINE q == txn[p]
  <1>1. q.a \in Advances /\ q.x \in Nat /\ q.remaining \in Nat
    BY ReadingTypes DEF AdvanceIInv
  <1>2. q.x \in Amounts /\ q.x <= q.remaining /\ remaining[q.a] = q.remaining
    BY DEF AdvanceIInv, ReadingSound, RowAsRead
  <1>3. q.x > 0
    BY <1>2, AmountsAssumption
  <1>4. remaining' = [remaining EXCEPT ![q.a] = @ - q.x]
    BY <1>2 DEF AdvanceIInv, AdvanceTypeOK
  <1>5. remaining' \in [Advances -> Nat] /\ remaining'[q.a] < remaining[q.a]
    BY <1>1, <1>2, <1>3, <1>4 DEF AdvanceIInv, AdvanceTypeOK
  <1>6. ASSUME NEW r \in Transactions, txn'[r].op # "idle"
        PROVE  /\ txn'[r] = txn[r] /\ amount[txn[r].a] > 0
               /\ remaining'[txn[r].a] <= txn[r].remaining
               /\ remaining'[txn[r].a] = txn[r].remaining => returned'[txn[r].a] = txn[r].returned
               /\ txn[r].op # "settle" => txn[r].x \in Amounts /\ txn[r].x <= txn[r].remaining
    <2>1. txn'[r] = txn[r]
      BY <1>6, EndedReq DEF AdvanceIInv
    <2>2. /\ remaining[txn[r].a] <= txn[r].remaining
          /\ remaining[txn[r].a] = txn[r].remaining => returned[txn[r].a] = txn[r].returned
          /\ amount[txn[r].a] > 0
          /\ txn[r].op # "settle" => txn[r].x \in Amounts /\ txn[r].x <= txn[r].remaining
      BY <1>6, <2>1 DEF AdvanceIInv, ReadingSound
    <2>3. txn[r].a \in Advances /\ txn[r].remaining \in Nat
      BY <1>6, <2>1, ReadingTypes DEF AdvanceIInv
    <2>4. CASE txn[r].a = q.a
      BY <1>1, <1>5, <2>1, <2>2, <2>3, <2>4 DEF AdvanceIInv, AdvanceTypeOK
    <2>5. CASE txn[r].a # q.a
      BY <1>1, <1>4, <2>1, <2>2, <2>3, <2>5 DEF AdvanceIInv, AdvanceTypeOK
    <2> QED BY <2>4, <2>5
  <1>7. ReadingSound'
    BY <1>6 DEF ReadingSound
  <1> QED BY <1>1, <1>2, <1>4, <1>5, <1>7

\* The invariant is inductive.
LEMMA StepAdvanceIInv == AdvanceIInv /\ [AdvanceNext]_advanceVars => AdvanceIInv'
  <1> SUFFICES ASSUME AdvanceIInv, [AdvanceNext]_advanceVars PROVE AdvanceIInv'
    OBVIOUS
  <1>1. ASSUME NEW a \in Advances, NEW x \in Amounts, Issue(a, x) PROVE AdvanceIInv'
    <2>1. x \in Nat /\ x > 0
      BY AmountsAssumption
    <2>2. amount[a] = 0 /\ a \notin settled
      BY <1>1 DEF Issue, AdvanceIInv, SettledIsEmpty
    <2>3. remaining[a] = 0 /\ returned[a] = 0 /\ spent[a] = 0
      BY <2>2 DEF AdvanceIInv, AdvanceTypeOK, Conserved
    <2>4. AdvanceTypeOK' /\ Conserved'
      BY <1>1, <2>1, <2>3 DEF Issue, AdvanceIInv, AdvanceTypeOK, Conserved
    <2>5. SettledIsEmpty'
      BY <1>1, <2>2 DEF Issue, AdvanceIInv, AdvanceTypeOK, SettledIsEmpty
    <2>6. \A r \in Transactions : txn[r].op # "idle" => txn[r].a # a /\ txn[r].a \in Advances
      BY <2>2, ReadingTypes DEF AdvanceIInv, ReadingSound
    <2>7. ReadingSound'
      BY <1>1, <2>6 DEF Issue, AdvanceIInv, AdvanceTypeOK, ReadingSound
    <2> QED BY <2>4, <2>5, <2>7 DEF AdvanceIInv
  <1>2. ASSUME NEW r \in Transactions, NEW a \in Advances, NEW x \in Amounts,
               NEW op \in {"consume", "return"}, ReadToTake(r, op, a, x)
        PROVE  AdvanceIInv'
    BY <1>2, ReadStep DEF ReadToTake
  <1>3. ASSUME NEW r \in Transactions, NEW a \in Advances, ReadToSettle(r, a) PROVE AdvanceIInv'
    BY <1>3, ReadStep DEF ReadToSettle
  <1>4. ASSUME NEW r \in Transactions, CommitConsume(r) PROVE AdvanceIInv'
    <2>1. /\ ReadingSound'
          /\ txn[r].a \in Advances /\ txn[r].x \in Nat /\ txn[r].x <= remaining[txn[r].a]
          /\ remaining' = [remaining EXCEPT ![txn[r].a] = @ - txn[r].x]
          /\ remaining' \in [Advances -> Nat]
      BY <1>4, TakeKeepsReadings, AmountsAssumption DEF CommitConsume
    <2>2. spent' = [spent EXCEPT ![txn[r].a] = @ + txn[r].x]
      BY <1>4 DEF CommitConsume
    <2>3. AdvanceTypeOK'
      BY <1>4, <2>1, <2>2 DEF CommitConsume, AdvanceIInv, AdvanceTypeOK
    <2>4. Conserved'
      BY <1>4, <2>1, <2>2 DEF CommitConsume, AdvanceIInv, AdvanceTypeOK, Conserved
    <2>5. SettledIsEmpty'
      BY <1>4, <2>1 DEF CommitConsume, RowAsRead, AdvanceIInv, AdvanceTypeOK, SettledIsEmpty
    <2> QED BY <2>1, <2>3, <2>4, <2>5 DEF AdvanceIInv
  <1>5. ASSUME NEW r \in Transactions, CommitReturn(r) PROVE AdvanceIInv'
    <2>1. txn[r].a \in Advances /\ txn[r].returned = returned[txn[r].a]
      BY <1>5, ReadingTypes DEF CommitReturn, RowAsRead, AdvanceIInv, ReadingSound
    <2>2. returned' = [returned EXCEPT ![txn[r].a] = @ + txn[r].x]
      BY <1>5, <2>1 DEF CommitReturn, AdvanceIInv, AdvanceTypeOK
    <2>3. /\ ReadingSound'
          /\ txn[r].x \in Nat /\ txn[r].x <= remaining[txn[r].a]
          /\ remaining' = [remaining EXCEPT ![txn[r].a] = @ - txn[r].x]
          /\ remaining' \in [Advances -> Nat]
      <3>1. \A a \in Advances : a # txn[r].a => returned'[a] = returned[a]
        BY <2>2 DEF AdvanceIInv, AdvanceTypeOK
      <3> QED BY <1>5, <3>1, TakeKeepsReadings, AmountsAssumption DEF CommitReturn
    <2>4. AdvanceTypeOK'
      BY <1>5, <2>1, <2>2, <2>3 DEF CommitReturn, AdvanceIInv, AdvanceTypeOK
    <2>5. Conserved'
      BY <1>5, <2>1, <2>2, <2>3 DEF CommitReturn, AdvanceIInv, AdvanceTypeOK, Conserved
    <2>6. SettledIsEmpty'
      BY <1>5, <2>1, <2>3 DEF CommitReturn, RowAsRead, AdvanceIInv, AdvanceTypeOK, SettledIsEmpty
    <2> QED BY <2>3, <2>4, <2>5, <2>6 DEF AdvanceIInv
  <1>6. ASSUME NEW r \in Transactions, CommitSettle(r) PROVE AdvanceIInv'
    <2>1. txn[r].a \in Advances /\ amount[txn[r].a] > 0 /\ remaining[txn[r].a] = 0
      BY <1>6, ReadingTypes DEF CommitSettle, SettleGuard, NothingLeft, AdvanceIInv, ReadingSound
    <2>2. AdvanceTypeOK' /\ Conserved' /\ SettledIsEmpty'
      BY <1>6, <2>1 DEF CommitSettle, AdvanceIInv, AdvanceTypeOK, Conserved, SettledIsEmpty
    <2>3. ReadingSound'
      BY <1>6, EndedKeepsReadings DEF CommitSettle
    <2> QED BY <2>2, <2>3 DEF AdvanceIInv
  <1>7. ASSUME NEW r \in Transactions, Conflict(r) PROVE AdvanceIInv'
    <2>1. AdvanceTypeOK' /\ Conserved' /\ SettledIsEmpty'
      BY <1>7 DEF Conflict, advanceRows, AdvanceIInv, AdvanceTypeOK, Conserved, SettledIsEmpty
    <2>2. ReadingSound'
      BY <1>7, EndedKeepsReadings DEF Conflict, advanceRows
    <2> QED BY <2>1, <2>2 DEF AdvanceIInv
  <1>8. CASE UNCHANGED advanceVars
    BY <1>8 DEF advanceVars, advanceRows, AdvanceIInv, AdvanceTypeOK, Conserved, SettledIsEmpty, ReadingSound
  <1> QED BY <1>1, <1>2, <1>3, <1>4, <1>5, <1>6, <1>7, <1>8 DEF AdvanceNext

\* The invariant holds of every behaviour.
THEOREM AdvanceInvariance == AdvanceSpec => []AdvanceIInv
  BY InitAdvanceIInv, StepAdvanceIInv, PTL DEF AdvanceSpec

\* Type correctness: no balance is ever negative.
THEOREM AdvanceTypeCorrect == AdvanceSpec => []AdvanceTypeOK
  BY AdvanceInvariance, PTL DEF AdvanceIInv

\* The reconciliation report agrees with the expenses on record.
THEOREM ReportAgrees == AdvanceSpec => []ReportAgreesWithExpenses
  <1>1. ASSUME AdvanceIInv, NEW a \in Advances PROVE ReportedSpent(a) = spent[a]
    <2>1. amount[a] \in Nat /\ remaining[a] \in Nat /\ returned[a] \in Nat /\ spent[a] \in Nat
      BY <1>1 DEF AdvanceIInv, AdvanceTypeOK
    <2>2. amount[a] = remaining[a] + returned[a] + spent[a]
      BY <1>1 DEF AdvanceIInv, Conserved
    <2> QED BY <2>1, <2>2 DEF ReportedSpent
  <1>2. AdvanceIInv => ReportAgreesWithExpenses
    BY <1>1 DEF ReportAgreesWithExpenses
  <1> QED BY AdvanceInvariance, <1>2, PTL

\* Every step of the handlers is a step of the atomic ledger, or changes nothing
\* that the ledger sees.
LEMMA StepRefines == AdvanceIInv /\ [AdvanceNext]_advanceVars => [Ledger!Next]_(Ledger!vars)
  <1> SUFFICES ASSUME AdvanceIInv, [AdvanceNext]_advanceVars PROVE [Ledger!Next]_(Ledger!vars)
    OBVIOUS
  <1> USE DEF Ledger!Next, Ledger!vars
  <1>1. ASSUME NEW a \in Advances, NEW x \in Amounts, Issue(a, x) PROVE Ledger!Next
    BY <1>1 DEF Issue, Ledger!Grant
  <1>2. ASSUME NEW r \in Transactions, CommitConsume(r) PROVE Ledger!Next
    <2>1. /\ txn[r].a \in Advances /\ txn[r].x \in Amounts /\ txn[r].x <= remaining[txn[r].a]
          /\ remaining' = [remaining EXCEPT ![txn[r].a] = @ - txn[r].x]
      BY <1>2, TakeKeepsReadings DEF CommitConsume
    <2>2. Ledger!Spend(txn[r].a, txn[r].x)
      BY <1>2, <2>1 DEF CommitConsume, RowAsRead, Ledger!Spend, Ledger!Take
    <2> QED BY <2>1, <2>2
  <1>3. ASSUME NEW r \in Transactions, CommitReturn(r) PROVE Ledger!Next
    <2>1. txn[r].a \in Advances /\ txn[r].returned = returned[txn[r].a]
      BY <1>3, ReadingTypes DEF CommitReturn, RowAsRead, AdvanceIInv, ReadingSound
    <2>2. returned' = [returned EXCEPT ![txn[r].a] = @ + txn[r].x]
      BY <1>3, <2>1 DEF CommitReturn, AdvanceIInv, AdvanceTypeOK
    <2>3. /\ txn[r].x \in Amounts /\ txn[r].x <= remaining[txn[r].a]
          /\ remaining' = [remaining EXCEPT ![txn[r].a] = @ - txn[r].x]
      <3>1. \A a \in Advances : a # txn[r].a => returned'[a] = returned[a]
        BY <2>2 DEF AdvanceIInv, AdvanceTypeOK
      <3> QED BY <1>3, <3>1, TakeKeepsReadings DEF CommitReturn
    <2>4. Ledger!Return(txn[r].a, txn[r].x)
      BY <1>3, <2>2, <2>3 DEF CommitReturn, RowAsRead, Ledger!Return, Ledger!Take
    <2> QED BY <2>1, <2>3, <2>4
  <1>4. ASSUME NEW r \in Transactions, CommitSettle(r) PROVE Ledger!Next
    <2>1. txn[r].a \in Advances /\ amount[txn[r].a] > 0 /\ remaining[txn[r].a] = 0
      BY <1>4, ReadingTypes DEF CommitSettle, SettleGuard, NothingLeft, AdvanceIInv, ReadingSound
    <2> QED BY <1>4, <2>1 DEF CommitSettle, Ledger!Settle
  <1>5. ASSUME UNCHANGED advanceRows PROVE UNCHANGED Ledger!vars
    BY <1>5 DEF advanceRows
  <1> QED BY <1>1, <1>2, <1>3, <1>4, <1>5
        DEF AdvanceNext, ReadToTake, ReadToSettle, ReadRow, Conflict, advanceVars

\* The handlers implement the atomic ledger.
THEOREM ImplementsLedger == AdvanceSpec => LedgerSpec
  <1>1. AdvanceInit => Ledger!Init
    BY DEF AdvanceInit, Ledger!Init
  <1> QED BY AdvanceInvariance, StepRefines, <1>1, PTL DEF AdvanceSpec, LedgerSpec, Ledger!Spec

=============================================================================
