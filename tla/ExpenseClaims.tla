--------------------------- MODULE ExpenseClaims ---------------------------
(***************************************************************************)
(* Case expenses, the claims that batch them for reimbursement, and the    *)
(* petty-cash fund that approval draws on (src/apps/api/src/billing).      *)
(*                                                                         *)
(* A handler of the API reads its rows, checks them, and only then opens a *)
(* database transaction that writes. Other requests run between the two,   *)
(* so a handler is two actions here: Read... keeps what the handler saw in *)
(* req[r], Commit... is the transaction. A transaction is one atomic step: *)
(* each of its writes re-tests the rows it depends on or tests nothing, so *)
(* under Postgres READ COMMITTED it commits as if it ran alone.            *)
(* Who may call a handler (author, owner) is left out: every call here is  *)
(* by someone who may.                                                     *)
(***************************************************************************)
EXTENDS Integers, FiniteSets, Functions

CONSTANTS Expenses,     \* expense rows that can come to exist
          Claims,       \* claim rows that can come to exist (a bound)
          Requests,     \* API requests that can be in flight at once (a bound)
          Amount,       \* the amount of each expense; no handler edits it
          Fund,         \* the petty-cash balance at the start
          None          \* a null column, or a row that does not exist

ExpenseStatus == {"DRAFT", "PENDING", "APPROVED", "PAID", "REJECTED"}
ClaimStatus == {"PENDING", "APPROVED", "PAID", "REJECTED"}

\* Amounts are positive (MONEY_MIN in the DTOs).
ASSUME AmountAssumption == Amount \in [Expenses -> Nat \ {0}] /\ Fund \in Nat

\* Tables hold finitely many rows.
ASSUME RowsAssumption == IsFiniteSet(Expenses) /\ IsFiniteSet(Claims)

ASSUME NoneAssumption == None \notin ExpenseStatus \cup Claims

VARIABLES
  status,       \* Expense.status, None before the row exists
  claimOf,      \* Expense.claimId
  fromAdvance,  \* expenses with a paidFromAdvanceId
  claimStatus,  \* ExpenseClaim.status, None before the row exists
  balance,      \* PettyCashFund.balance
  req,          \* what each request in flight has read
  debited,      \* history: the lines whose amounts each claim's approval took
  debitedAlone, \* history: how often each expense was debited on its own
  wasPending    \* history: expenses that were ever PENDING

rows == <<status, claimOf, fromAdvance, claimStatus, balance>>
history == <<debited, debitedAlone, wasPending>>
vars == <<rows, req, history>>

Idle == [op |-> "idle"]
SubmitReq == [op : {"submit"}, ids : (SUBSET Expenses) \ {{}}]
StatusReq == [op : {"status"}, e : Expenses, seen : ExpenseStatus,
              next : ExpenseStatus \ {"PENDING"}]
ClaimReq == [op : {"claim"}, c : Claims, seen : ClaimStatus, next : ClaimStatus,
             lines : (SUBSET Expenses) \ {{}}]

LinesOf(c) == {e \in Expenses : claimOf[e] = c}

\* What the lines of a claim come to.
TotalAmount(lines) == SumFunctionOnSet(Amount, lines)

\* Fault: deduct forgets to test that the fund covers the amount.
CanDeduct_Uncovered(amount) == amount > 0

\* deduct refuses when the fund does not cover the amount.
CanDeduct(amount) == amount > 0 /\ balance >= amount

Init ==
  /\ status = [e \in Expenses |-> None]
  /\ claimOf = [e \in Expenses |-> None]
  /\ fromAdvance = {}
  /\ claimStatus = [c \in Claims |-> None]
  /\ balance = Fund
  /\ req = [r \in Requests |-> Idle]
  /\ debited = [c \in Claims |-> {}]
  /\ debitedAlone = [e \in Expenses |-> 0]
  /\ wasPending = {}

-----------------------------------------------------------------------------
\* An expense is recorded with the status the DTO names, or else as a draft.
CreateExpense(e, s) ==
  /\ status[e] = None
  /\ status' = [status EXCEPT ![e] = IF s = None THEN "DRAFT" ELSE s]
  /\ wasPending' = IF s = "PENDING" THEN wasPending \cup {e} ELSE wasPending
  /\ UNCHANGED <<claimOf, fromAdvance, claimStatus, balance, req, debited, debitedAlone>>

\* An expense covered by a cash advance is recorded as PAID (the advance's own
\* balance is module CashAdvance).
CreateExpenseFromAdvance(e) ==
  /\ status[e] = None
  /\ status' = [status EXCEPT ![e] = "PAID"]
  /\ fromAdvance' = fromAdvance \cup {e}
  /\ UNCHANGED <<claimOf, claimStatus, balance, req, history>>

\* Bound: a submission starts only while a claim row is left for it.
ClaimRowsLeft ==
  Cardinality({r \in Requests : req[r].op = "submit"})
    < Cardinality({c \in Claims : claimStatus[c] = None})

\* createClaimFromExpenses up to its transaction; updateExpenseStatus with
\* status PENDING is the same call with one id.
ReadForSubmit(r, ids) ==
  /\ req[r] = Idle
  /\ ClaimRowsLeft
  /\ ids # {}
  /\ \A e \in ids : status[e] = "DRAFT" /\ claimOf[e] = None
  /\ req' = [req EXCEPT ![r] = [op |-> "submit", ids |-> ids]]
  /\ UNCHANGED <<rows, history>>

\* The transaction of createClaimFromExpenses: it writes the ids it was given,
\* whatever their rows hold by now.
CommitSubmit(r, c) ==
  /\ req[r].op = "submit"
  /\ claimStatus[c] = None
  /\ LET ids == req[r].ids
     IN  /\ status' = [e \in Expenses |-> IF e \in ids THEN "PENDING" ELSE status[e]]
         /\ claimOf' = [e \in Expenses |-> IF e \in ids THEN c ELSE claimOf[e]]
         /\ wasPending' = wasPending \cup ids
  /\ claimStatus' = [claimStatus EXCEPT ![c] = "PENDING"]
  /\ req' = [req EXCEPT ![r] = Idle]
  /\ UNCHANGED <<fromAdvance, balance, debited, debitedAlone>>

\* updateExpenseStatus up to its transaction, for every status but PENDING.
ReadForStatus(r, e, next) ==
  /\ req[r] = Idle
  /\ status[e] # None
  /\ next \in ExpenseStatus \ {"PENDING"}
  /\ claimOf[e] # None => next = "DRAFT"
  /\ status[e] = "DRAFT" => next \notin {"APPROVED", "PAID"}
  /\ req' = [req EXCEPT ![r] = [op |-> "status", e |-> e, seen |-> status[e], next |-> next]]
  /\ UNCHANGED <<rows, history>>

\* Approval of a PENDING expense takes its amount from petty cash.
StatusDebits(q) == q.next = "APPROVED" /\ q.seen = "PENDING"

\* Fault: the update of an expense does not re-test the status it read.
StatusGuard_StaleStatus(q) ==
  claimOf[q.e] = None /\ (StatusDebits(q) => CanDeduct(Amount[q.e]))

\* Fault: the update of an expense does not re-test that it is on no claim.
StatusGuard_ClaimedSince(q) ==
  status[q.e] = q.seen /\ (StatusDebits(q) => CanDeduct(Amount[q.e]))

StatusGuard(q) ==
  /\ status[q.e] = q.seen
  /\ claimOf[q.e] = None
  /\ StatusDebits(q) => CanDeduct(Amount[q.e])

CommitStatus(r) ==
  /\ req[r].op = "status"
  /\ StatusGuard(req[r])
  /\ LET q == req[r]
     IN  /\ status' = [status EXCEPT ![q.e] = q.next]
         /\ balance' = IF StatusDebits(q) THEN balance - Amount[q.e] ELSE balance
         /\ debitedAlone' = IF StatusDebits(q)
                            THEN [debitedAlone EXCEPT ![q.e] = @ + 1] ELSE debitedAlone
  /\ req' = [req EXCEPT ![r] = Idle]
  /\ UNCHANGED <<claimOf, fromAdvance, claimStatus, debited, wasPending>>

\* Fault: a claim can be paid without being approved first.
Decision_PayUnapproved ==
  {<<"PENDING", "APPROVED">>, <<"PENDING", "REJECTED">>, <<"PENDING", "PAID">>}

\* The decisions updateExpenseClaimStatus accepts for a claim it read.
Decision == {<<"PENDING", "APPROVED">>, <<"PENDING", "REJECTED">>, <<"APPROVED", "PAID">>}

\* updateExpenseClaimStatus up to its transaction.
ReadForClaim(r, c, next) ==
  /\ req[r] = Idle
  /\ claimStatus[c] # None
  /\ LinesOf(c) # {}
  /\ <<claimStatus[c], next>> \in Decision
  /\ req' = [req EXCEPT ![r] = [op |-> "claim", c |-> c, seen |-> claimStatus[c],
                                next |-> next, lines |-> LinesOf(c)]]
  /\ UNCHANGED <<rows, history>>

\* Fault: the decision does not re-test the status it read.
ClaimGuard_StaleStatus(q) == q.next = "APPROVED" => CanDeduct(TotalAmount(q.lines))

ClaimGuard(q) ==
  /\ claimStatus[q.c] = q.seen
  /\ q.next = "APPROVED" => CanDeduct(TotalAmount(q.lines))

\* Its transaction: the claim moves if it still has the status that was read,
\* approval deducts the total that was read, and every line follows the claim.
CommitClaim(r) ==
  /\ req[r].op = "claim"
  /\ ClaimGuard(req[r])
  /\ LET q == req[r]
         approving == q.next = "APPROVED"
     IN  /\ claimStatus' = [claimStatus EXCEPT ![q.c] = q.next]
         /\ balance' = IF approving THEN balance - TotalAmount(q.lines) ELSE balance
         /\ debited' = IF approving THEN [debited EXCEPT ![q.c] = q.lines] ELSE debited
         /\ status' = [e \in Expenses |-> IF claimOf[e] = q.c THEN q.next ELSE status[e]]
  /\ req' = [req EXCEPT ![r] = Idle]
  /\ UNCHANGED <<claimOf, fromAdvance, debitedAlone, wasPending>>

\* A transaction whose guard fails rolls back and the request ends.
Abort(r) ==
  /\ \/ req[r].op = "status" /\ ~StatusGuard(req[r])
     \/ req[r].op = "claim" /\ ~ClaimGuard(req[r])
  /\ req' = [req EXCEPT ![r] = Idle]
  /\ UNCHANGED <<rows, history>>

Next ==
  \/ \E e \in Expenses : CreateExpenseFromAdvance(e)
  \/ \E e \in Expenses, s \in {"DRAFT", "PENDING", None} : CreateExpense(e, s)
  \/ \E r \in Requests :
       \/ \E ids \in SUBSET Expenses : ReadForSubmit(r, ids)
       \/ \E c \in Claims : CommitSubmit(r, c)
       \/ \E e \in Expenses, next \in ExpenseStatus : ReadForStatus(r, e, next)
       \/ CommitStatus(r)
       \/ \E c \in Claims, next \in ClaimStatus : ReadForClaim(r, c, next)
       \/ CommitClaim(r)
       \/ Abort(r)

Spec == Init /\ [][Next]_vars

-----------------------------------------------------------------------------
\* Every variable has its type; the fund in particular never goes below zero,
\* whatever approvals race for what is left in it (deduct).
TypeOK ==
  /\ status \in [Expenses -> ExpenseStatus \cup {None}]
  /\ claimOf \in [Expenses -> Claims \cup {None}]
  /\ fromAdvance \in SUBSET Expenses
  /\ claimStatus \in [Claims -> ClaimStatus \cup {None}]
  /\ balance \in Nat
  /\ req \in [Requests -> {Idle} \cup SubmitReq \cup StatusReq \cup ClaimReq]
  /\ debited \in [Claims -> SUBSET Expenses]
  /\ debitedAlone \in [Expenses -> Nat]
  /\ wasPending \in SUBSET Expenses

\* A line always has the status of its claim, although two handlers write
\* Expense.status: updateExpenseStatus must never touch a claimed expense, even
\* one that was claimed after it read it, and updateExpenseClaimStatus must
\* carry every line along.
ClaimLinesAgree ==
  \A e \in Expenses : claimOf[e] # None => status[e] = claimStatus[claimOf[e]]

\* No expense is reimbursed through a claim without its amount having left the
\* petty-cash fund: the lines of an approved or paid claim are among the ones
\* its approval summed, although that sum is of lines read before the
\* transaction (updateExpenseClaimStatus).
ReimbursedLinesWereDebited ==
  \A e \in Expenses :
    (claimOf[e] # None /\ claimStatus[claimOf[e]] \in {"APPROVED", "PAID"})
      => e \in debited[claimOf[e]]

\* An expense approved on its own is debited once at most, whatever updates of
\* its status race or follow each other (updateExpenseStatus).
DebitedAloneOnce == \A e \in Expenses : debitedAlone[e] <= 1

\* The fund has lost exactly one deduction for each approved claim and one for
\* each expense approved on its own: two racing approvals of a claim, or an
\* approval racing a rejection, deduct once or not at all.
FundAccounted ==
  Fund - balance =
      SumFunctionOnSet([c \in Claims |-> TotalAmount(debited[c])],
                       {c \in Claims : claimStatus[c] \in {"APPROVED", "PAID"}})
    + SumFunction([e \in Expenses |-> Amount[e] * debitedAlone[e]])

\* A claim is decided once: a rejected or paid claim never changes again, an
\* approved one is only paid, and none becomes pending again, even when two
\* owners decide it at the same time (updateExpenseClaimStatus).
ClaimDecidedOnce ==
  [][\A c \in Claims : claimStatus'[c] # claimStatus[c] =>
       /\ claimStatus[c] \notin {"REJECTED", "PAID"}
       /\ claimStatus[c] = "APPROVED" => claimStatus'[c] = "PAID"
       /\ claimStatus'[c] = "PENDING" => claimStatus[c] = None]_vars

-----------------------------------------------------------------------------
(* What the repository says and the code does not keep.                    *)

\* "This item is already on a claim": createClaimFromExpenses refuses to put a
\* claimed expense on another claim.
LineStaysOnItsClaim ==
  [][\A e \in Expenses : claimOf[e] # None => claimOf'[e] = claimOf[e]]_vars

\* An expense paid from a cash advance never enters an ExpenseClaim
\* (schema.prisma, CreateStandaloneExpenseDto).
AdvanceExpenseIsNeverClaimed == \A e \in fromAdvance : claimOf[e] = None

\* A draft has to be submitted before it is approved or paid
\* (updateExpenseStatus), unless an advance paid for it.
ApprovedWasSubmitted ==
  \A e \in Expenses : status[e] \in {"APPROVED", "PAID"} => e \in wasPending \cup fromAdvance

=============================================================================
