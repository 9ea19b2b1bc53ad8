---------------------------- MODULE CashAdvance ----------------------------
(***************************************************************************)
(* Cash advances (src/apps/api/src/billing/cash-advance.service.ts): the   *)
(* owner hands a member money, expenses consume it, the rest is returned   *)
(* and the advance is settled. Each handler runs in one READ COMMITTED     *)
(* transaction, but it reads the row in one statement and writes it in a   *)
(* later one, with values computed from what it read; other transactions   *)
(* commit between the two. So a handler is a Read... that keeps the row in *)
(* txn[r] and a Commit... whose WHERE clause compares the row with it.     *)
(* Amounts are whole satang: the code rounds every balance to two decimals.*)
(***************************************************************************)
EXTENDS Integers

CONSTANTS Advances,   \* advance rows that can come to exist
          Transactions,  \* requests whose transactions can be open at once (a bound)
          Amounts     \* the amounts that requests name, in satang

ASSUME AmountsAssumption == \A x \in Amounts : x \in Nat /\ x > 0

VARIABLES
  amount,     \* CashAdvance.amount, 0 before the row exists
  remaining,  \* CashAdvance.remaining
  returned,   \* CashAdvance.returnedAmount
  settled,    \* advances with a settledAt
  spent,      \* total of the Expense rows whose paidFromAdvanceId is the advance
  txn         \* the row each open transaction has read

advanceRows == <<amount, remaining, returned, settled, spent>>
advanceVars == <<advanceRows, txn>>

NoTransaction == [op |-> "idle"]
Reading == [op : {"consume", "return", "settle"}, a : Advances, x : Amounts \cup {0},
            remaining : Nat, returned : Nat]

AdvanceInit ==
  /\ amount = [a \in Advances |-> 0]
  /\ remaining = [a \in Advances |-> 0]
  /\ returned = [a \in Advances |-> 0]
  /\ settled = {}
  /\ spent = [a \in Advances |-> 0]
  /\ txn = [r \in Transactions |-> NoTransaction]

\* issue
Issue(a, x) ==
  /\ amount[a] = 0
  /\ amount' = [amount EXCEPT ![a] = x]
  /\ remaining' = [remaining EXCEPT ![a] = x]
  /\ UNCHANGED <<returned, settled, spent, txn>>

-----------------------------------------------------------------------------
\* The statement that reads the row of an open advance.
ReadRow(r, op, a, x) ==
  /\ txn[r] = NoTransaction
  /\ amount[a] > 0
  /\ a \notin settled
  /\ txn' = [txn EXCEPT ![r] = [op |-> op, a |-> a, x |-> x, remaining |-> remaining[a],
                                returned |-> returned[a]]]
  /\ UNCHANGED advanceRows

\* consume and recordReturn refuse an amount that is not there.
ReadToTake(r, op, a, x) ==
  /\ op \in {"consume", "return"}
  /\ x <= remaining[a]
  /\ ReadRow(r, op, a, x)

\* Fault: an advance is settled whatever is left of it.
NothingLeft_Unchecked(a) == TRUE

\* settle tests that nothing is left, when it reads and when it writes.
NothingLeft(a) == remaining[a] = 0

ReadToSettle(r, a) == NothingLeft(a) /\ ReadRow(r, "settle", a, 0)

\* Fault: the update only tests that enough is left.
RowAsRead_EnoughLeft(q) == q.a \notin settled /\ remaining[q.a] >= q.x

\* The WHERE clause of the updates that take money: the advance is open and its
\* balance is the one that was read (which covers the amount).
RowAsRead(q) ==
  /\ q.a \notin settled
  /\ remaining[q.a] >= q.x
  /\ remaining[q.a] = q.remaining

\* Fault: the balance is decremented without comparing the row with the one read.
CommitConsume_Decrement(r) ==
  /\ txn[r].op = "consume"
  /\ LET q == txn[r]
     IN  /\ remaining' = [remaining EXCEPT ![q.a] = @ - q.x]
         /\ spent' = [spent EXCEPT ![q.a] = @ + q.x]
  /\ txn' = [txn EXCEPT ![r] = NoTransaction]
  /\ UNCHANGED <<amount, returned, settled>>

\* consume, and the expense.create in the same transaction.
CommitConsume(r) ==
  /\ txn[r].op = "consume"
  /\ RowAsRead(txn[r])
  /\ LET q == txn[r]
     IN  /\ remaining' = [remaining EXCEPT ![q.a] = q.remaining - q.x]
         /\ spent' = [spent EXCEPT ![q.a] = @ + q.x]
  /\ txn' = [txn EXCEPT ![r] = NoTransaction]
  /\ UNCHANGED <<amount, returned, settled>>

\* recordReturn
CommitReturn(r) ==
  /\ txn[r].op = "return"
  /\ RowAsRead(txn[r])
  /\ LET q == txn[r]
     IN  /\ remaining' = [remaining EXCEPT ![q.a] = q.remaining - q.x]
         /\ returned' = [returned EXCEPT ![q.a] = q.returned + q.x]
  /\ txn' = [txn EXCEPT ![r] = NoTransaction]
  /\ UNCHANGED <<amount, settled, spent>>

\* settle
SettleGuard(q) == q.a \notin settled /\ NothingLeft(q.a)

CommitSettle(r) ==
  /\ txn[r].op = "settle"
  /\ SettleGuard(txn[r])
  /\ settled' = settled \cup {txn[r].a}
  /\ txn' = [txn EXCEPT ![r] = NoTransaction]
  /\ UNCHANGED <<amount, remaining, returned, spent>>

\* An update that matches no row ends the request with a conflict.
Conflict(r) ==
  /\ \/ txn[r].op \in {"consume", "return"} /\ ~RowAsRead(txn[r])
     \/ txn[r].op = "settle" /\ ~SettleGuard(txn[r])
  /\ txn' = [txn EXCEPT ![r] = NoTransaction]
  /\ UNCHANGED advanceRows

AdvanceNext ==
  \/ \E a \in Advances, x \in Amounts : Issue(a, x)
  \/ \E r \in Transactions :
       \/ \E a \in Advances, x \in Amounts, op \in {"consume", "return"} : ReadToTake(r, op, a, x)
       \/ \E a \in Advances : ReadToSettle(r, a)
       \/ CommitConsume(r)
       \/ CommitReturn(r)
       \/ CommitSettle(r)
       \/ Conflict(r)

AdvanceSpec == AdvanceInit /\ [][AdvanceNext]_advanceVars

-----------------------------------------------------------------------------
\* Every variable has its type; no balance is negative.
AdvanceTypeOK ==
  /\ amount \in [Advances -> Nat]
  /\ remaining \in [Advances -> Nat]
  /\ returned \in [Advances -> Nat]
  /\ spent \in [Advances -> Nat]
  /\ settled \in SUBSET Advances
  /\ txn \in [Transactions -> {NoTransaction} \cup Reading]

\* What the reconciliation report calls spent.
ReportedSpent(a) == amount[a] - remaining[a] - returned[a]

\* The report never disagrees with the expenses recorded against the advance,
\* although it is derived from two balances that racing handlers overwrite with
\* values computed from what they read (reconciliation, consume, recordReturn).
ReportAgreesWithExpenses == \A a \in Advances : ReportedSpent(a) = spent[a]

\* The handlers, with their reads apart from their writes, implement the ledger
\* whose steps are atomic: no spend or return is lost or counted twice, and a
\* settled advance is empty and never changes again.
Ledger == INSTANCE AdvanceLedger WITH granted <- amount

LedgerSpec == Ledger!Spec

=============================================================================
