---------------------------- MODULE WorkBilling ----------------------------
(***************************************************************************)
(* From recorded work to invoices (src/apps/api/src/billing): time entries *)
(* and expenses are edited, written off and put on invoices, and the       *)
(* invoice is divided among the customers of the case.                     *)
(*                                                                         *)
(* createInvoice and setExpenseBillable read, check and write in separate  *)
(* statements, so they are a Read... and a Commit... with other requests   *)
(* between. The other handlers write with one guarded updateMany whose     *)
(* WHERE repeats every check they made before it, so what they read first  *)
(* can only refuse them earlier: each is one action with that guard.       *)
(* Lines typed by hand add a constant to an invoice and are left out.      *)
(***************************************************************************)
EXTENDS FiniteSets, SplitAllocation, Nullable

CONSTANTS TimeEntries, Expenses,  \* rows that can come to exist
          InvoiceIds,  \* invoices, or groups of split invoices (a bound)
          Requests,    \* API requests that can be in flight at once (a bound)
          Prices,      \* what a row can cost; this and discounts in units
          Splits,      \* the shares that an invoice can be divided by
          Discounts    \* discounts that a request can name

Work == TimeEntries \cup Expenses

ASSUME WorkAssumption ==
  /\ IsFiniteSet(Work)
  /\ TimeEntries \cap Expenses = {}
  /\ None \notin InvoiceIds

\* There is always someone to bill, and allocate refuses shares that add up to nothing.
ASSUME PricesAssumption ==
  /\ Prices \subseteq Nat /\ Discounts \subseteq Nat
  /\ Splits \subseteq Seq(Nat)
  /\ \A s \in Splits : Len(s) = 1 \/ Total(s) > 0

VARIABLES
  row,         \* "new" before a row exists, "live", or "deleted"
  price,       \* hours * rate of a time entry, amount of an expense
  billable,    \* the rows with billable = true
  approved,    \* the expenses whose status is APPROVED or PAID
  writtenOff,  \* the rows with a writtenOffAt
  invoiceOf,   \* invoiceId
  invoice,     \* what each invoice was created with; no lines before it exists
  req          \* what each request in flight has read

rows == <<row, price, billable, approved, writtenOff, invoiceOf, invoice>>
vars == <<rows, req>>

Idle == [op |-> "idle"]
Lines == UNION {[work -> Prices] : work \in (SUBSET Work) \ {{}}}
BillableReq == [op : {"billable"}, w : Expenses, billable : BOOLEAN]
InvoiceReq == [op : {"invoice"}, lines : Lines, shares : Splits, discount : Discounts]
NoInvoice == [lines |-> <<>>, discount |-> 0, amounts |-> <<>>]
InvoiceRows == [lines : Lines, discount : Discounts, amounts : Seq(Int)] \cup {NoInvoice}

Subtotal(lines) == SumFunction(lines)

Init ==
  /\ row = [w \in Work |-> "new"]
  /\ price = [w \in Work |-> 0]
  /\ billable = {}
  /\ approved = {}
  /\ writtenOff = {}
  /\ invoiceOf = [w \in Work |-> None]
  /\ invoice = [i \in InvoiceIds |-> NoInvoice]
  /\ req = [r \in Requests |-> Idle]

\* Fault: a row that was written off still counts as unbilled.
Unbilled_WrittenOffToo(w) ==
  row[w] = "live" /\ w \in billable /\ invoiceOf[w] = None /\ (w \in Expenses => w \in approved)

\* unbilledTimeWhere and unbilledExpenseWhere
Unbilled(w) ==
  /\ row[w] = "live"
  /\ w \in billable
  /\ invoiceOf[w] = None
  /\ w \notin writtenOff
  /\ w \in Expenses => w \in approved

-----------------------------------------------------------------------------
\* createTimeEntry
CreateTimeEntry(w, x, b) ==
  /\ w \in TimeEntries /\ row[w] = "new"
  /\ row' = [row EXCEPT ![w] = "live"]
  /\ price' = [price EXCEPT ![w] = x]
  /\ billable' = IF b THEN billable \cup {w} ELSE billable
  /\ UNCHANGED <<approved, writtenOff, invoiceOf, invoice, req>>

\* createExpense: billable by default, and its amount is never edited.
CreateExpense(w, x) ==
  /\ w \in Expenses /\ row[w] = "new"
  /\ row' = [row EXCEPT ![w] = "live"]
  /\ price' = [price EXCEPT ![w] = x]
  /\ billable' = billable \cup {w}
  /\ UNCHANGED <<approved, writtenOff, invoiceOf, invoice, req>>

\* updateExpenseStatus and updateExpenseClaimStatus (module ExpenseClaims), as
\* far as billing sees them: an expense becomes approved, or stops being so.
DecideExpense(w) ==
  /\ w \in Expenses /\ row[w] = "live"
  /\ approved' = IF w \in approved THEN approved \ {w} ELSE approved \cup {w}
  /\ UNCHANGED <<row, price, billable, writtenOff, invoiceOf, invoice, req>>

\* Fault: an edit only tests that the row is not written off.
Editable_BilledToo(w) == w \in TimeEntries /\ row[w] = "live" /\ w \notin writtenOff

\* The WHERE clause of updateTimeEntry and deleteTimeEntry.
Editable(w) ==
  /\ w \in TimeEntries
  /\ row[w] = "live"
  /\ invoiceOf[w] = None
  /\ w \notin writtenOff

UpdateTimeEntry(w, x) ==
  /\ Editable(w)
  /\ price' = [price EXCEPT ![w] = x]
  /\ UNCHANGED <<row, billable, approved, writtenOff, invoiceOf, invoice, req>>

DeleteTimeEntry(w) ==
  /\ Editable(w)
  /\ row' = [row EXCEPT ![w] = "deleted"]
  /\ UNCHANGED <<price, billable, approved, writtenOff, invoiceOf, invoice, req>>

\* writeOffTimeEntry and writeOffExpense
WriteOff(w) ==
  /\ Unbilled(w)
  /\ writtenOff' = writtenOff \cup {w}
  /\ UNCHANGED <<row, price, billable, approved, invoiceOf, invoice, req>>

\* undoTimeEntryWriteOff and undoExpenseWriteOff
UndoWriteOff(w) ==
  /\ w \in writtenOff
  /\ invoiceOf[w] = None
  /\ writtenOff' = writtenOff \ {w}
  /\ UNCHANGED <<row, price, billable, approved, invoiceOf, invoice, req>>

-----------------------------------------------------------------------------
\* setExpenseBillable up to its update, which repeats none of the checks.
ReadForBillable(r, w, b) ==
  /\ req[r] = Idle
  /\ w \in Expenses /\ row[w] = "live"
  /\ invoiceOf[w] = None
  /\ req' = [req EXCEPT ![r] = [op |-> "billable", w |-> w, billable |-> b]]
  /\ UNCHANGED rows

CommitBillable(r) ==
  /\ req[r].op = "billable"
  /\ billable' = IF req[r].billable THEN billable \cup {req[r].w} ELSE billable \ {req[r].w}
  /\ req' = [req EXCEPT ![r] = Idle]
  /\ UNCHANGED <<row, price, approved, writtenOff, invoiceOf, invoice>>

\* Bound: an invoice is started only while an id is left for it.
InvoiceIdsLeft ==
  Cardinality({r \in Requests : req[r].op = "invoice"})
    < Cardinality({i \in InvoiceIds : invoice[i] = NoInvoice})

\* Fault: the discount is not compared with what the rows come to.
ReadForInvoice_AnyDiscount(r, work, shares, discount) ==
  /\ req[r] = Idle
  /\ InvoiceIdsLeft
  /\ work # {}
  /\ \A w \in work : Unbilled(w)
  /\ discount > 0 => Len(shares) = 1
  /\ req' = [req EXCEPT ![r] = [op |-> "invoice", lines |-> [w \in work |-> price[w]],
                                shares |-> shares, discount |-> discount]]
  /\ UNCHANGED rows

\* createInvoice up to its transaction: the rows are read and priced, and the
\* discount is checked against them.
ReadForInvoice(r, work, shares, discount) ==
  /\ req[r] = Idle
  /\ InvoiceIdsLeft
  /\ work # {}
  /\ \A w \in work : Unbilled(w)
  /\ discount > 0 => Len(shares) = 1
  /\ LET lines == [w \in work |-> price[w]]
     IN  /\ discount <= Subtotal(lines)
         /\ req' = [req EXCEPT ![r] = [op |-> "invoice", lines |-> lines, shares |-> shares,
                                       discount |-> discount]]
  /\ UNCHANGED rows

\* One payer owes the discounted subtotal, several divide the subtotal.
Amounts(q) ==
  IF Len(q.shares) = 1 THEN <<Round2(Subtotal(q.lines) - q.discount)>>
                       ELSE Allocate(Subtotal(q.lines), q.shares)

\* Fault: the rows are linked to the invoice without testing them again.
InvoiceGuard_Unconditional(q) == TRUE

\* The updates that link the rows must find every one of them still unbilled.
InvoiceGuard(q) == \A w \in DOMAIN q.lines : Unbilled(w)

\* The transaction of createInvoice. The rows are linked to one invoice, the
\* first of a split group; i stands for the group.
CommitInvoice(r, i) ==
  /\ req[r].op = "invoice"
  /\ invoice[i] = NoInvoice
  /\ InvoiceGuard(req[r])
  /\ LET q == req[r]
     IN  /\ invoice' = [invoice EXCEPT ![i] = [lines |-> q.lines, discount |-> q.discount,
                                               amounts |-> Amounts(q)]]
         /\ invoiceOf' = [w \in Work |-> IF w \in DOMAIN q.lines THEN i ELSE invoiceOf[w]]
  /\ req' = [req EXCEPT ![r] = Idle]
  /\ UNCHANGED <<row, price, billable, approved, writtenOff>>

\* A link that does not find every row rolls the invoice back.
Conflict(r) ==
  /\ req[r].op = "invoice"
  /\ ~InvoiceGuard(req[r])
  /\ req' = [req EXCEPT ![r] = Idle]
  /\ UNCHANGED rows

Next ==
  \/ \E w \in Work :
       \/ \E x \in Prices : \E b \in BOOLEAN : CreateTimeEntry(w, x, b)
       \/ \E x \in Prices : CreateExpense(w, x) \/ UpdateTimeEntry(w, x)
       \/ DecideExpense(w)
       \/ DeleteTimeEntry(w)
       \/ WriteOff(w)
       \/ UndoWriteOff(w)
  \/ \E r \in Requests :
       \/ \E w \in Expenses, b \in BOOLEAN : ReadForBillable(r, w, b)
       \/ CommitBillable(r)
       \/ \E work \in SUBSET Work, shares \in Splits, discount \in Discounts :
            ReadForInvoice(r, work, shares, discount)
       \/ \E i \in InvoiceIds : CommitInvoice(r, i)
       \/ Conflict(r)

Spec == Init /\ [][Next]_vars

-----------------------------------------------------------------------------
\* Every variable has its type; no bill comes to less than nothing. (One of several
\* payers can owe less than nothing: the last, when the others' shares are rounded up
\* and its own is next to nothing.)
TypeOK ==
  /\ row \in [Work -> {"new", "live", "deleted"}]
  /\ price \in [Work -> Prices \cup {0}]
  /\ billable \in SUBSET Work
  /\ approved \in SUBSET Expenses
  /\ writtenOff \in SUBSET Work
  /\ invoiceOf \in [Work -> InvoiceIds \cup {None}]
  /\ invoice \in [InvoiceIds -> InvoiceRows]
  /\ \A i \in InvoiceIds : Total(invoice[i].amounts) >= 0
  /\ req \in [Requests -> {Idle} \cup BillableReq \cup InvoiceReq]

\* Work is billed exactly once: an invoice charges for a row if and only if the
\* row is linked to it, however many createInvoice requests read the same rows
\* before any of them wrote.
WorkIsBilledOnce ==
  \A i \in InvoiceIds :
    {w \in Work : invoiceOf[w] = i} = DOMAIN invoice[i].lines

\* No row is both charged to the client and given up: what is on an invoice is
\* not written off and was not deleted, although writing off, deleting and
\* billing race (writeOffTimeEntry, writeOffExpense, createInvoice).
BilledWorkIsNotWaived ==
  \A w \in Work : invoiceOf[w] # None => w \notin writtenOff /\ row[w] = "live"

\* Once a row is on an invoice it stays on it, at the price it has there, and is
\* neither deleted nor written off (updateTimeEntry, deleteTimeEntry, writeOff).
BilledWorkIsFrozen ==
  [][\A w \in Work : invoiceOf[w] # None =>
       <<invoiceOf[w], price[w], row[w], w \in writtenOff>>'
         = <<invoiceOf[w], price[w], row[w], w \in writtenOff>>]_vars

\* The payers of an invoice together owe what its lines come to, less the
\* discount, rounded to the satang (createInvoice, allocate).
PayersOweTheLines ==
  \A i \in InvoiceIds :
    Total(invoice[i].amounts) = Round2(Subtotal(invoice[i].lines) - invoice[i].discount)

-----------------------------------------------------------------------------
(* What the repository says and the code does not keep.                    *)

\* The price of recorded work is the one in the database (createInvoice,
\* CreateInvoiceDto).
LinesHaveRecordedPrices ==
  \A w \in Work : invoiceOf[w] # None => invoice[invoiceOf[w]].lines[w] = price[w]

=============================================================================
