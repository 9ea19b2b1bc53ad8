---------------------------- MODULE Collections ----------------------------
(***************************************************************************)
(* An invoice after it was created (src/apps/api/src/billing, mostly       *)
(* collections.service.ts): discounted while it is a draft, sent, and paid *)
(* in one or more payments.                                                *)
(*                                                                         *)
(* Each handler is one step. setInvoiceDiscount and markSent write with a  *)
(* WHERE that repeats the status they checked, and what else they read     *)
(* (the lines) never changes. recordPayment locks the invoice row before   *)
(* it reads, so payments of one invoice run one after the other; two that  *)
(* use one createRequestId on two invoices are separated by the unique     *)
(* index on it, whose violation is answered like the conflict that is      *)
(* found by reading.                                                       *)
(***************************************************************************)
EXTENDS Integers, FiniteSets, Functions, Nullable

CONSTANTS Invoices,     \* invoices that can come to exist
          Subtotals,    \* what the lines of an invoice for one payer can add up to, in satang
          Shares,       \* what a payer of a split bill can be left with, in satang
          Sums,         \* discounts and payments that requests name, in satang
          Keys,         \* values of createRequestId
          MaxPayments   \* bound: payment rows

ASSUME CollectionsAssumption ==
  /\ Subtotals \subseteq Nat /\ Shares \subseteq Int /\ Sums \subseteq Nat
  /\ MaxPayments \in Nat
  /\ None \notin Keys \cup {"DRAFT", "SENT", "PAID"}

VARIABLES
  status,    \* Invoice.status
  subtotal,  \* the sum of the lines
  total,     \* Invoice.totalAmount
  payments,  \* the InvoicePayment rows
  answer     \* the last recordPayment request and what it was answered

paymentVars == <<status, subtotal, total, payments, answer>>

PaymentsInit ==
  /\ status = [i \in Invoices |-> None]
  /\ subtotal = [i \in Invoices |-> 0]
  /\ total = [i \in Invoices |-> 0]
  /\ payments = {}
  /\ answer = None

PaymentsOf(i) == {p \in payments : p.invoice = i}

Received(i) == SumFunction([p \in PaymentsOf(i) |-> p.amount])

\* Fault: what was already received is forgotten.
Outstanding_Gross(i) == total[i]

Outstanding(i) == total[i] - Received(i)

-----------------------------------------------------------------------------
\* createInvoice makes a draft for one payer, possibly with a discount already
\* (WorkBilling).
CreateInvoice(i, x, d) ==
  /\ status[i] = None
  /\ d <= x
  /\ status' = [status EXCEPT ![i] = "DRAFT"]
  /\ subtotal' = [subtotal EXCEPT ![i] = x]
  /\ total' = [total EXCEPT ![i] = x - d]
  /\ UNCHANGED <<payments, answer>>

\* One of the invoices of a split bill. It has one line, of what allocate leaves this payer
\* with, and no discount yet. The last payer absorbs what the rounding of the other
\* amounts leaves, so that the line can be less than nothing (SplitAllocation). The
\* invoices of a group do not depend on each other after they were made.
CreateSplitInvoice(i, x) ==
  /\ status[i] = None
  /\ status' = [status EXCEPT ![i] = "DRAFT"]
  /\ subtotal' = [subtotal EXCEPT ![i] = x]
  /\ total' = [total EXCEPT ![i] = x]
  /\ UNCHANGED <<payments, answer>>

\* Fault: the update does not repeat the test that the invoice is a draft.
Discountable_Sent(i) == status[i] # None

\* setInvoiceDiscount is for drafts only.
Discountable(i) == status[i] = "DRAFT"

\* Fault: the discount is not compared with the lines.
SetInvoiceDiscount_Unlimited(i, d) ==
  /\ Discountable(i)
  /\ total' = [total EXCEPT ![i] = subtotal[i] - d]
  /\ UNCHANGED <<status, subtotal, payments, answer>>

SetInvoiceDiscount(i, d) ==
  /\ Discountable(i)
  /\ d <= subtotal[i]
  /\ total' = [total EXCEPT ![i] = subtotal[i] - d]
  /\ UNCHANGED <<status, subtotal, payments, answer>>

MarkSent(i) ==
  /\ status[i] = "DRAFT"
  /\ status' = [status EXCEPT ![i] = "SENT"]
  /\ UNCHANGED <<subtotal, total, payments, answer>>

-----------------------------------------------------------------------------
\* Fault: the key is looked up among the payments of the same invoice only.
Recorded_OnThisInvoice(i, k) == {p \in payments : p.key = k /\ p.key # None /\ p.invoice = i}

\* The payment that was recorded under a key: one key serves the whole firm.
Recorded(i, k) == {p \in payments : p.key = k /\ p.key # None}

\* Fault: a paid invoice refuses before the key is looked up.
IsRetry_UnlessPaid(i, x, k) ==
  \E p \in Recorded(i, k) : p.invoice = i /\ p.amount = x /\ status[i] # "PAID"

\* The request was already carried out.
IsRetry(i, x, k) == \E p \in Recorded(i, k) : p.invoice = i /\ p.amount = x

\* A payment that is carried out.
Payable(i, x) == status[i] = "SENT" /\ x > 0 /\ x <= Outstanding(i)

Answer(i, x, k, result) == answer' = [invoice |-> i, amount |-> x, key |-> k, result |-> result]

\* The three ways recordPayment ends: the recorded payment is returned again,
\* the request is refused, or a payment is recorded.
RepeatPayment(i, x, k) ==
  /\ IsRetry(i, x, k)
  /\ Answer(i, x, k, "recorded")
  /\ UNCHANGED <<status, subtotal, total, payments>>

RefusePayment(i, x, k) ==
  /\ status[i] # None
  /\ ~IsRetry(i, x, k)
  /\ Recorded(i, k) # {} \/ ~Payable(i, x)
  /\ Answer(i, x, k, "refused")
  /\ UNCHANGED <<status, subtotal, total, payments>>

RecordPayment(i, x, k) ==
  /\ Cardinality(payments) < MaxPayments
  /\ Recorded(i, k) = {}
  /\ Payable(i, x)
  /\ payments' = payments \cup {[id |-> Cardinality(payments) + 1, invoice |-> i, amount |-> x,
                                 key |-> k]}
  /\ status' = IF x = Outstanding(i) THEN [status EXCEPT ![i] = "PAID"] ELSE status
  /\ Answer(i, x, k, "recorded")
  /\ UNCHANGED <<subtotal, total>>

PaymentsNext ==
  \E i \in Invoices :
    \/ \E x \in Subtotals, d \in Sums \cup {0} : CreateInvoice(i, x, d)
    \/ \E x \in Shares : CreateSplitInvoice(i, x)
    \/ \E d \in Sums \cup {0} : SetInvoiceDiscount(i, d)
    \/ MarkSent(i)
    \/ \E x \in Sums, k \in Keys \cup {None} :
         RepeatPayment(i, x, k) \/ RefusePayment(i, x, k) \/ RecordPayment(i, x, k)

PaymentsSpec == PaymentsInit /\ [][PaymentsNext]_paymentVars

-----------------------------------------------------------------------------
\* Every variable has its type, and no discount takes an invoice below nothing: one that asks
\* for less than nothing was made so by the division of a split bill, and has no discount.
PaymentsTypeOK ==
  /\ status \in [Invoices -> {None, "DRAFT", "SENT", "PAID"}]
  /\ subtotal \in [Invoices -> Int]
  /\ total \in [Invoices -> Int]
  /\ \A i \in Invoices : total[i] >= 0 \/ total[i] = subtotal[i]
  /\ \A p \in payments : /\ p.id \in 1 .. MaxPayments /\ p.invoice \in Invoices
                         /\ p.amount \in Sums /\ p.key \in Keys \cup {None}

\* An invoice is PAID exactly when its payments add up to what it asks for, they never add up
\* to more, and neither a draft nor an invoice that asks for nothing, or for less, has any:
\* discounts, sending and payments in any order keep Invoice.status, totalAmount and the
\* payment rows in step.
StatusFollowsPayments ==
  \A i \in Invoices :
    /\ Received(i) <= total[i] \/ PaymentsOf(i) = {}
    /\ status[i] = "PAID" <=> (total[i] > 0 /\ Received(i) = total[i])
    /\ status[i] = "DRAFT" => Received(i) = 0

\* What a client was asked to pay does not change after the invoice was sent.
SentTotalIsFrozen ==
  [][\A i \in Invoices : status[i] \in {"SENT", "PAID"} => total'[i] = total[i]]_paymentVars

\* A createRequestId names one payment in the firm, so a request that is sent
\* again, or again to another invoice, is not counted twice.
KeyNamesOnePayment == \A p, q \in payments : p.key = q.key /\ p.key # None => p = q

\* A request that was carried out is answered with its payment each time it is
\* retried, even when that payment was the one that settled the invoice.
RetryIsAnswered ==
  answer # None =>
    (answer.result = "recorded" <=>
       \E p \in payments : p.invoice = answer.invoice /\ p.amount = answer.amount /\ p.key = answer.key)
      \/ answer.key = None

=============================================================================
