# Verification of the law-firm practice system

TLA+ models of the parts of this repository whose correctness depends on the
order in which requests, crashes and external calls happen, with TLC runs on
small instances and TLAPS proofs for every instance. The reference is the code:
each definition names the lines it models in `PROJECT.json` under `map`.

## The system

The repository is a practice-management system for Thai law firms. The state
lives in one Postgres database behind a NestJS API (`src/apps/api`); a Next.js
site (`src/apps/web`) and an Expo app (`src/apps/mobile`) are clients of it, and
`src/packages/shared` holds types. LINE, Microsoft Graph, Stripe and language
models are called over HTTP. Cron jobs run inside the API process.

Three facts about the API shape all the models:

* **Reads and writes are apart.** A handler reads its rows, checks them, and only
  then opens a transaction (or issues one update). Another request can commit
  between the two. Prisma transactions run at Postgres' default READ COMMITTED
  level (two services ask for more), so even inside one a statement sees what
  others committed since the previous statement.
* **Guards are repeated in WHERE clauses.** Most handlers protect themselves with
  an `updateMany` whose WHERE repeats what they checked and whose count tells
  whether the row still was as it was read. Some writes repeat nothing.
* **Calls to the outside are not undone.** A LINE push or an email goes out before
  or after a database write, never with it; the process may stop between them.

### Inventory

| Component (under `src/apps/api/src`) | State it keeps | Operations | Hard behaviour | What makes it correct |
|---|---|---|---|---|
| Expenses, claims, petty cash (`billing/billing.service.ts`, `petty-cash.service.ts`) | `Expense.status`, `claimId`, `paidFromAdvanceId`; `ExpenseClaim.status`; `PettyCashFund.balance` | record, submit, decide one, decide a claim, deduct | two handlers write `Expense.status`; approvals race for one fund | lines follow their claim; money leaves the fund once per approval; a claim is decided once |
| Cash advances (`cash-advance.service.ts`) | `amount`, `remaining`, `returnedAmount`, `settledAt` | issue, consume, return, settle, reconcile | balances are overwritten with values computed from a read | the report agrees with the expenses; a settled advance is empty for good |
| Recorded work and invoicing (`billing.service.ts`, `unbilled.ts`) | `TimeEntry`, `Expense.billable / writtenOffAt / invoiceId`, `Invoice` | edit, delete, write off, undo, flip billable, create invoice | billing races with edits, write-offs and other bills | work is billed once, and not both billed and waived |
| Division among payers (`allocate`) | none | split a total by shares | rounding | parts add up and are near the exact shares |
| Payments and discounts (`collections.service.ts`, `setInvoiceDiscount`) | `Invoice.status / totalAmount`, `InvoicePayment` | discount, send, record payment | concurrent payments, retries with a request key | status follows payments; a retry is not a second payment |
| Debt follow-up (`collections.service.ts`) | `lastReminderAt`, follow-up columns, `updatedAt` | remind over LINE, edit the follow-up | partial failure of the pushes, crashes, stale forms | throttle, no lost edit |
| Tasks and review (`tasks/tasks.service.ts`) | `Task.status / assigneeId / reviewerId`, holds, logs | create, update, hand off, accept, reject, send back, reassign, hold | an unguarded generic update beside guarded transitions; completion side effects | reviewed tasks are approved by another person; completion happens once |
| Workflows (`workflows/`) | workflow runs and steps | start, complete step | advanced by task completion | steps complete in order and once |
| Document review, publication (`document-review/`, `documents/`) | rounds, decisions, version status; publications | open a round, decide, publish, unpublish | several statements without a transaction, each of which may be the last; old pages | a version is approved only by its rule; a unanimous outcome stands; a decided round is closed; one open publication |
| Intake and case opening (`intake/`, `cases/`) | `Intake.status`, `Case` | convert, attach, number | double press, retry | one case per intake |
| Subscription (`saas/subscription.service.ts`) | firm plan, status, period end, billing invoices | webhook, prepaid, seats | retries, reordering, two sessions | converges on Stripe's state; no paid day lost |
| Invitations and sessions (`saas/`) | invitations, members | invite, accept | seat limit under concurrency | never more members than seats |
| Outlook calendar sync (`outlook-integration/calendar/`) | `CalendarEventOutlookCopy`, `CalendarEventOutlookChange`, connections | sync one event, reconcile, poll inbound, settings, disconnect | Graph failures, edits during a write, a lock that not everybody takes, restarts | a copy catches up; a claimed version was written; only the owner's moves come back |
| Appointments and deadlines (`calendar/`, `intelligence/date-suggestions.service.ts`) | `CalendarEvent`, `DateSuggestion`, `ReminderLog` | edit, accept, reschedule, confirm, trigger | old screens, a preview that is applied later | a deadline follows its hearing; what was reviewed is what is applied |
| Reminders, escalation (`notifications/`) | `ReminderLog` | remind daily, escalate | crash between send and log, overlap | a reminder per date |
| Leave (`leave/`) | `LeaveRequest`, `LeaveNoticeLog` | request, decide, cancel, notify, retry | leases, lost answers, a job that repeats what a request is doing | one notice, a verdict that stands, a sick leave announced |
| Mail (`outlook-integration/`, `closing-email/`) | send logs | send, subscribe | crash between send and log | at most, or at least, one mail |
| Paper files (`paper-files/`) | holder and place of a file | check out, return, move | unguarded check-out | one holder; the log agrees |
| Everything else | | | | see "Not modelled" |

The components meet in the rows they share. Expenses are decided by claims and
billed by invoices; an advance pays for an expense in the transaction that
creates it; an invoice made by `createInvoice` is then paid and chased; closing a
task advances a workflow; a calendar event that is moved carries the deadline derived
from it along, clears its reminders, and is written to Outlook, from where a move by its
owner comes back. Notifications are sent by nearly all of them.

## The modules

Each handler that reads and writes in separate statements is two actions, a
`Read...` that keeps what it saw in `req[r]` (`txn[r]` in `CashAdvance`, `reminder[r]` in
`DebtFollowUp`), the local state of request `r`, and a `Commit...` that is its transaction; `Conflict` or `Abort` is the roll-back. In
`DocumentReview`, whose handlers have no transaction, each statement is an action. A
handler whose one guarded write repeats all its checks is one action.

| Module | Models | State |
|---|---|---|
| `ExpenseClaims` | `createExpense`, `createStandaloneExpense`, `updateExpenseStatus`, `createClaimFromExpenses`, `updateExpenseClaimStatus`, `deduct` | one variable per column; `req`; history of what was debited and submitted |
| `AdvanceLedger` | what an advance promises, with atomic steps | abstract |
| `CashAdvance` | `issue`, `consume`, `recordReturn`, `settle`, `reconciliation` | the row of each advance, the expenses recorded against it, `txn` |
| `SplitAllocation` | `allocate`, `round2` | operators only |
| `WorkBilling` | time entries, write-offs, `setExpenseBillable`, `createInvoice` (uses `SplitAllocation`) | one variable per column of a piece of work; invoices; `req` |
| `Collections` | what `createInvoice` leaves behind, for one payer or as a share of a split bill; `setInvoiceDiscount`, `markSent`, `recordPayment` | invoices and payment rows; the last answer |
| `DebtFollowUp` | `sendReminder`, `setFollowUp` for one invoice | the row, open forms, reminders in flight, history of pushes |
| `TaskReview` | `create`, `update`, `handoff`, `accept`, `reject`, `reassign`, `completeWorkflowStep`, `onTaskCompleted` for one recurring task of a case | the row, the number of next occurrences, `req`, history of hand-ins and decisions, and of a creation as DONE |
| `CalendarSync` | `syncEvent`, `doSync`, `reconcileAll`, `removeAllForConnection`, `pollConnection`, `keep`, `restoreMyCopy`, settings and disconnect, for one event and one person | the event, the mailboxes, the row of the copy, everything ever created in Outlook, the proposal, the local variables of the sync, the poll, the cleanup and a `keep` request; history of the Outlook events that the code lost track of (`lost`) |
| `LeaveNotices` | `create`, `decide`, `cancel`, `sendSick`, `sendOnce`, and the part of `sendNotices` that repeats a sick leave, for one leave request | the request, one notification row per recipient and text, what each sender is doing, the deliveries |
| `AppointmentDates` | `applyTrigger`, confirming a suggestion, editing, accepting, `previewReschedule` / `reschedule`, the reminder job, for one hearing and its deadline | the two event rows with their versions, the suggestion, the screens, the handlers' local variables, the reminder log |
| `DocumentReview` | `uploadNewVersion`, `createReviewRound`, `recordDecision`, for one document | the versions' statuses, the rounds and decisions, what each request in flight does next |

`MC<Module>` instantiates a module for TLC. `ExpenseProofs` holds the theorems about
`ExpenseClaims` and `CashAdvance`, `BillingProofs` those about `SplitAllocation`,
`WorkBilling`, `Collections` and `DebtFollowUp`, and `<Module>Proofs` those about each of
the others. `FiniteSums` proves what sums over finite sets obey. `Nullable` declares the
null of the database, which three modules share. Modules that are proved about together
have names that say whose `Init` or `TypeOK` they define: `AdvanceInit`, `PaymentsTypeOK`,
`ChaseSpec`.
`WorkBilling` sees the decisions of `ExpenseClaims` as `DecideExpense`, and
`Collections` starts from the invoices that `WorkBilling` made: `CreateInvoice` with its
discount, `CreateSplitInvoice` with whatever amount `SplitAllocation` gave the payer, which
may be negative.

Operators named `X_Something` and marked *Fault* are plausible bugs of the
definition `X` before which they stand. They are not part of the specification:
they show, property by property, that the property would notice that bug.

### Choices worth knowing

* Who may call a handler is left out, except in `TaskReview`, where the rules are
  about who works and who reviews: there every check on the caller's role, on the
  lead and on the assignee is a guard. Access to the case itself is still assumed.
* An update of a task may mention any of its columns; `Edits` are the bodies that
  the instance uses. Attachments, routines and blockers, which can only refuse a
  hand-in, are left out of `TaskReview`.
* Money is in whole satang, as the DTOs allow two decimals and the balances of advances
  are rounded to two. Fractions of a satang arise in one place, hours times rate, so
  `WorkBilling` counts prices and discounts in units of which `UnitsPerSatang` make a
  satang, and what a payer owes is rounded from them. Floating-point error is left out
  everywhere.
* Sums over rows are `SumFunction` of the community modules, as in the code a `reduce`.
* The petty-cash fund is one firm's. `getBalance` creates it with a constant
  balance on first use; the model starts with it.
* A transaction is one step. This is sound here because its writes either re-test
  their rows or do not depend on them, and an updated row stays locked until the
  commit. `CashAdvance`, whose handlers read inside their transactions, keeps the
  read apart all the same.
* In `DebtFollowUp` every push is a step of its own that may fail, and `Crash`
  loses the reminders in flight. Time is a counter; `Throttle` stands for 24 hours.

## The runs

All passing runs end with no error. States are the distinct states TLC found.

| Run | States | Shows |
|---|---|---|
| `expense_claims` | 397,763 | `ClaimLinesAgree`, `ReimbursedLinesWereDebited`, `DebitedAloneOnce`, `FundAccounted`, `ClaimDecidedOnce` under two requests that race in all ways |
| `cash_advance` | 26,580 | `ReportAgreesWithExpenses`, and that `CashAdvance` implements `AdvanceLedger` |
| `work_billing` | 625,222 | `WorkIsBilledOnce`, `BilledWorkIsNotWaived`, `BilledWorkIsFrozen`, `PayersOweTheLines`; and, over every total of such a bill with up to 7 units of typed lines (4 units to the satang), 2 to 4 payers and shares 0 to 3, `DivisionIsExactAndFair`: the parts add up to the rounded total and each is near its exact share |
| `collections` | 33,766 | `StatusFollowsPayments`, `KeyNamesOnePayment`, `RetryIsAnswered`, `SentTotalIsFrozen` |
| `debt_follow_up` | 1,462,783 | `RecordedReminderWasDelivered`, `NoFollowUpIsLost`, with crashes and failing pushes |
| `task_review` | 1,331,753 | `DatesFollowStatus`, `HandInsDecidedOnce`, `ReviewedWorkWasAccepted`, `RecursOnce`: two requests of a lead, an owner, a lawyer and a freelancer, with a stop of the process |
| `calendar_sync` | 833,170 | `ClaimedVersionsWereWritten`, `OnlyOwnersMovesAreTaken`, and the liveness property `CopyCatchesUp`, with failing calls, unanswered calls, crashes and unannounced edits |
| `leave_notices` | 148,840 | `ClaimsAreLostOnlyByLapse`, `NoticeIsNotRepeated`, `AnnouncedVerdictStands`, and the liveness property `SickLeaveIsAnnounced`: requests and runs of the job that overlap, failing pushes, deliveries that are not recorded, lapsing leases, stops |
| `appointment_dates` | 1,795,162 | `AcceptedDateIsTheCurrentOne`, `DeadlinesFollowTheHearing`, `ReviewedDatesOnly`: two lawyers with old screens |
| `document_review` | 1,901,596 | `ApprovalIsEarned`, `DecidedRoundIsClosed`, `UnanimousOutcomeStands`: uploads, rounds and decisions overlap statement by statement, and a request may break off anywhere |

Two runs each check one statement that the repository makes and the code does not
keep. TLC's counterexamples are short and are described under `findings` in
`PROJECT.json`:

| Run | What the repository says | What happens |
|---|---|---|
| `forgotten_copy` (`NoCopyIsForgotten`) | a copy whose deletion failed keeps its row, so that a later run retries | the same sync goes on, writes the copy in another mailbox and takes the row over; nobody knows the old copy any more |
| `stale_decision` (`StaleDecisionIsRejected`) | a decision on a version is rejected once a newer one was uploaded | the decision is compared with the round's own version, which no upload changes; the old version becomes APPROVED beside the newer draft |

More disagreements were met and have no run of their own. Where a property of a module
is named, the module states it after the properties that hold:

* An item on a claim "cannot be claimed again"; two submissions that read one draft both
  take it, and the second moves it off the first claim, which may be left empty and can
  then not be decided (`LineStaysOnItsClaim` of `ExpenseClaims`).
* An expense paid from an advance "never enters a claim"; PAID is set back to DRAFT and
  then submitted (`AdvanceExpenseIsNeverClaimed`).
* A draft must be submitted before it is approved, or the deduction is skipped; DRAFT,
  REJECTED, APPROVED has no deduction (`ApprovedWasSubmitted`).
* Prices of a bill are those in the database; an edit between the read and the
  transaction is not seen (`LinesHaveRecordedPrices` of `WorkBilling`).
* There is no reminder of a debt within 24 hours of the last; two that overlap both go
  out (`RemindedOncePerWindow` of `DebtFollowUp`).
* The DTO comment says that an omitted expense status means `PENDING`
  (`billing.dto.ts:131`); `createExpense` and `createStandaloneExpense` make it a `DRAFT`.
* `setExpenseBillable` says that a billed expense cannot be changed
  (`billing.service.ts:657`); it writes without testing that again.
* `allocate` says that the invoices of a split add up to the total exactly (line 1222);
  they add up to the total rounded to satang, which is what `DivisionIsExactAndFair`
  says, and hours times rate, with two decimals each, need not be whole satang.
* The last payer of a split absorbs what the others' rounding leaves, so one whose share is
  next to nothing can be billed less than nothing: 101 satang divided 50 / 50 / 0, which
  the DTO allows (`billing.dto.ts:249`), comes to 51, 51 and -1. `TypeOK` of `WorkBilling`
  therefore speaks of the bill and not of each payer, and `PaymentsTypeOK` of
  `Collections` says that a discount never takes a total below zero, not that no total is
  negative. Such an invoice can be sent, and takes no payment.
* `schema.prisma:1853` says that the sync never makes a copy again that its owner
  deleted; a sync that meets the 404 before the poll has reported the deletion makes it
  again (`outlook-calendar-sync.service.ts:157`, the second case of `WriteCopy`).
* A call to Graph that overlaps a disconnect fails to refresh the wiped token, and
  `markError` turns the REVOKED connection into an EXPIRED one (`Break`).
* `removeAllForConnection` deletes copies outside the per-event lock, and Graph is called
  before the row is written, so a copy can be lost for good:
  * the cleanup deletes the Outlook event, a sync that is writing meets the 404, makes a new
    event and records it in the row, and the cleanup then drops that row by its id: the new
    event stays in the calendar and nobody knows it (`CleanupDropsRow`);
  * the cleanup deletes the Outlook event between the sync's write and its record
    (`CleanupDeletes`), a deletion is carried out and not answered, or the process stops
    after the answer (`DeleteOldCopy`, `Crash`): the row goes on to claim a copy that the
    system itself withdrew. If the person wants the copy again before the row is dropped, it
    looks up to date, and only an edit brings the copy back;
  * the poll marks as removed a row that a sync has meanwhile given a new event
    (`PollMarksRemoved`), or a sync records a new event in a row that was marked meanwhile
    (`RecordCopy`): the new copy is not updated any more;
  * the upsert takes over a row of another mailbox (`RecordCopy`; see `forgotten_copy`), and
    the copies of a revoked mailbox are given up (`deleteCopy`, `reconcile`).

  Only in the cases that end in a stale row can the reconciler repair anything. The history
  variable `lost` collects these Outlook events, and `CopyCatchesUp` excuses them alone.
* `keep` closes the proposal and marks the copy in two updates (`outlook-changes.service.ts:57`
  and `:61`). After a stop in between the proposal is gone and the copy still shows the
  owner's time: nothing writes it again before the event is edited (`MarkKeptCopy`).
* `create` takes a recurring task that is already DONE and leaves `onTaskCompleted` out
  (`tasks.service.ts:597`), though a task that is completed is to have its next occurrence:
  the series ends there, unless the task is taken up and completed again. `RecursOnce`
  excuses it by name (`createdDone`).
* A notice that LINE took and whose `sentAt` cannot be written gives up its claim
  (`leave.service.ts:259` and `:262`), and the next run of the job sends it again
  (`MarkFails`; counted among the excuses of `NoticeIsNotRepeated`).
* `applyTrigger` derives a deadline from the hearing date that its caller read. If the
  hearing is moved first, the suggestion is for the old date and nothing moves it
  (`calendar.service.ts:319`); `DeadlinesFollowTheHearing` excuses that case by name.
* After a move "they must fire again", say the comments on the reminders
  (`outlook-calendar-inbound.service.ts:120`). The job that had read the old date logs its
  reminder after the move has cleared the log, and the new date is not reminded
  (`MovedEventIsRemindedAgain` of `AppointmentDates`).
* A version that has passed its review has to be followed by a new one if anything is to be
  changed (the message at `document-review.service.ts:85`). Two rounds of one version that
  are open at once, or the second statement of a round that is being opened, turn APPROVED
  back into RETURNED_FOR_CHANGES or WAITING_REVIEW, and so do two decisions on an ANY_ONE
  round (`ApprovedVersionIsFinal` of `DocumentReview`).
* A request that breaks off between recording the last decision and closing the round leaves
  it waiting for ever: the reviewer's retry finds the decision and returns
  (`document-review.service.ts:154`). `DecidedRoundIsClosed` excuses exactly this by name.
* An upload that breaks off between creating the version and pointing the document at it
  blocks every later upload: `document.version` stays behind, and the same number is refused
  by the unique index. Two overlapping uploads store their files under the same key.
* "Published means visible" (`document-publication.service.ts:73`): a publication writes
  the switch last, so an unpublish that overlaps it leaves a document visible that has no
  open publication, and two that overlap leave two open publications.
* The job repeats the announcement of a sick leave only (`leave.service.ts:320-324`). The
  notices of a request, of a verdict and of a cancellation are tried once, by the request
  itself; one whose push fails is never sent.

In `TaskReview` they all come from the general `update`, which checks the task it
read and writes by id. Its refusal to touch a task that waits for review
(`tasks.service.ts:737`) is not repeated by the write, so a hand-in that happens
in between is overwritten: the task is TODO again and the reviewer finds nothing
to decide. A task can be DONE without `completedAt` (`schema.prisma` says that it is
set on the transition to DONE) when an update that read DONE writes DONE again
after somebody took the task up. A task can be DONE, need a review and never have
been accepted when one update closes it while another introduces the review:
`ReviewedWorkWasAccepted` is therefore about unchanged terms. Worker and reviewer
can be the same person when an update names the reviewer while `reassign` names
the worker.

### Bounds

* `Requests`: two in flight. Every hazard in the list is a race of two handlers;
  a third could only repeat what one of the two does. Requests that have ended
  are replaced by new ones without limit.
* `ExpenseClaims`: two expenses, of 1 and 2 baht, so that the sum of a claim tells
  which lines it has; two claims; a fund of 4, which covers some of the approvals
  and not all. A submission starts only while a claim row is left for it.
* `CashAdvance`: two advances and amounts 1 to 3, so that two spends can both fit
  a balance and together exceed it.
* `WorkBilling`: two time entries, one expense, two invoices; prices of 4 and 6 units, a
  satang and a satang and a half, so that a bill can end in a fraction; one payer, or two
  with equal shares and a third whose share is nothing, among whom an odd number of
  satang has to be placed; discounts that do and do not fit.
* `Collections`: two invoices, one of which may be worth nothing, two keys, four
  payments, which is more than settles both invoices' first instalments; a share of a
  split bill that is worth less than nothing, and one that is not.
* `DebtFollowUp`: three updates of the row and one crash; two contacts, two owners.
  `MaxClock` is the throttle, so a second reminder is allowed exactly at its end.
* `TaskReview`: four users, one for each rule the handlers have (lead, owner, lawyer,
  freelancer); no hand-in starts after two, enough to be sent back, or completed,
  and handed in again; one stop; updates that change the status, the worker, the
  terms of review or status and terms together.
* `CalendarSync`: one mailbox, two times and three acts (edits, moves by the owner,
  settings, broken tokens, crashes), enough for a second edit or a crash to hit a sync
  and for the owner to move or delete the copy as well; all that the processes do is
  unbounded. Two mailboxes with two acts pass as well (112,903 states); `forgotten_copy`
  needs two mailboxes and one act.
* `LeaveNotices`: two senders, each a request or a run of the job, as often as they like;
  one colleague, who approves, and the applicant, so that each kind of notice has one
  recipient and rows of different notices, which share nothing, are not multiplied;
  three faults (stops, pushes slower than the lease, lost answers). Failed pushes and
  retries are unbounded. Two recipients of one notice are covered by the proofs.
* `AppointmentDates`: two dates, each the deadline of the other, two lawyers, one run of
  the reminder job, and four writes, looks or crashes. A second run of the job makes the instance too large; what two runs do
  to each other is the repeated reminder that is noted under `hazards`.
* `DocumentReview`: two rounds, of one version or of two, two reviewers, two requests in
  flight and two versions, so that a round can be about a superseded version; one request
  breaks off. `stale_decision` needs one round and no fault.
* Deadlock is not checked where the system comes to rest or a bound stops the model
  (`CashAdvance` once everything is settled, `DebtFollowUp`, `CalendarSync`,
  `LeaveNotices`, `AppointmentDates` and `DocumentReview` when nothing is left to do or
  their bounds are reached).

### Fairness

The billing, task and document handlers promise nothing that has to happen eventually, so their
modules state no fairness: a request that is never finished is a crashed one.

`CalendarSync` assumes weak fairness of the sync, of the cleanup and of the reconciler:
a started call is carried on with by the process that holds it, and `@Cron` starts the
reconciler every two minutes. A call to Graph may fail any number of times; strong
fairness of the successful write, and of the successful deletion, says that a mailbox
which is connected again and again answers some time. Nothing is assumed of people, of
the poll or of crashes, and the acts of people and the crashes are bounded, so "once
they come to rest" is part of `CopyCatchesUp`.

`LeaveNotices` assumes weak fairness of each sender's steps and of the announcing job,
weak fairness of the lapse of a lease (time goes on), and strong fairness of a delivered
push to each recipient: LINE may fail again and again, but not for ever.

## The proofs

TLAPS proves the theorems for any sets of expenses, claims, requests, advances, work,
invoices, payers, keys, users, edits, mailboxes, members and dates (finite where rows are
added up or counted), for any amounts and for any value of the bounds.

**`FiniteSums`** assumes nothing. The sums of the community modules are functions over
all subsets of a set, which take away one element at a time in an order nobody chose, and
an induction over sets cannot be given to the provers as a formula. So each lemma takes a
minimal counterexample among the subsets instead: the library's facts on well-founded
relations give one (`MinimalSubset`), and taking an element away from it leaves a smaller
one. `SumUnique` and `SumExists` say that there is one such function; from them follow what
the other proofs cite: any element may be taken away first (`SumRemove`), what an added or
a changed element does (`SumAdd`, `SumChange`), and sums of sums and of bounded values
(`SumCombined`, `SumBounded`, `SumOfZeros`).

**`ExpenseProofs`, the claims:** assumed are only the named assumptions of
`ExpenseClaims`: amounts are positive, the tables are finite, and the null value is not a
row or a status. None of the properties is inductive on its own. `IInv` adds:

* `ClaimReqSound`: what a request that decides a claim has read cannot have become
  wrong unnoticed. While the claim still has the status that was read, each of its
  lines is among those read. This holds because a submission always writes a new
  claim row, so that an existing claim only loses lines. It is why deducting a sum
  computed before the transaction is safe, and why `ReimbursedLinesWereDebited`
  holds although a line may be moved to another claim.
* `LinesHaveClaims`: a line's claim exists.
* `DebitedAloneIsGone`: an expense that was debited on its own is not PENDING on
  its own any more. Only createClaimFromExpenses makes an existing expense
  PENDING, and it puts it on a claim, where `updateExpenseStatus` cannot reach it.

`FundAccounted` is inductive with them: of all steps only an approval changes one of the
two sums. A claim that is approved was PENDING, so it was not in the first sum, and enters
it with exactly what was deducted (`ApprovalTakesTheTotal`); an expense that is debited on
its own changes one term of the second by its amount (`StatusTakesTheAmount`).

From `IInv`, each action preserving each conjunct, follow `TypeCorrect`,
`LinesAgree`, `Reimbursed`, `DebitedOnce`, `FundIsAccounted` and, for the action property,
`DecidedOnce`.

**`ExpenseProofs`, the advances:** assumed is that amounts are positive. `AdvanceIInv` adds to the type
invariant that money is conserved, that a settled advance is empty, and
`ReadingSound`: between a handler's read and its write the balance only goes down,
and while it still equals the one read, so does the returned amount. That is
exactly why comparing `remaining` alone in the WHERE clause is enough to protect
both columns. `AdvanceTypeCorrect`, `ReportAgrees` and `ImplementsLedger` follow; the
last is a step simulation from `CashAdvance` to `AdvanceLedger`, each commit to the
step of the ledger and everything else to a stutter.

**`TaskReviewProofs`** assumes only that the roles belong to users, that `Edits` are
bodies of an update, and that the null values are neither. `IInv` adds what a
request in flight still relies on when it writes:

* `UpdatesAreOrdinary`: an update never writes a status of the review.
* `ClosersMayClose`: while the terms of review are unchanged, an update or a step
  that will close the task without review closes one that needs none.
* `SeenDoneRan`: the next occurrence of a task that an update read as DONE exists,
  is about to be created, or was lost by a stop, or the task was created DONE. That is why
  the update may skip it.
* `TermsNameReviewer`: a task created to be reviewed names its reviewer, on which
  `completeWorkflowStep` depends.

`NewRequest` says how a step can change the requests, `TermsStep` how it can change
the terms, `RanStep` that a completion does not become undone; with them each
conjunct is preserved. `TypeCorrect`, `DatesFollow`, `DecidedOnce`, `Accepted` and
`Recurs` follow.

**`CalendarSyncProofs`** assumes that the number of mailboxes is a number and that there
is a time. `IInv` says what each process may rely on about the rows it read earlier:

* `CopiesAreBacked`: the row, and every copy of it that a process holds, names an event
  of Outlook in its own mailbox whose version is at least the one claimed.
* `JobHoldsItsReads`: the event the sync read is at least as new as everything in
  Outlook, because only the sync writes there and there is one at a time. It is why a
  write never makes a row claim more than Outlook shows.
* `PollHoldsItsReads`: the poll's copy was read before Graph's report and claims no more
  than the report shows. This is the order in which `pollConnection` reads, and the
  mutant `Shown_Now`, which reads the copy later, breaks it.
* `OursShowsItsVersion`: an Outlook event that its owner left alone shows the time of
  the version it carries.

That `lost` holds events of Outlook only is part of the type (`StepLost`).
`TypeCorrect`, `ClaimsAreTrue` and `OwnersMovesOnly` follow. The lemma `Grows` carries
what was read over a step; `OutlookSteps` says how a step can change Outlook.

**`LeaveNoticesProofs`** assumes that approvers are members, that the bound on faults is a
number and that the null value is not a claim. The strengthening is
`DeliveriesAreAllowed`: for each notice, the deliveries so far and the senders that are
still to deliver on a claim of their own together do not exceed one more than the
excuses (lapsed leases, lost answers, unrecorded deliveries), a claim that lapsed unsent
adding none. It counts a set of senders, and uses
the library's facts about finite sets. `HoldersHoldClaims`, `SendersTellTheVerdict` and
`RowsTellTheVerdict` relate what a sender is about to say to the row and to the request.
`TypeCorrect`, `ClaimsKept`, `NotRepeated` and `VerdictStands` follow.

**`AppointmentDatesProofs`** assumes the named assumptions of `AppointmentDates`. `IInv` adds
that what a screen shows is an older version of the row or the row itself
(`ScreensAreOld`), that a suggestion and its deadline are born once (`BornOnce`), that
a reschedule under way still holds the rows it compared, which it has locked
(`MovesAreCompared`), and that an acceptance is of an older version or of the date the
event has (`AcceptancesAreOld`). `TypeCorrect`, `AcceptedIsCurrent`, `DeadlinesFollow` and
`OnlyReviewedDates` follow.

**`BillingProofs`, the division:** for any number of units to a satang, `SplitIsExactAndFair`
says that any total, divided by any shares that add up to something, gives amounts that add
up to the total rounded to the satang, each within half a satang of its exact share but for
the last, which is within half a satang for each payer. `RoundedRatioError` bounds one
rounding. That the amounts add up is `TotalChange`, for only the last one is corrected. For
the error of the last, `Excess` measures by how much an amount is more than its share;
excesses add up (`ExcessesAddUp`), so the last one's is what the rounding of the whole and
of the others leave, each of which is bounded (`OthersExcess`, `LastExcess`).

**`BillingProofs`, recorded work:** assumed are the named assumptions of `WorkBilling`: the
tables are finite, time entries are not expenses, prices and discounts are natural
numbers, and shares that are divided by add up to something (which `allocate` tests). `IInv`
is the conjunction of the invariants of the run with `WorkIsPriced` (a row that exists has a
price of the list) and `DiscountsAreChecked` (what a request in flight will write off is at
most what its rows come to, and is for a single payer: the check was made at the read, and
what it was made of is kept). The step that matters is `createInvoice`'s: that the rows it
links were unbilled, live and not written off is known from its own guard (`InvoiceGuard`,
the counted `updateMany`), not from its read, which may be as old as it likes; that its
payers owe what the rows come to is `PayersOwe`, by the division. `TypeCorrect`,
`PayersOweLines`, `WorkBilledOnce`, `BilledWorkNotWaived`, `BilledWorkFrozen` follow, and
`DivisionFair`, the property that `MCWorkBilling` adds, for all values of its bounds.

**`BillingProofs`, payments:** assumed are the named assumptions of `Collections` (amounts
are natural numbers, shares of split bills are integers, the null value is not a key or a
status). `PaymentsIInv` adds `PaymentsFitInvoices`: the payment rows are finitely many and
numbered as they were made, so that a new one is new, and each is of an invoice that was
sent, so that a draft, whose total may still change, has none. A total that is less than
nothing is one that no discount has touched, and takes no payment. `PaymentIsNew` says that
a payment adds its amount to what its own invoice has received and to nothing else. `PaymentsTypeCorrect`,
`StatusFollows`, `KeysAreUnique`, `RetriesAreAnswered` and `SentTotalFrozen` follow.

**`BillingProofs`, debt follow-up:** assumed are the named assumptions of `DebtFollowUp`.
`ChaseIInv` adds `RemindersAreTold`, that a reminder in flight which counts as delivered has a
delivered message at its time, and `FormsAreOld`, that a form with the row's `updatedAt`
shows the row's follow-up: everything that changes the follow-up, and everything else
that writes the row, moves `updatedAt` on, which is why comparing it alone is enough.
`ChaseTypeCorrect`, `RecordedWasDelivered` and `NoFollowUpLost` follow.

**`DocumentReviewProofs`** assumes that the null value is not a row and that there are
finitely many reviewers, for the approvals are counted. `IInv` adds:

* `DecisionsAreByReviewers`: only the reviewers of a round have decided it. Together with
  the library's facts on cardinality it turns "as many approvals as reviewers" into "all
  reviewers approved".
* `DecidersAreReviewers`: a decision in flight is by a reviewer of an existing round.
* `OutcomesAreEarned`: a request that is about to close a round, or to settle its version,
  has an outcome that the recorded decisions earn. Decisions are never changed (the unique
  index), so it stays earned however long the request waits.
* `SomebodyCloses`: a round that is decided and waiting has a request that is about to
  count or to close it, unless such a request broke off. The approval that was recorded
  last counts all of them, which is why counting after recording, and not before, is right.

`TypeCorrect`, `ApprovalsAreEarned`, `DecidedRoundsAreClosed` and `OutcomesStand` follow;
the last because a round that all must approve cannot earn both outcomes.

The type invariants of `TaskReview`, `CalendarSync`, `LeaveNotices`, `AppointmentDates` and
`DocumentReview` are proved for all values of the constants and are not repeated as
invariants of the runs.

Every invariant and every action property of the passing runs is proved. Only
model-checked are the liveness properties `CopyCatchesUp` and `SickLeaveIsAnnounced`:
fairness is out of the prover's reach. The runs of the findings are counterexamples and
have nothing to prove.

## Plan

In order; a module's abstract specification is named after it.

1. *Done:* `ExpenseClaims`, `CashAdvance` (`AdvanceLedger`), `SplitAllocation`,
   `WorkBilling`, `Collections`, `DebtFollowUp`, `TaskReview`, `CalendarSync`,
   `LeaveNotices`, `AppointmentDates`, `DocumentReview`.
2. `Publication` (at most one open publication, visible if and only if there is one),
   beside `DocumentReview` and over the same versions.
3. `TaskHold` (a hold is started, chased and ended beside the review) and `Workflow`,
   composed with `TaskReview` through task completion.
4. `IntakeConversion` (one case per intake) and `Seats`.
5. `Subscription`: Stripe as an external process whose state moves on, webhooks
   duplicated and reordered. Property: the firm's columns converge.
6. `Billing`: `WorkBilling` and `Collections` composed over one set of invoices,
   and `ExpenseClaims` with the `APPROVED` and `PAID` statuses that billing reads.
7. Proofs for the modules above.

## Not modelled

Reports and worklists read and keep nothing. The clients show state and hold
none. Document intelligence, retrieval and the AI tray are calls to models whose
answers decide the outcome. The LINE bot is a conversation over the services
above. Receipt files, receipt numbers and other pure data are abstracted away
where their rows are modelled. Every other component is in the plan, and is listed
with its reason in `PROJECT.json`.

Within the modelled parts:

* `CalendarSync` is about one event and one person. Teams meetings, with the organizer's
  copy and its late withdrawal, are left out; the event lies in the future. There is no
  stop between a write to Outlook and the row that records it, for what follows depends
  on what Graph does with a repeated `transactionId`. The reconciler's pass is one step,
  and so are a token and the call it is for; what `deleteCopy` reads of a connection is a
  step before its call. The requests that remove copies come one at a time, and so do those
  that keep a proposal's time.
* `CopyCatchesUp` says that in the end Outlook shows the event's last version, or nothing if
  the person has no use for it, and that no reachable mailbox has an event the row does not
  name. It excuses, besides a copy that its owner deleted and a mailbox that waits to be
  connected again, the events in `lost`: each is put there at the step that loses it, and for
  one cause of those listed above. The causes are not wider than needed: with any one of the
  cleanup's and the poll's writes to a rewritten row, the upsert onto a marked row, the
  deletion of a copy that is being recorded, the unanswered and the broken-off deletion
  taken out, TLC finds `CopyCatchesUp` violated.
* `LeaveNotices` is about one request. The daily digests, the check for overlapping
  leaves and the inbox are left out, and the leave is not over before the last retry.
  `claimedAt`, by which a sender recognises its claim, is taken to be unique.
* `AppointmentDates` is about one hearing and one rule. The rule, the holidays, the types
  of the events and the status of the case do not change; two writes of a row have
  different `updatedAt`; a lawyer looks at one screen at a time; when a reminder falls
  due is left open.
* `DocumentReview` is about one document of a case. A round is taken to name each reviewer
  once: the DTO does not demand it, and a round that names one twice could never be
  approved by all. Editors, scopes, reasons and due dates decide nothing. Files are left
  out, and so is the publication of a version to the client.
