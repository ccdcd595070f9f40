# A model of the accounting back end

TLA+ modules, TLC configurations and TLAPS proofs kept beside the FastAPI and
SQLModel service in `src/`. They say what the service does to its database, its
object store and its queue, step by step, and what remains true whatever the
order of those steps. Paths below are relative to `src/`, and usually to
`src/app/modules/`.

## 1. The system

One process serves HTTP requests, another (arq) runs jobs. Both use one
PostgreSQL database at READ COMMITTED, with a session per request or job
(`app/db/session.py`); no statement locks a row in advance. Redis holds the job
queue and the idempotency cache, S3 the uploaded files.

| component | state it keeps | operations that change it | what makes it correct |
|---|---|---|---|
| general ledger (`accounting_core/services.py`, `void.py`) | journal entries, their lines | post, void | entries balance, never change but to VOID; a VOID entry has its reversal |
| periods (`accounting_core/periods.py`) | accounting periods | close, reopen, close a year | nothing is posted into a closed period; its reports do not move |
| audit trail (`app/core/audit.py`) | audit events | recorded with each operation | tells exactly what was committed |
| reporting (`reporting/services.py`, `app/workers/report_worker.py`) | none | reads, prints CSV | trial balance balances, balance sheet ties out, rows add up to totals, voids cancel, clients stay apart |
| sales (`sales/services.py`) | invoices, lines | create an invoice | number, amounts, posting and link belong together |
| purchases (`purchases/services.py`) | vendors, bills | create vendor, create bill, pay bill | accounts payable is what is owed; a bill is paid once |
| banking (`banking/router.py`) | bank transactions, vendor rules | import, approve | every approval posts its amount; one rule per pattern |
| import worker (`app/workers/import_worker.py`, `ai/services.py`) | – | inserts a statement | whole or not at all |
| files (`files/router.py`, `app/workers/scan_worker.py`) | rows, objects in S3 | upload, scan | readable only when clean, never lost |
| idempotency (`app/middleware/idempotency.py`) | answers by key, in Redis | every POST | a retry replays, it does not repeat |
| auth and seeding (`auth/router.py`, `app/dependencies.py`, `accounting_core/seed.py`) | users, workspaces, members, accounts; tokens at the clients | register, log in | a workspace is complete or absent; a token admits to no more than its holder's clients |

How they interact: sales, purchases and banking call `post_journal_entry` inside
their own session. That call **commits**, and the handler then writes its link,
status, rule and audit event in a **second** commit. A void does the same with
its reversal and the status of the original. So almost every operation has a
window in which one half is durable and the other is not, and in which every
other request can run. Reports read one committed state. The import worker and
the approvals meet in the vendor rules. The middleware wraps every POST.
Registration is the exception: one transaction with a single commit, whose
inserts meet those of other registrations only in the unique index on e-mail
addresses. Its tokens are read again by every other request.

Where it is hard: check-then-act over an `await` (period, status, `is_paid`,
existing rule, invoice number, e-mail address, idempotency key); a process that stops between
two commits; jobs delivered more than once; three stores without a common
transaction; tokens that outlive what they were issued from; columns written only when they differ from a stale read; rounding
that is applied to a sum in one place and to its terms in another. PROJECT.json
lists each at its line under `hazards`.

## 2. The modules

| module | models |
|---|---|
| `Books` | lines, balance test, `Numeric(18, 2)`, mirrored lines; pure operators |
| `Journal` | abstract: an append-only journal whose entries only ever become VOID |
| `Ledger` | post, void and the period operations, each in its steps, with crashes |
| `Reports` | the three reports with their rows and totals, and their export, as functions of the entries |
| `LedgerProperties` | the properties of the three above, and the refinement of `Journal` |
| `BooksProofs` | lemmas about the operators of `Books`: sums, stored and mirrored lines |
| `LedgerProofs`, `LedgerReportsProofs`, `LedgerSerialProofs` | theorems about `Ledger`; about its trail, owners and reports; about calls that do not overlap |
| `Documents` | what handlers that post on behalf of a document share |
| `Bills`, `Invoices`, `ReviewQueue` | purchases; sales; import worker and approval |
| `Workspace` | the three composed over one ledger |
| `WorkspaceProperties` | its properties |
| `WorkspaceProofs`, `WorkspaceSerialProofs` | theorems about documents and their entries; about calls that do not overlap |
| `Idempotency`, `Uploads` | the middleware; the upload handler inside it and the scan worker |
| `UploadsProperties`, `UploadsProofs` | their properties; theorems about them |
| `Onboarding` | abstract: clients that appear whole, under addresses of their own |
| `Registration` | register, login, and what a token admits to |
| `RegistrationProperties`, `RegistrationProofs` | its properties, and the refinement of `Onboarding`; theorems about them |
| `MCLedger`, `MCWorkspace`, `MCUploads`, `MCRegistration` | small constants for TLC |

**Steps.** A step is the code between two points where another session can be
seen or can see: a query that reads shared rows, or a commit. Inserts that are
flushed but not committed are invisible and belong to the step of their commit.
`pc[r]` says which point call `r` has reached; what the call holds in Python
variables is in `draft`, `loaded`, `posted` (`Ledger`) or `task` (`Documents`).
A request runs one operation, once. `Crash` and `Stop` lose what is local and not
committed, keep what is.

**Amounts** are integers, in fifths of a cent: fine enough to tell an amount from
its rounded value, and never halfway between two cents, so `round` and `numeric`
agree. `Numeric2` is what a column returns for what was written. **Quantities** of
invoices need not be whole: they are integers in fifths of a hundredth of a piece
(`Piece` of them are one), so that `Numeric2` is also what `invoice_lines` keeps of
one; tax rates are in hundredths of a percent. The amount of a line is computed
from what was sent (`LineAmount`), the row keeps quantity and price rounded each
by itself (`Kept`).

**Periods.** Nothing keeps periods disjoint and `ensure_period_open` takes the
first row of an unordered query: `PeriodReads` is the set of possible answers. A
day is `Shut` when every period that covers it is closed. Where an open period
overlaps a closed one the query may find either, so the properties of closed
periods are about days that are shut; `MCLedger` has two periods that overlap.

**PeriodKeywords.** `void_journal_entry` passes `entry_date=` to a function whose
parameter is `posting_date` (`void.py:93`, `periods.py:25`). With
`{"entry_date"}` the model does what the source does: every void ends in a server
error, and nothing behind that line runs. With `"posting_date"` in the set it
does what the rest of the function, its tests and its comments are about. The
passing runs allow either at every void, so that what they show holds for the
source as it is and for the source with that keyword corrected; the theorems
hold for every choice.

**The ledger in `Documents`.** A posting there commits or is refused and the step
of its period check is left out, because the answer only decides between the two
and `Ledger` has the race. The balance test and the stored precision are the
ones of `Books`.

**Open bills.** `OpenBills` are bills on record, posted and linked, with their
vendor, before the first call: two calls are then enough for two payments of one
bill.

**The cache key.** `TenantMiddleware` is the outer of the two and has stored the
workspace of the request when the other runs, but that one looks in the
`__dict__` of a Starlette `State`, which keeps its attributes one dict further
down. `Tenant` is therefore the default for every request; rows carry the
workspace the handler is called for.

**Registration.** `session[r]` is what call `r` has inserted and not committed.
Only `IndexFree` looks at another's session, as the unique index does: an INSERT
waits for an uncommitted row with its value. An id is the call that made it, an
account's id its workspace and code. `Onboarding` is refined with a mapping that
reads a client off all committed tables, so a row that is missing, doubled or
committed too early shows. A client is there what `register` inserts; tax rates,
which `seed.py:1-10` promises too, are not inserted by it and not part of `Whole`.
`TooLong` are addresses that `users.email`, a `String(255)`, does not take and
`RegisterRequest` does not refuse: their flush fails, as that of an address does
which someone has committed since the check. `SetMember` stands for the invitations and role
changes that the role checks and the tests expect and no route offers yet; it
only writes rows that the unique constraint on members allows.

**The row lock** in `ReviewQueue`. The query for an existing rule makes SQLAlchemy
flush the transaction's UPDATE first, so the call holds the row until it commits
and another approval of the same transaction waits. That is why two approvals of
*one* transaction never add two rules, while two transactions with one
description can.

**The import's dict.** `_load_vendor_rules` reads the rules in no order into a
dict, which keeps the place of the first of two equal patterns and the account of
the last. `LoadRules` picks the order, `RuleMatch` does the rest.

**Slips.** Next to some definitions stands a variant with a mistake in it, marked
as a slip: a dropped test, an order exchanged, an id off. They are used by
nothing in the model. Each shows that a property is able to fail: with the slip
in place of the definition TLC finds the property violated, in the run that
checks it. PROJECT.json pairs them under `mutants`.

## 3. The runs

| run | specification | bounds | result |
|---|---|---|---|
| `ledger` | `FairSpec` | 3 calls, 1 workspace, 2 days, 1 period on the first, 5 submissions | holds |
| `ledger_serial` | `SerialSpec` | 4 calls, 2 workspaces, 2 days, 3 periods of which two overlap, 2 years | holds |
| `ledger_void_as_written` | `Spec` | 3 calls | violated |
| `ledger_fractions` | `SerialSpec` | 3 calls, fractional amounts | violated |
| `workspace` | `FairSpec` | 2 calls of any kind, 1 open bill, 2 bill amounts, 5 kinds of invoice, 1 statement of 2 rows, 2 deliveries | holds |
| `workspace_serial` | `SerialSpec` | 3 calls of any kind, 1 open bill, 1 statement of 2 rows, 2 deliveries | holds |
| `double_payment` | `Spec` | 2 calls, 1 open bill | violated |
| `off_queue` | `SerialSpec` | 2 calls, 2 statements of 1 row | violated |
| `uploads` | `FairSpec` | 2 requests with one key, 1 harmless file, 2 deliveries | holds |
| `double_submit` | `Spec` | 3 requests, 2 with one key, no expiry | violated |
| `tenant_replay` | `Spec` | 3 requests, 2 with one key from two workspaces | violated |
| `registration` | `FairSpec` | 3 calls, 3 addresses of which one is too long, a chart of 2 accounts, 2 changes of members | holds |

`ledger`: every property that the code keeps although calls overlap and stop.
Three calls are enough for an entry, its void, and a second void or a period
change in between; five submissions contain an unbalanced one, one without
lines, one that names no account. `AuditTellsLedger` relates the whole trail to
the whole ledger; `BooksTieOut` draws up every report, and the CSV of every
report, for every day in every state; `MarkingVoidKeepsReports` says that only a
reversal changes a report, as `reporting/services.py:5-14` has it and
`void.py:4-6` has not (see below).

`ledger_serial`: what the code keeps when one call ends before the next begins,
which is how the repository's tests drive it. Four calls reach a posting, a
closing, a reopening and another posting; two workspaces make a missing filter
visible, two overlapping periods an answer taken from the wrong one. Requests
are interchangeable, so symmetry is used; the run has no liveness property.
`NoPostingIntoClosedPeriod` and `ClosedPeriodIsFrozen` do not survive
overlapping calls: a period closed between the check of a posting and its commit
receives the posting, against `periods.py:3`. Nor does `NoDoubleReversal`: two
voids that overlap both find the entry POSTED.

`workspace`: what overlapping calls leave true. Two calls contain two payments of
one bill, two invoices of one year, two approvals of one transaction or of two
with patterns of which one contains the other, each beside an import that is
delivered again before or after its commit and reads the rules learned
meanwhile. Inputs include tax, a quantity with a fraction that its column does
not keep, an unknown rate, an invoice without lines, and a
credit whose negative tax is refused. `InvoicesTieOut` relates receivables and GST
payable to what was *sent* for the invoices on record: there are lines for each
of them of which its rows are what the columns keep, and to all of which the two
accounts come. `AuditTellsDocuments` relates every event
to the row it tells of; `OffQueueIsExplained` says that the import leaves a
transaction out of the queue for no reason but a rule whose pattern it contains,
and that the rule is still on record; `ImportedWhole` counts, for every row of a
statement, the transactions that look like it: a whole number of imports, one
per delivery at most, and one at least when the queue takes the job for done.
`CallsEnd` is about the row lock, also when its holder stops.

`workspace_serial`: numbering, single payment, accounts payable, one rule per
pattern, and the account shown. Each fails when calls overlap: two invoices get
one number, two approvals of one description learn two rules (against
`banking/router.py:86-88`), and so on; `double_payment` shows one of them.

`uploads`: S3, database, queue and Redis with a stop, a failure or a redelivery
between any two calls.

`registration`: registrations that overlap, stop and run into one another's
address, logins beside them, and members that come or change roles while tokens
are in use. Three calls are enough for two registrations of one address and a
third of another or a login, so that one user can join another's client.
`OnboardingSpec` is the refinement; `ErrorIsTheAddress` says what a server error
of a registration may mean; `AdmittedIsListed` and `TrailNeedsRoleThere` are
about tokens that have gone stale.

The violations are disagreements between code and documentation; PROJECT.json
quotes both sides under `findings`:

* every void ends in a `TypeError` (`void.py:93`);
* fractions of a cent pass the balance test and are stored unbalanced;
* a bill is paid twice by overlapping calls;
* a transaction that a rule matches has no entry and is not in the review queue
  through which, the requirements say, every suggestion must go;
* a request and its overlapping retry are both carried out, because the
  middleware does GET and later SET where its docstring says SET NX;
* a request is answered with another workspace's response, because the cache key
  does not contain the tenant.

Disagreements that no run of the project is for:

* `void.py:4-6` says that the original is marked VOID "so reports stop counting
  it". Reports keep counting it: `_REPORTABLE_STATUSES` contains VOID
  (`reporting/services.py:40`), and the docstring there says why (5-14). If
  reports did what `void.py` says, the reversal alone would remain in them and a
  voided entry would show with its sign turned round. `MarkingVoidKeepsReports`
  states what reporting says, and TLC finds it violated by reports that leave
  VOID entries out.
* An invoice is posted from quantity and price as they were sent and stored with
  two places of each (`sales/services.py:104`, `sales/models.py:44-45`,
  `alembic/versions/0001_initial.py:178-179`). In the instance of `workspace` 2.004
  pieces at 10.00 are posted as 20.04 and stored as 2.00 at 10.00, so the stored lines
  come to 20.00 and whoever adds them up does not find what the ledger has. TLC
  finds the statement that they agree violated there, and not once the quantity is
  2.00. No document says that they agree, nor that quantities have two places.

Read, not checked:

* `GET /reports/balance-sheet` passes `as_of=` to a function whose parameter is
  `as_of_date` (`reporting/router.py:48`) and always fails.
* Tax rates are never seeded, though `accounting_core/seed.py:8-9` says
  registration calls both functions. No route creates customers or periods
  either, and an invoice must name a customer (`sales/models.py:21`): with
  foreign keys checked, none can be created through the interface alone.
* An entry without lines passes the balance test, is posted, and can never be
  voided, because `void.py:82-86` refuses it in a branch whose comment says it is
  not reachable.
* Two overlapping registrations of one address give the second a server error,
  where `auth/test_register_conflict.py:1-4` wants a conflict; the comment at
  `auth/router.py:31-39` accepts it. So does an address of more than 255
  characters, which nothing refuses before the insert.
* `get_active_workspace` says it makes a membership query
  (`app/dependencies.py:34-36`), and the comment in login that it re-checks the
  role (`auth/router.py:98-100`): it reads the token only. So a client joined
  after login is listed by the switcher and refused until the next login, and
  one left would still be admitted until the token expires.
* Nothing stops a second approval of an approved transaction
  (`banking/router.py:100`): it is posted again and links the newer entry.
* `explain_suggestion` looks for a rule with exactly the description
  (`ai/router.py:51-61`): it calls an approved rule miss a match of the rule that
  the approval itself has taught, and misses rules whose pattern is only part
  of the description.

**Deadlock** checking is off in every run: calls and jobs are finitely many, and
a behaviour ends when all are over. That no call waits for ever is `CallsEnd`.

**Fairness.** `WF` on the steps of a call that has begun: the event loop resumes a
handler whose query has been answered. None on beginning a call, on crashes,
failures and redeliveries, or on the import worker, about which nothing lasting
is claimed; in `Uploads` also on the steps of a scan that has been enqueued,
since arq polls its queue. In `Registration` on the steps of a call that has
begun; none on changes of members or the expiry of tokens.

## 4. What is proved

Every invariant and every action property that the passing runs check is also a
theorem of TLAPS, and so are both refinements. A run shows it for its small
constants, the theorem for all of them: any number of calls, workspaces,
accounts, entries, lines, documents, statements and deliveries. None assumes more of
the constants than the named assumptions of the modules, which give types
(`LedgerAssumption`, `ReportsAssumption`, `BillsAssumption`, `InvoicesAssumption`,
`BankAssumption`, `UploadsAssumption`, `RegistrationAssumption`) and tie the chart
of the reports to the accounts of the ledger (`ChartAssumption`), except where the
tables below name a hypothesis; why it is needed follows them.

Every proof has the same form: an inductive invariant, that the initial states
satisfy it, that every step preserves it, and that it implies the property. The
properties are not inductive by themselves. What has to be added is
mostly what a call *holds*: what it has read or written at the point it has
reached, and that no step of another call takes that away.

### The ledger (`LedgerProofs`, `LedgerReportsProofs`)

| theorem | statement |
|---|---|
| `TypeCorrect` | `Spec => []TypeOK` |
| `VoidsAreReversed` | `Spec => []VoidedIsReversed` |
| `UnfinishedVoidsAreKnown` | `Spec => []UnfinishedVoidIsKnown` |
| `LedgerImplementsJournal` | `Spec => JournalSpec` |
| `EntriesBalance` | `Spec => []StoredEntriesBalance`, if submissions that pass the test stay balanced when stored |
| `TrailIsTrue` | `Spec => []AuditTellsLedger` |
| `CallsKeepToTheirWorkspace` | `Spec => []OneOwnerPerCall`, which `ledger_serial` checks without overlapping calls |
| `VoidingKeepsReports`, `WorkspacesStayApart` | `Spec => MarkingVoidKeepsReports`, `Spec => ReportsStayApart` |
| `ReportsTieOut` | `Spec => []BooksTieOut`, under the hypothesis of `EntriesBalance` |
| `WholeCentsTieOut` | `EntriesBalance` and `ReportsTieOut`, if submissions are whole cents |

`TypeOK` is inductive only with what a call holds at each point: `TypeInv` adds
that a call about to commit holds an entry, and one about to write periods holds
rows of its own. `VoidedIsReversed` is not inductive by itself: the step that
marks the original has to know that the reversal which this very call posted is
still the mirror image of it. `VoidInv` therefore carries, from the read of the
original to the flip, that the draft mirrors the lines of an entry on record,
that from the commit on `posted[r]` is a reversal of it, and that what is stored
is whole cents, so that storing the mirrored lines again changes no amount
(`StoredMirror`) and mirroring twice is the identity (`MirrorTwice`). It is
preserved because entries are only appended and only their status changes. The
same invariant gives the refinement: `CommitPosting` is a `Record`,
`FlipOriginal` a `MarkVoid`, and every other step leaves the journal as it is.

`TrailInv` adds that an entry is posted by one call and that a void is told of
only when its call is done; `OwnerInv` that a reversal has the owner of its
original and that a call loads periods of one owner.

`EntriesBalance` has a hypothesis because the balance test alone does not give
the property, as `ledger_fractions` shows. The theorem adds what the code is
responsible for: an entry is stored exactly as accepted, a reversal balances
because its original does (`MirrorTotals`), and no interleaving brings anything
else into the ledger. `WholeCentsTieOut` discharges the hypothesis for callers
that send whole cents (`WholeCentsKept`). `ReportsTieOut` is about sums over all
lines of all entries, regrouped by account, by type and by section. `BooksProofs`
proves what that takes: that `SumFunction` exists on every finite set and does
not depend on the order in which it picks, that a sum splits over disjoint parts
(`SumAdd`), by key (`SumByKey`), and that a sum of pairs is a sum of sums
(`SumOfPairs`). An induction over finite sets is stated there with a *set* of
sets (`AllFiniteSets`), as the induction theorems of the library take an operator.

### Calls that do not overlap (`LedgerSerialProofs`)

| theorem | statement |
|---|---|
| `NothingIsReversedTwice` | `SerialSpec => []NoDoubleReversal` |
| `NothingPostedIntoClosedPeriods` | `SerialSpec => NoPostingIntoClosedPeriod` |
| `ClosedPeriodsAreFrozen` | `SerialSpec => ClosedPeriodIsFrozen` |
| `ClosedYearsAreClosed` | `SerialSpec => YearIsClosed` |

`SerialInv` says that one call runs at most and that what it has read is what the
tables say: the day it is about to post on is not shut, the periods it is about
to write are as it loaded them, the entry it is about to reverse is still POSTED
unless a call has stopped. Each part is false as soon as calls overlap, which is
where the races of section 3 come from.

### Documents (`WorkspaceProofs`)

| theorem | statement |
|---|---|
| `RowsKeepTheirShape` | `Spec => []TypeOK` |
| `DocumentsPointAtTheirEntries` | `Spec => []LinksAreRight` |
| `PaidBillsHavePayments` | `Spec => []PaidMeansPosted` |
| `TrailTellsDocuments` | `Spec => []AuditTellsDocuments` |
| `OffQueueHasAReason` | `Spec => []OffQueueIsExplained` |
| `StatementsAreImportedWhole` | `Spec => []ImportedWhole` |
| `InvoicesAgreeWithTheLedger` | `Spec => []InvoicesTieOut`, if `NoneByHand` |
| `StoredInvoicesAgree` | `Spec => []StoredTieOut`, if `NoneByHand` and `KeptAsSent` |

`Shapes` is the type invariant with `CallsOK`, what a call between its commits
knows of its document (the entry it is to link is on record and was posted for
that document, the payment it is to mark is of the bill's amount), and with
`BillsWhole`, that amounts of bills are whole cents. Every step is first turned into what it
does to the tables (`PostBillDoes`, `LinkBillDoes`, ...), the list `CallDoes`; the later proofs split on
that list. `LinksInv` adds that entries are only for documents on record
(`DocsKnown`), so that a new document has none, and that a document without
its link has a call which holds it. For the import, `LoadedRulesKnown` says that the
rules a worker has loaded are still in the table when it commits, since rules are only
added; `CountedRight` counts the imports of each job against its state and its
deliveries.

`InvoicesAgreeWithTheLedger` is about what was sent for the invoices and holds of
any quantities and prices; its proof extends, with every posting, the lines that
were sent for the earlier invoices by those of the new one (`TieOutPosting`).
`NoneByHand`: `approve_transaction` posts to whatever account it is given, and
one who approves a bank transaction to receivables moves them without an
invoice; TLC finds the property violated without it. `StoredInvoicesAgree` says
when the stored lines agree with the ledger as well: if, `KeptAsSent`, every
quantity is one of whole hundredths and every price one of whole cents. It needs
that: quantity and price are plain floats in the request and `Numeric(18, 2)` in
the table, while the entry is computed before they are rounded, so 0.332 pieces at
100.00 are posted as 33.20 and kept as 0.33 at 100.00, which is 33.00.

### Documents, calls that do not overlap (`WorkspaceSerialProofs`)

| theorem | statement |
|---|---|
| `NoPatternTwice` | `SerialSpec => []OneRulePerPattern` |
| `NumbersHaveNoGaps` | `SerialSpec => []NumbersAreSequential` |
| `WhatIsShownWasPosted` | `SerialSpec => []ShownAsPosted`, if `BankNotChosen` |
| `BillsArePaidOnce` | `SerialSpec => []PaidOnce` |
| `PayableIsWhatIsOpen` | `SerialSpec => []PayableIsOpenBills`, if `PayableNotChosen` |

One call runs at most (`OneRuns`), and the worker between its steps. The
invariants say that what it has read still is so: no rule for the pattern it is
to learn (`RulesInv`), the next number of the year free (`NumbersInv`), the
transaction as it was read, and its entry the one for it (`ShownInv`).
`PaidOnceInv` accounts for every payment: the bill is found open by the call about
to pay it, and of its payments one is what the bill says, or is about to be
marked, and each other is that of a call which has stopped. `OwedInv` follows
accounts payable through the two commits of a payment: it is what the open
bills come to, or short of that by the one bill whose payment is posted and not
yet marked. Both theorems about accounts have a hypothesis for the person who
approves a transaction to the bank's own account, or to accounts payable; TLC
finds the property violated without it.

### Uploads (`UploadsProofs`)

| theorem | statement |
|---|---|
| `UploadsTyped` | `Spec => []TypeOK` |
| `NothingInfectedIsRead` | `Spec => []ReadableIsClean` |
| `NothingInfectedIsKept` | `Spec => []InfectedIsGone` |
| `NothingHarmlessIsLost` | `Spec => []HarmlessIsKept` |
| `PendingHasAReason` | `Spec => []PendingIsExplained` |
| `AnswersAreRecorded` | `Spec => []ReplayedIsRecorded` |

`UploadsInv` ties the plan of a scan to what has been done to the object
(`JobsFollowPlans`): what is no longer in the plan has happened, and only then
is the row's status written. That is what makes the order copy, delete, commit
safe when the worker stops after any of them and the job is delivered again.
`RowsFollowRequests` gives a row to one request and a request one row;
`AnswersAreRows` says that what is kept under a key is the row of a request with
that key.

### Registration (`RegistrationProofs`)

| theorem | statement |
|---|---|
| `ErrorsAreExplained` | `Spec => []ErrorIsTheAddress` |
| `TokensAdmitMembers` | `Spec => []AdmittedIsListed` |
| `ViewersReadNoTrail` | `Spec => []TrailNeedsRoleThere` |
| `RegistrationImplementsOnboarding` | `Spec => OnboardingSpec` |

`RegistrationInv` says what a transaction holds at each point (`SessionsOK`), that the
committed tables hold the same clients, each with everything (`TablesOK`), that
an address is claimed by one call at most (`ClaimsOK`), and that a token lists
only workspaces in which its user is a member (`TokensOK`). In the refinement
`CommitRegistration` founds one whole client, `SetMember` regroups one, and
every other step changes nothing that is promised.

### Left to TLC

Liveness: `VoidCompletes`, `ScanSettles` and `CallsEnd` need fairness and so
`ENABLED`, which this prover does not have. And the properties that are violated.

## 5. What is not modelled, and why

Read-only routes, pagination, tracing, configuration: no state. The summary over
all clients makes two queries per workspace, each right in its own snapshot;
the listing of the audit trail orders by a time taken before the commit. Nothing
is promised about either. CSV parsing: only its failure matters to the state.
The model fallback of categorization is commented out in the source. Line amounts
and taxes of the instances never fall halfway between two cents, where Python's
rounding of a binary float would have to be modelled; the model rounds such an amount
up, and of a line amount the theorems use only that it is whole cents and the
same wherever it is computed from the same line. Of the failures of a
registration before its inserts, such as a password the hash function refuses,
nothing is modelled: they leave nothing behind. Reports are
sums of stored whole cents, which the rounding to two places leaves alone.
TOTP, telephone numbers, `is_active`, tax filings and `seed_tax_rates` are set,
called or read by nothing. Billing is a stub.

## 6. Plan

Built, in order: `Books`, `Ledger`, `Journal` and `Reports`; the first theorems;
`Documents` with `Bills`, `Invoices`, `ReviewQueue` and `Workspace`;
`Idempotency` and `Uploads`; `Onboarding` and `Registration`; the rows and the
export of `Reports`.

Then the theorems: of the ledger, the trail, the reports and the periods; of
uploads; of registration; of documents, first with calls that overlap and then
with calls that do not.

Next: a refinement that shows the posting of `Documents` to be one of `Journal`,
so that what is proved of the one ledger carries over to the other; the claim of
`find_rule`, `known` and `learn` that two approvals of one transaction never add
two rules, with calls that overlap.
