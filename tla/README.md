# Verification of the billing back end

TLA+ models, TLC model checking and TLAPS proofs for a NestJS + Prisma +
PostgreSQL back end that sells, invoices electronically (Factus, which talks to
the DIAN) and collects. The models are translated from the source; every
definition that models code is listed with its lines in `PROJECT.json`, "map".
Source paths below are relative to `src/src/`.

## 1. Inventory

Several Node processes (serverless or container instances) serve requests
against one PostgreSQL database. A request is a chain of awaited statements;
between two of them any other request may run, on this instance or another.
Interactive transactions (`$transaction(async tx => ...)`) run at the default
READ COMMITTED; the generators of numbers lock the row they count on, and
nothing else reads with a lock.

| Component | State | Operations | Interacts with |
|---|---|---|---|
| Emission (`invoices`, `factus`) | invoice row, `creditBalance` of other invoices, `resolution.next` | `emit`, `emitViaFactus`, `compensateWithCustomerCredit`, `refundCustomerCredit` | Factus by HTTP, ledger, resolutions |
| Invoice rules (`common/utils`) | none | `resolveInvoiceStatus`, `isOverdue`, `applyCreditToInvoice`, predicates | used by all services on invoices |
| Invoice ledger (`invoices`) | `status`, `paidAmount`, `balance`, `creditBalance` | `createDraft`, `findOne`, `findAll`, `syncOverdueStatus`, `cancel` | everything below |
| Notes (`invoices`) | note rows, position of the source invoice | `createNote`, `emitNote` | Factus, ledger |
| Payments (`payments`) | payment rows, ledger columns | `register` | ledger |
| Receivables (`accounts-receivable`) | `status` (marks overdue rows as it lists) | `list`, `getSummary`, statement | ledger |
| Delivery orders | order, deliveries, linked draft invoice | `registerDelivery`, `markFullyDelivered`, `syncInvoiceFromDeliveries`, `updateStatus` | ledger, purchase orders |
| Quotes, purchase orders | status machines, `document_sequences` | `create`, `updateStatus`, conversions to the next document, `nextDocumentNumber` | deliveries |
| Services | status, line, `ServiceInvoiceLink`, `invoice_next_number` | `create`, `update`, `updateStatus`, `invoiceFromService`, `allocateInvoiceNumber` | ledger, settings |
| Resolutions | `from`, `next`, `to`, `isActive` | `create`, `update`, `nextConsecutive`, `emitLocal` of invoices | emission |
| Factus client | pair of tokens, refresh in flight (memory of an instance) | `getAccessToken`, `forceRefresh`, `request`, downloads | emission, synchronisation |
| Synchronisation | `numbering_range_id`, `isSyncedToFactus` | `syncResolutionRange`, `syncCompany` | Factus, resolutions, settings |
| Customers, products, users, types of service, categories | rows with a key | `create`, `update`, `remove` | documents copy from them |
| Recurring services | category, subcategory, status | `create`, `update`, `updateStatus` | categories |
| Money of lines (`common/utils`, `factus-payload`) | none | line totals, sums, taxes, discount rates | every document, Factus |
| Listings | none | `findAll` of each service: rows and count of a page | every table |
| Files | `document_attachments`, `invoice_uploads`, `xmlPath`, `pdfPath` | presign, register, `remove`, `archiveDocuments` | Supabase storage |
| Mails with a copy | `emailSentAt` | `sendInvoiceEmail`, `sendEmail` | Resend or SMTP |
| Received documents, inquiries, audit, dashboard, reports, auth, PDF, RUT | single rows, files | create / update / read | - |

What is hard here, and what makes each part correct:

- **Emission.** Two transactions and up to three more statements with a call to
  a foreign service between them, no lock on the draft, six exits that must
  refund. Correct: credit is neither overdrawn, lost nor minted, what the DIAN
  is told agrees with the ledger, only validated documents look emitted, the
  number range is followed, every emission ends.
- **Payments, notes, receivables, cancellation.** Read, decide, overwrite: the
  writes carry absolute values computed from a row that may have changed. A
  listing writes too. A note is persisted in one transaction and applied to its
  invoice outside it. Correct: money counts once, status and balance agree,
  columns stay within the document, cancelled documents stay cancelled or are
  consistently reopened, a note emitted stays emitted.
- **Deliveries and conversions.** Checks against aggregates read before the
  write; a delivery and the status of its order, an invoice and its link, are
  written in two statements. Correct: an order is not delivered beyond its plan,
  one that is closed was delivered in full, what is billed was delivered and is
  billed once, an emitted invoice keeps what the DIAN has, a cancelled order
  stays cancelled.
- **Quotes and orders.** A document is checked, then a number is taken in one
  transaction, then the new document is written; the old one may change between
  any two. Correct: nobody orders from what was never approved, closed papers
  stay closed, a number is on one document.
- **Numbering.** Three generators: a sequence per kind of document, a range per
  resolution, a counter in the settings. Their checks run before the lock, some
  give the number out and some write it themselves. Correct: all of them are
  issuers of increasing numbers within a range, one document each.
- **Services.** Four handlers check one service and write it without a
  condition; only unique indexes hold back the transaction that bills it.
  Correct: one invoice for a service, which says what the service says, and a
  number for each invoice without gaps.
- **Factus client.** One refresh in flight shared by all callers, beside a
  forced refresh that ignores it; refresh tokens that are spent; one retry after
  401. Correct: no call is taken twice, the service does not lose its way to
  Factus, every call ends.
- **Synchronisation.** Read, call, write: Factus may have what nobody here knows.
- **Keys.** Look, then write; what the handler looks at and what the unique
  index looks at differ, and customers have no index. Correct: one holder per
  key.
- **Recurring services.** References are validated before they are written,
  and only those that were given. Correct: a subcategory of its category.
- **Money.** Four places compute the same line, with different rounding.
  Correct: what is declared is what is stored, to half a cent per line and
  half a cent more.
- **Listings.** Rows and count of a page are two statements, pages are separate
  requests. Correct: a reader gets what was there all the time.
- **Files.** Rows and files are written separately, by two parties. Correct:
  a row that says there is a file has one, a file goes with its row.
- **Mails.** The document changes between its read, its copy and the date.
  Correct: nobody gets as an invoice what the DIAN rejected or has not
  answered, unless it was issued here, and then the copy says PENDIENTE.

Every hazard is listed at its line in `PROJECT.json`, "hazards", with the
properties that cover it and what they leave out.

## 2. Plan

| Order | Modules | Content | State |
|---|---|---|---|
| 1 | `InvoiceRules`, `InvoiceLedger` | pure rules, the shared table | done |
| 2 | `Emission`, `MCEmission` | the emission protocol with faults | done |
| 3 | `Sums_proofs`, `Emission_proofs` | sums over finite sets; types and every safety invariant of the emission | done |
| 4 | `BillingRequests`, `Payments`, `Receivables`, `CreditNotes`, composed by `Billing` | the life of emitted documents | done |
| 5 | `Billing_proofs` | conservation of notes; types, every safety invariant and an action property | done |
| 6 | `Deliveries`, `MCDeliveries`, `Deliveries_proofs` | delivery orders, their growing draft invoice and its emission; types, every safety invariant and both action properties proved | done |
| 7 | `OfficeRequests`, `Sourcing`, `Resolutions`, abstract `NumberIssuer`, which both refine | conversions of documents, the numbers of sequences and resolutions | done |
| 8 | `ServiceBilling`, `FactusSync`, `Directory`, `RecurringServices`, `LineMoney`, `Listings`, `FileStore`, `Mailing`, composed by `Office`, `MCOffice` | the other desks | done |
| 9 | `FactusClient`, `MCFactusClient` | calls, tokens, refreshes; every call ends | done |
| 10 | `Numbering_proofs`, `Office_proofs`, `Desks_proofs`, `FactusClient_proofs` | both refinements of `NumberIssuer`; every desk of `Office`, and `Office` itself; the client | done |
| 11 | `CreditAccount`, abstract | granted / held / spent credit of a customer, which `Emission` with one emission of a draft at a time implements except for the refund of section 6 | not done |
| 12 | `DeliveryPromise`, abstract | planned, delivered, invoiced, which `Deliveries` implements on quiet orders | not done |

## 3. What is modelled

Common abstractions: money is a natural number of units (Decimal arithmetic is
exact; only order, sum and difference matter); dates are one bit per document,
"the due date is past"; documents are numbers in order of `createdAt`. The
in-memory fallback is off in production and is left out, and so are audit
records, which nothing reads back. A history variable is marked "history" where
it is declared: it records what happened for a property, and no guard reads it.

### InvoiceRules, InvoiceLedger

`ResolveInvoiceStatus`, `IsOverdue`, `ApplyCredit` and the predicates, one
operator per function of `invoice-status.util.ts` and `invoice-credit.util.ts`.
`InvoiceLedger` declares the four money and status columns that all services
share.

### Emission

One process per request, `pc[r]` is the statement about to be executed:

| Action | Code (`invoices.service.ts`) |
|---|---|
| `Emit` | `emit`: findOne, the draft check |
| `OpenCompensation`, `PickSource`, `ClaimSource`, `StopClaiming`, `CommitCompensation` | the transaction of `compensateWithCustomerCredit`, statement by statement |
| `AbortCompensation` | its rollback |
| `ReadResolution`, `BuildPayload`, `Send` | `emitViaFactus` up to the answer |
| `Refund`, `RefundRejected` | `refundCustomerCredit` at its call sites |
| `Persist`, `Consume` | the answer written, `next` incremented |
| `Recover`, `DbError` | the catch, and what leads to it |
| `Crash` | the instance stops |

The database is modelled as PostgreSQL runs it: a statement sees what was
committed before it; what a transaction has decremented is in `claim[r]` until
it commits; its rows are locked (`Locked`) and an update that waits re-evaluates
its WHERE on the committed row. `refundCustomerCredit` and `Persist` are single
steps: a refund only increments rows, so its intermediate states are visible to
nobody. `spent` is a history variable: credit that requests which are over took
for good. External assumptions about Factus, from how the code uses it: a
document is known by its `referenceCode`, which is a function of the invoice
id; a second bill with the code of a validated one is refused as existing; a
rejected bill leaves nothing behind; a call may fail before or after the bill
was validated.

### BillingRequests, Payments, Receivables, CreditNotes, Billing

`BillingRequests` has the state (ledger, payment rows, notes created,
validated, due) and the requests: `work[r]` holds what request r read.
`Payments`: `BeginPayment` reads and checks, `CommitPayment` inserts and
overwrites (the transaction holds no lock in between). `Receivables`: `Open` is
`findOne`, `WriteSync` the status it writes; `ListReceivable` the listing of the
receivables; `BeginCancel`/`Cancel`. `CreditNotes`: `BeginNote`, `CheckNote`
(state, kind and cap), `CreateNote`; `BeginEmitNote`, `SendNote`, `PersistNote`
(the guarded `updateMany`), `ReloadSource`, `ApplyNote`. `SpendCredit` and
`ReturnCredit` are what emissions of other invoices do to `creditBalance`.
`Billing` composes them all on the same rows.

### Deliveries

`delivery-orders.service.ts`. `Plan` gives each order its planned quantities;
descriptions are compared without case or blanks, so an `Items` element stands
for all spellings, and the plan may have it on one line or on two (`again`).
`delivered` is the sum of the rows of `DeliveryOrderDelivery`, `registered` says
that there is a row (a delivery without items is accepted). One process per
request; its first action reads the order, the others are one statement each
with the decisions taken after it:

| Actions | Code |
|---|---|
| `BeginRegister`, `CheckDelivery`, `RecordDelivery`, `CloseOrder` | `registerDelivery`: order, deliveries, `create`, `update` |
| `BeginMark`, `FindRemaining`, `RecordDelivery`, `CloseOrder` | `markFullyDelivered` |
| `BeginStatus`, `CheckComplete`, `CloseOrder` | `updateStatus` |
| `BeginSync`, `AddUp`, `CreateDraft`, `LinkInvoice` | `syncInvoiceFromDeliveries`, without an invoice |
| `BeginSync`, `AddUp`, `ReadDraft`, `GrowDraft` | the same, with one; `GrowDraft` is its transaction, which matches the lines read before it |
| `BeginIssue`, `Issue` | `emit` of the linked draft, as far as its lines go: what `buildPayload` sends, and the answer |
| `Crash` | a statement fails or the instance stops, at any point |

`made`, `crossed` and `orphaned` are history variables: the invoices created for
an order, the orders on which two requests have worked at the same time, the
orders that a crash left between `CreateDraft` and `LinkInvoice`. Nothing in the
service keeps two requests from crossing on one order, and then it does
over-deliver, bill twice, grow an emitted invoice or revive a cancelled order;
`Quiet(o)` (not `crossed`) states the other properties of an order, through
crashes and retries, for everybody else. `LinesWereDelivered` needs no such
condition. `PlainPlan` excludes repeated descriptions, which
`DeliveriesRepeatedLine` is about. The ledger of the draft is that of
`Emission`; its prices and totals follow from the lines and are left out, and so
are `deliveredAt`, the cancellation of the draft (which, like its emission, ends
its growth) and the creation of orders.

### OfficeRequests and the desks of Office

The other services have the same shape, which `OfficeRequests` states once:
`pc[r]` is the statement that request r executes next, `sheet[r]` what it has
read and is going to write (a row, another row it refers to, a value, a number),
`CutShort` the end of a request at any statement. `stale` is history: the
requests whose row was written by another one since they read it. The handlers
lose updates in that situation and promise nothing about it, so that `Fresh(r)`,
"the step is one of a request that knows what it is doing", states what holds
for all the others, however many of them interleave.

`Office` puts ten desks under one specification. Their statements read and write
different columns, so a behaviour of `Office` is that of one desk, chosen at the
start: the interleavings of two of them show nothing more.

| Module | Actions and code |
|---|---|
| `Sourcing` | `BeginQuote`, `BeginPurchase`, `BeginDelivery`: the checks of `create` and of the conversions; `TakeNumber`: `nextDocumentNumber`, a transaction of its own; `CreateDocument`; `ApproveAgain`: the quote that was converted; `BeginPaperStatus`, `WritePaperStatus`: `updateStatus` |
| `Resolutions` | `CreateResolution`, `UpdateResolution`; `BeginConsecutive` and `TakeConsecutive`: the checks of `nextConsecutive` and its transaction under `FOR UPDATE`; `BeginLocal` and `EmitLocal`: emission without Factus |
| `FactusSync` | `BeginSyncRange`, `AskFactus`, `StoreRange`; `BeginSyncCompany`, `SendCompany`, `MarkSynced`; `UpdateCompany` |
| `ServiceBilling` | `CreateService`; status, line and invoice of a service, each a `Begin...` that reads and checks and a step that writes; `BillService` is the whole transaction of `invoiceFromService`, and rolls back when an index is violated; `RenumberInvoices` |
| `Directory` | one of five tables: `BeginCreate`/`InsertEntry`, `BeginEdit`/`WriteEntry`, `BeginRemove`/`RemoveEntry`; `HoldersAtCreate`, `HoldersAtUpdate` are what the handlers look for, `RowsOfIndex` what the unique index sees |
| `RecurringServices` | `BeginRecurring`/`CreateRecurring`, `BeginMove`/`MoveRecurring`, `SetRecurringStatus`; `ValidReferences` |
| `LineMoney` | no requests: a document is built line by line (`AddLine`) and the computations of quotes, invoices, bills and notes are compared on it; `HalfUp` is what a numeric column does, `Nearest` what `round2` does to a float, with half a cent as a choice, `KeptQuantity` what the column keeps of a quantity |
| `Listings` | fifteen listings told apart by their order and by what their rows may do; `FindRows` and `CountRows` of a page in any order, `AnswerPage`, a reader that follows `totalPages` |
| `FileStore` | `UploadAttachment`, `CreateAttachment`, `BeginRemoval`/`RemoveFile`/`RemoveRow`; `UploadInvoice`, `RegisterUpload`; `BeginArchive`/`StoreXml`/`StorePdf`/`WritePaths` |
| `Mailing` | `BeginMail`, `HandOver`, `NoteMail`; the document meanwhile: `CreateBill`; `InvoiceService`, the issued invoice of a service; `BeginEmission`, `EndEmission` with the answer of the DIAN, any number of them for one draft; `EmitHere`, `emitLocal`; `CancelBill` |

`NumberIssuer` is what a generator of numbers promises: `Take`, `Write`, `Drop`,
`Issue`, `Replace`, and `Renumber` by an administrator. `Sourcing` implements it
with a number held between its transaction and the document
(`SequencesAreIssuers`, where nobody renumbers), `Resolutions` with
`last = next - 1` and `top = to` (`ResolutionsAreIssuers`).

What these desks know of the outside is how the code uses it: Factus gives each
new range an id; the file store keeps objects by name and may refuse to remove
one; a mail service takes a mail or does not. The other histories: `approved`
(documents that were approved at some time), `renumbered`, `halfMoved` (a
recurring service given a category or a subcategory alone), `backed` and
`excused` (files registered when they were there; files that nobody registered
or that the store refused to remove), `disturbed` (a row left or moved while it
was being listed), `copies` (the last copy of a document that was mailed),
`issuedHere` (documents issued with no word of the DIAN).

### FactusClient

One process of Node, `pc[c]` is what call c awaits. `GetToken` is
`getAccessToken` up to its first await: it has a token, waits for the refresh in
flight or makes one. `FactusGrants` is the answer of Factus to a refresh,
`SharedAnswer` and `ForcedAnswer` the continuation in the process, which may
come in another order than the answers; `Send` is `request` or a download, with
its retry after 401. External: Factus exchanges a refresh token once and may
answer anything to anybody; answers get lost. `tangled` is history: two
refreshes overlapped, or an answer was lost. Pairs of tokens that nobody holds
are used again, so that the states are finite.

## 4. Runs

| Run | Bounds | Shows |
|---|---|---|
| `EmissionConcurrent` | 2 requests, 2 drafts, 2 sources of the customer and 1 of another, credit 3 against drafts of 2 + 2, crash and lost reply | `CreditNeverNegative`, `RefundExactlyOnce`, `LedgerBalanced`, `EmittedIsValidated`, `NextNeverAhead`; requests may emit the same draft |
| `EmissionRetries` | the same tables, one emission of a draft at a time, all faults, fairness | `FormMatchesLedger`, `CreditNeverVanishes`, `EmissionTerminates` |
| `EmissionCreditTwice` (violation) | one source, one draft | `CreditNotSpentTwice` |
| `EmissionNextBeyondTo` (violation) | range 1..2 | `NextWithinRange` |
| `BillingSerial` | invoice of 4 (1 paid with credit), credit notes of 2 and 3, debit note of 1, payments of 1 and 2 | `NeverCollectsTwice`, `SettledIffPaid`, `NotesCountOnce` |
| `BillingConcurrent` | 2 requests, invoice of 3, credit notes of 2 and 1, payments of 1 and 2, crashes | `ColumnsWithinTotal`, `OnlyValidatedNotesCount`, `CancelledOwesNothing`, `EmittedNoteIsFinal` |
| `BillingPaymentAfterNote` (violation) | one request | `PaymentLowersBalance` |
| `BillingViewOverdue` (violation) | one request | `ViewKeepsOverdue` |
| `DeliveriesPartial` | 2 requests, one order of 2 units of one item, and an item that is not in its plan, deliveries of 0 to 2 of each, 2 invoices, crashes | `NeverOverDelivered`, `DeliveredInFull`, `LinesWereDelivered`, `BilledOnce`, `IssuedAsDeclared`, `CancelledIsClosed`, `DraftGrows` |
| `DeliveriesRepeatedLine` (violation) | one request, lines of 1 and 2 of one item and 1 of another | `MarkedInFull` |
| `Office` | 2 requests at each desk, numbers up to 2; see below | `OfficeTypeOK`; `OrderedWasApproved`, `ClosedPapersStay`, `SequencesAreIssuers`; `ResolutionsAreIssuers`; `RangesAreNotLost`; `OneInvoicePerService`, `NoNumberIsSkipped`, `BilledAsAgreed`; `OneHolderPerKey`; `SubcategoryFits`; `DeclaredAsStored`; `EveryRowIsShown`; `RowsHaveFiles`; `MailedAsIssued` |
| `FactusClient` | 3 calls, one of them a download; 7 pairs of tokens; fairness | `AcceptedOnce`, `CanRefresh`, `CallsEnd` |

The type invariants of the first three parts are not among the properties of
their runs: TLAPS proves them (section 5).

Why these bounds are enough for the questions: two requests are needed for any
race on a row and the code compares at most one row read with one row written;
the sources hold less credit than the drafts want, so that claims fail, are
partial and use two sources, one of them exactly; another customer's credit
shows that it is left alone; `MaxAttempts` = 3 (20 in the code) lets the loop
end for each of its reasons; the range of two numbers is used up; notes whose
sum exceeds the invoice reach the cap and leave credit over. Orders share no
rows, so one is enough; two units can be delivered in one part, in two, or too
many; an item that is not planned is delivered in no state, and two identifiers
let an orphaned invoice be followed by a second one. `Requests` is a
set of slots: a finished request frees its slot, so that behaviours have any
number of requests, two at a time. Symmetry is declared for requests, and
for the identifiers of new invoices, and not in the runs with a liveness property. A run ends when all
drafts are emitted, or the documents are settled and the notes used up; there
the system really stops, hence `CHECK_DEADLOCK FALSE`. Waiting for ever for a row
is excluded by `EmissionTerminates`, not by the deadlock check.

Bounds of `Office` (some 284,000 states), desk by desk. *Sourcing*: a quote and
two orders that can both be made from it, a delivery order; two numbers per
series. *Resolutions*: two, created and updated twice in all with ranges within
1..2 (of one number, of two, `next` beyond `to`), two drafts, so that a range
ends between a check and its transaction. *Sync*: three ranges at Factus for one
resolution, one more than two requests can create at a time; two versions of
the data of the company. *Services*: two services and two invoices; the price
is 1 or 2, so that an edit shows. *Directory*: two rows and two keys, enough for
both to want one key and to exchange them. *Recurring*: one row, two categories
with one subcategory each: a pair can be wrong. *Lines*: documents of up to two
lines, quantities 0.335, 0.5 and 1, prices 0, 0.50 and 42.50, discounts of 0, 10
and 40 cents, rates 0, 5 and 19 %: taxes fall on both sides of half a cent and on
it (42.50 at 19 % is 8.075, which a float declares as 8.07), and 0.335 has a
digit that its column drops; a discount on a line that costs nothing is above
its value, a case that the property excludes. *Listings*: three rows on pages
of two, so that a row can slide over the edge of a page. *Files*: two names, two
attachments, one upload, one bill.
*Mail*: a bill and a quote. The desks share the model values of their rows, and
symmetry exchanges the values that a desk uses alike. A desk stops when its
identifiers are used up and nobody is at work, hence `CHECK_DEADLOCK FALSE`; the
same goes for a process of which every call has ended.

In `FactusClient` three calls let one refresh in flight, one forced refresh and
one caller that waits coexist, and a second forced refresh overlap the first;
seven pairs are those that three calls (asked with, and answered) and the
service can hold at a time.

`OneAtATime` names the situations a property is about. `NotesCountOnce` and the
other properties of `BillingSerial` do not hold when two requests overwrite each
other's columns (see the hazards on payments and on the application of notes), and
nothing in the code claims it; with `OneAtATime` they say that every *order* of
operations is sound. `FormMatchesLedger` likewise.

### Fairness

`FairSpec` assumes for each request: strong fairness of `Advance(r)` (the event
loop reaches every statement that can run, every HTTP call ends, and PostgreSQL
serves those that wait for a row in a queue, so that a row that becomes free
again and again is eventually obtained) and weak fairness of `AbortBlocked(r)`
(Prisma closes an interactive transaction after 5 s, and PostgreSQL breaks
deadlocks). Nothing obliges anybody to emit, and no fault has to happen. `FactusClient`
assumes weak fairness of each call's `Step`: a fetch is answered or fails, and
the event loop runs each continuation; no call has to start, no token to get
old, and Factus may answer 401 for ever. Two
transactions that claim from two sources in a different order do block each
other; without `AbortBlocked` the emission would not end.

## 5. Proofs

For every finite set of documents and of requests, every amount and every set
of faults (the named assumptions of the modules: amounts are naturals, drafts
are documents, notes correct invoices of the same customer, an emission
compensates at most the total).

- `Sums_proofs`: sums over finite sets. The library's folds take the elements
  out one by one in an order that nothing says; `SumWithout` says that any
  element may be taken first, and from it follow the sums of changed, added,
  equal, smaller and fewer terms. Induction over data is out of the prover's
  reach as the library states it, with an operator for the predicate;
  `SubsetInduction` states it with a *set* of subsets, which a proof can name.
  For this the sets that are added up over are assumed finite (`Documents`,
  `Requests`: a database has so many rows, a service so many requests).
- `Emission_proofs`:
  - `TypeCorrect`.
  - `CreditIsNeverNegative`. The property is not inductive: committing subtracts
    claims made in the past. `CreditInv` adds that a claim of an open transaction
    is covered by the committed credit (`ClaimsSound`) and that one transaction
    at a time holds a row (`ClaimsExclusive`): the row lock, and the re-evaluated
    `gte`, are exactly what makes the subtraction safe.
  - `LedgerIsBalanced`. `LedgerInv` adds that what is still needed is between
    zero and what was missing when the transaction read the draft
    (`NeedBounded`): the write is a function of that read alone, which is why
    two emissions of one draft cannot push it beyond its total.
  - `EmittedMeansValidated`. `VerdictInv` relates the verdict in a request's
    locals to what Factus validated, and the stale status it may write back.
  - `CreditIsConserved`, with any number of emissions and every fault but
    `db_error`, and `CreditIsNotLost`, with that one too. `BooksInv` adds up
    what every request holds of a source and says that a request that refunds
    has been rejected. The hypothesis is needed: when a statement fails after
    the refund of a rejection, the `catch` of `emit` refunds again (section 6),
    and the books then show more than was granted, which is what the second
    theorem allows.
  - `NextIsNeverAhead`, under every interleaving and fault. `CountInv` bounds
    the increments made *and those that requests still have to make* by the
    drafts that the DIAN validated: one draft is validated once, however many
    requests send it.
  - `DeclaredFormIsRight` and `CreditPaysOrStays`, with one emission of a draft
    at a time (`OneAtATime`, as in `EmissionRetries`) and every fault.
    `FormInv`: what a transaction saw of the draft, and the form on the way to
    Factus or taken by it, are still those of the row. `VanishInv`: the
    credit of a customer and what its drafts were paid add up to what was
    granted at least, and inside a transaction the claims are what has been
    applied. Two emissions of one draft break both: each writes the draft from
    what it read before the other.
- `Billing_proofs`:
  - A credit note is conserved (`NoteIsConserved`), two notes do what one of
    their sum does (`NotesAddUp`), an open invoice is PAGADA after a note
    exactly when it owes nothing (`NoteSettles`).
  - `TypeCorrect`, `ColumnsStayWithinTotal`, `CancelledStaysSettled` and the
    action property `EmittedNotesAreFinal`, under every interleaving.
    `BillingInv` says of every row, *and of every row that a request has read
    and is about to write from* (`Read`), that it is within the document
    (`RowWithin`), that a payment about to be written fits in the row it was
    read from, and that a status about to be written was not frozen.
  - `ValidatedNotesCount`, under every interleaving. `CountedInv`: one request
    at a time has the turn to apply a note, and an invoice was credited with no
    more than the notes whose application is over.
  - `MoneyIsCollectedOnce`, `StatusTellsTheBalance`, `NotesAreWorthTheirAmount`,
    with one request at a time on an invoice and its notes (`OneAtATime`, as in
    `BillingSerial`, but with crashes, which that run leaves out). `TurnInv`:
    what a request has read is still so (`UpToDate`), and every row is sound
    between any two statements. Without the hypothesis they are false: a
    payment and a note that read one row lose the write of the first.
- `Deliveries_proofs`, for any plan, orders, items and requests:
  - `TypeCorrect`. `LinksInv` adds that invoices are made for one order only,
    and that a request about to read or write an invoice names one made for its
    order (`Names`): without it the transaction could write lines of nothing.
  - `BilledLinesWereDelivered`, under every interleaving. `LinesInv` adds that
    what a request has added up was delivered (`AddedUp`); deliveries only grow.
  - `NeverBeyondPlan`, `ClosedInFull` and the action property
    `CancelledStaysClosed`, from `QuietInv`: on a quiet order one request at a
    time is at work (`Solo`), so what it read is still so (`SoundAt`): what it
    is about to record fits in the plan, and a status about to be written is
    deserved.
  - `BilledOnlyOnce`, `IssuedAsItWasDeclared` and the action property
    `DraftOnlyGrows`, from `PaperInv`: on a quiet order, what a request bills is
    all that was delivered, the lines it found are still those of the draft,
    what it declared is what the draft says, and an invoice that its order does
    not name is the only one and about to be linked (`Awaited`), unless a crash
    orphaned it.
- `Numbering_proofs`, for any documents, resolutions, drafts and requests:
  - `SourcingTypes`, and `OrdersWereApproved`: the origin on the sheet of a
    request that creates was approved when it was read, and what was approved
    at some time stays so in `approved`.
  - `SequencesImplementIssuer`, the refinement of `NumberIssuer`. `SourcingInv`
    says that requests that create work on different rows (`RowsApart`), that
    written numbers (`WrittenApart`) and held ones (`HeldApart`) are positive,
    not above the counter, and each on one document or in one hand: otherwise a
    step of one request could drop the number of another. Every action maps to
    `Take`, `Write`, `Drop` or a stutter.
  - `ResolutionTypes` and `ResolutionsImplementIssuer`. Here the unique index
    (`NumbersUnique`) carries the step `Replace` of an invoice that is emitted
    again by a request that had read it as a draft.
  - `ClosedStayClosed`, an action property about requests that are not stale.
    `InformedInv` says what such a request may rely on: a document it is about
    to write is still open, the origin of an order it makes is still approved.
    A step that writes a document makes stale whoever has read it.
  - `SyncTypes` and `RangesStayKnown`. `SyncInv` adds that every range on a row
    or on a sheet is one that Factus has for that resolution, and that a
    request that is not stale finds in the row the range of its sheet, or none.
- `Office_proofs`, for any rows and requests:
  - `ServiceTypes`, `ServicesInvoicedOnce`, `NumbersAreConsecutive`: inductive
    together with the types, from the two indexes that `BillService` keeps.
  - `BilledStaysAgreed`, from `AgreedInv`: a request that is not stale finds a
    service it is about to write not invoiced, and one it is about to bill as it
    read it, finished or delivered.
  - `RecurringTypes`, `SubcategoriesFit`: `RecurringInv` adds that a pair on
    the sheet of a request was validated as a pair, so that the later write,
    of both columns, needs nothing of the row it finds.
  - `MailTypes`, `MailsAreOfIssuedPapers`: `MailInv` adds that a row that may be
    mailed was taken by the DIAN, is cancelled or was issued here and says
    PENDIENTE (`Honest`), and that it is so
    on sheets and on copies (`Good`), which do not change with the row.
  - `DirectoryTypes` and `KeysHaveOneHolder`. `DirectoryInv` adds that the index
    keeps all written keys apart, deleted rows included, and that a request
    about to create a customer, if it is not stale, would still find no customer
    in use with the telephone.
  - `StoreTypes` and `FilesStayWithRows`. `BackedInv` adds that an attachment
    registered with its file shares the file with no row and no removal, and
    loses it only to a request that is about to drop the row; `HeldInv` that a
    file that is not excused has a row that nobody is about to drop.
- `FactusClient_proofs`, for any number of calls and of pairs: `TypesHold`;
  `TakenOnce` (a call about to be sent was not taken yet: what is tried again
  was answered 401); `Refreshable`, from `RefreshInv`: while nothing is tangled
  at most one refresh is under way, it asks with the pair held, and what it is
  answered is not spent.

- `Desks_proofs`:
  - `ListingsTypes` and `PagesMissNoRow`, for any number of rows and any page
    size. `ReaderInv` says where a row is that was there all the time and that
    the reader has not got: below all that it was shown (`Shown`), because
    rows that appear only push it down. With `PagesCover` (as many pages as
    were announced hold all the rows that were counted) nothing is left at the
    end. `InsertedAt` and `RemovedAt` say what becomes of a sequence.
  - `DeclaredIsStored`, for documents of any length, any prices, discounts and whole
    rates. A column and `round2` are each off by half a cent at most
    (`ColumnRounds`, `FloatRounds`), half a cent itself going either way for a
    float; `CentsAddUp` adds that up over the lines, by induction (the sums of
    cents are scaled with `SumScaled`), and the stored total is rounded once
    more: together half a cent per line and half a cent. Quotes and invoices
    round one sum each, so that their totals differ by a cent at most. `RateRounds`
    is about the rate that a note declares. The choice stands for binary floats
    as long as their error is below the distance of an amount from half a cent,
    which for amounts with five digits after the point is so up to some ten
    million pesos.
  - `OfficeServesADesk`: the office implements, step by step, the specification
    of the desk that it serves. What was proved of `SourcingSpec`,
    `ServicesSpec`, ... therefore holds of the `Spec` that the run `Office`
    checks: `OfficeTypes` for `OfficeTypeOK` (with `Marked`, no step marks as
    stale what is not a request), `OfficeIsSafe` for the other properties.

Every safety invariant and every action property of the passing runs is proved.
`MarkedInFull` and the other properties of the runs that expect a violation are
not: they are false. Only model-checked: `EmissionTerminates` and `CallsEnd`,
because liveness under fairness, and ENABLED, are out of the prover's reach.

## 6. Disagreements found

1. **Credit spent twice** (`EmissionCreditTwice`). The refund of a rejected or
   failed emission returns the credit and leaves the draft paid with it.
2. **`next` beyond `to`** (`EmissionNextBeyondTo`). The range test uses a row
   read before the call to Factus.
3. **Payment after a note** (`BillingPaymentAfterNote`). `register` recomputes
   the balance from the total and forgets what notes took off it.
4. **Overdue mark lost by looking** (`BillingViewOverdue`). `findOne` and the
   listing of invoices do not have the guard that the receivables have.
5. **Repeated description** (`DeliveriesRepeatedLine`). Marking an order as
   fully delivered subtracts the deliveries of a description from each of its
   lines, registers too little and closes the order.

They are described with their lines and the sentences they contradict in
`PROJECT.json`, "findings".

## 7. Not modelled, and why

- The layout of PDFs and mails, the text that is read out of a RUT or of an
  uploaded invoice, the reports, the dashboard and the seed: functions of their
  input without a state; what a copy says of the state of a document is in
  `Mailing`.
- Authentication is delegated to Supabase, which also keeps the accounts of
  users. Audit records are appended and never read by an operation.
- Received documents and public inquiries are single rows without a protocol;
  `Listings` has what they do to their listing.
- The in-memory fallback is off in production.
- The numbering range of a note (`ensureNoteResolution`, its `next`), the invoice
  that a delivery order may be born with, `deliveredAt`, the order of rows with
  the same date or name in a listing.
- `recalculateBalance` and `allocateCustomerCredit` have no caller.

Seen while modelling, and not stated as a disagreement since no sentence of the
repository contradicts it:

- `presignUpload` of invoice uploads signs a path that has the name of the
  bucket in it, inside the bucket, and returns that path; `create` takes the
  bucket off the path it is given and looks for the file there, one folder
  above (`invoice-uploads.service.ts:150`). `FileStore` has both.
- `updateStatus` of services answers as if it had written when its update fails
  (`services.service.ts:331`).
- `updateSettings` leaves `isSyncedToFactus` set when the data change.
- The code of a deleted product cannot be used again: the look-up does not see
  it, the unique index does.
- The invoice of a service is EMITIDA from its creation, with a number of the
  company and `dianStatus` PENDIENTE, and is never sent to the DIAN, with Factus
  configured or without (`services.service.ts:470`); it may be mailed. `Mailing`
  has it, and `MailedAsIssued` says that such a copy tells that the answer of
  the DIAN is pending.
- A request may have more than two digits in a quantity, a price, a discount or
  a rate. The totals are computed with all of them, the columns keep two, and
  what is declared is computed from the columns: without tax, 0.335 units of
  42.50 are stored as 14.24 and declared from 0.34 as 14.45. `LineMoney` has it
  for quantities; `DeclaredAsStored` compares with Factus only those that the
  column keeps.
- A rejected bill leaves its number in the unique `invoiceNumber` of the draft.

## 8. Running

    tlc -config EmissionConcurrent.cfg MCEmission
    tlc -config BillingConcurrent.cfg MCBilling
    tlc -config DeliveriesPartial.cfg MCDeliveries
    tlc -config Office.cfg MCOffice
    tlc -config FactusClient.cfg MCFactusClient
    tlapm Emission_proofs.tla

and `tlapm` on each of the other modules whose name ends in `_proofs`. Lemmas of
`Sums_proofs` are used by those of `Emission`, `Billing`, `Deliveries` and `Desks`,
those of `Numbering_proofs` by `Office_proofs`, and theorems of both by `Desks_proofs`.
