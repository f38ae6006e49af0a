# Service.AI in TLA+

Service.AI is a back office for garage-door franchises: an API (Fastify,
Postgres through Drizzle), a voice service, a Next.js web application, and
packages for database access, authentication, language models and suppliers.
This directory holds TLA+ modules that model the parts of the system that keep
state (money, stock and commitments first, then everything that several
requests, processes or pages change at once), the TLC configurations that check
them, and proofs of safety properties that TLAPS checks for every value of the
constants.

Run from this directory:

    tlc -workers 2 -config QuoteSerial.cfg MCQuoteFulfilment.tla
    tlc -workers 2 -config BackOffice.cfg MCBackOffice.tla
    tlapm QuoteFulfilment_proofs.tla

`PROJECT.json` lists the components, the runs, the source lines every
definition models, a mutant of the code for each checked property, the
hazards, the findings and the theorems.

## 1. The system

One Node process serves the API. A handler reads and writes Postgres inside
`withScope` (packages/db/src/scope.ts:86-100), which is one READ COMMITTED
transaction; a `return` from its callback commits. Handlers SELECT without
`FOR UPDATE`, decide on what they read, and UPDATE by primary key, so what
they read may be stale when they write: this is where most of the hard
behaviour comes from. Outside the database there are three parties: the
supplier (quotes, orders), Stripe (payments, refunds, webhook events) and the
customer's browser. Nothing makes a step with one of them atomic with a
transaction.

| Component | State | Operations | Interacts with |
| --- | --- | --- | --- |
| Quotes (quote-routes, public-quote-routes, balance-invoice) | quotes, quote_line_items, quote_status_log | price, commit, accept (operator and customer), share, void, deposit intent | supplier, Stripe, jobs, stock, commission, invoices, the voice agent |
| Commission engine | commission_ledger (append-only, unique on user, kind, source) | credit on commit and on payment, reverse on void and refund | quotes, webhook |
| Invoices and refunds | invoices, refunds | create, edit, finalize, send, delete, pay page, refund | Stripe, webhook |
| Stripe webhook | stripe_events, payments | payment succeeded, failed, charge refunded | invoices, quotes, commission, collections |
| Jobs | jobs, job_status_log | create, edit, transition | quotes, stock, dispatch |
| Stock consumption | inventory_movements, inventory_consumption_exceptions | reserve on accept, consume on completion | inventory |
| Inventory ledger | inventory_items, inventory_movements, inventory_consumption_exceptions | create, edit, adjust, transfer; resolve or ignore an exception | jobs, quotes |
| Purchase orders | purchase_orders, purchase_order_lines | create, edit lines, submit, sync, cancel, receive | inventory, suppliers |
| Collections (ai-collections, collections-routes) | collections_drafts, payment_retries | sweep, approve, edit, reject; schedule and run a retry | invoices, Stripe, webhook, the language model |
| Dispatch (dispatcher-runner, suggestion-routes, assignment-routes) | ai_suggestions, jobs, job_status_log | run and auto-apply, approve, reject, assign, unassign, reflow on bus events | jobs, event bus, the language model |
| Event bus and stream | listeners in one process | publish, subscribe, stream | assignment, reflow, the dispatch board |
| Invites and memberships | invitations, memberships | create, revoke, redeem | authentication, request scope |
| Corporate administration | branches, branch_managers, comp_plans, user_comp_assignments | create and edit a branch, appoint a manager, create, edit and assign a plan | commission |
| Request scope | the session | resolve role and branch | all |
| Suppliers | the registry's bindings, the mock's documents; documents of the BC AI Agent (external) | bind, price, commit, void, convert; HTTP retries | quotes, purchase orders |
| Margins, catalog, pricebook | service_catalog_templates, service_items, margin policy and overrides, pricebook_suggestions | create, edit, publish, archive; set a margin; propose, approve, reject | quotes |
| Voice agent | call_sessions, ai_conversations, ai_messages | answer a call, the tool loop, transfer, close | quotes, jobs, customers, the language model |
| AI assistants | ai_messages | tools of the agents, the technician's assistant | quotes, jobs, customers |
| CRM and customers, public widget | customers, customer_notes, quotes (leads) | create, edit, delete a customer; write, ingest and link a note; take a lead | jobs, quotes |
| Job photos | job_photos, the object store | upload address, put, finalise, delete | the offline queue |
| Push | push_subscriptions, the browser's subscription | subscribe, unsubscribe | the service worker, the offline queue |
| Offline queue | IndexedDB | enqueue, drain | every write of the technician's pages |
| Web pages with state of their own | quote editor (office, telephone), dispatch board | edit, price, send; drag, refresh on an event | quotes, jobs, the stream |
| Notifications, dashboards, documents, seed, the other pages | - | output and reads | - |

What makes each of the first components correct:

- **Quotes.** A quote that is committed is committed at the supplier. An
  accepted quote has a job that names it, its stock is reserved once, and it
  is ordered from the supplier in the end. A void leaves no commission owed.
  The deposit is billed once. Stamps (ordered, deposit paid, refunded) never
  say more than the supplier and Stripe do.
- **Commission.** Nobody is credited twice for one event, and nothing is
  clawed back twice or without a credit.
- **Invoices.** A paid invoice was paid for its whole total. An invoice of no
  quote is void only when it was refunded; one of a quote also when its quote
  is voided before it is paid. Every payment is recorded in the end, however
  its event arrives.
- **Jobs and stock.** However many completions race, the parts are consumed
  once per job and one balance invoice is live. Quantity on hand equals its
  movements; a part a job used is consumed or in the exceptions inbox, once;
  a transfer takes from one branch what it puts into the other.
- **Purchase orders.** What a line received is what its receipts moved into
  stock, an order is received when every line is, and the supplier has the
  lines the order has.
- **Collections.** One reminder of a tone waits at a time, what a row says was
  sent is what the customer got, reminders grow no milder, and a failed payment
  is tried again in order and charged once.
- **Dispatch.** The dispatcher's auto-apply puts nobody in two places and takes
  no job from the technician who has it, and the log tells where each job
  stands that no suggestion and no tool of the agent has scheduled.
- **Memberships.** Whoever is in was invited by somebody entitled to, once,
  and nobody joins with a revoked invitation.
- **Corporate.** Managers follow one another, pay has no overlap and no gap
  but past an end somebody asked for, a credit goes to who managed the branch
  that day, and a month that is over keeps its commissions.
- **Prices.** One price list, whose prices stand while it is published; every
  line has a margin; a proposal is decided once.
- **Suppliers.** A recorded reference changes only by a commit under another
  key or in a restart of the mock, is nobody else's, and has a document behind
  it, whatever times out.
- **Intake.** Notes and leads are recorded once, where their customer is, and
  what staff linked stays linked.
- **Voice.** A call is answered once, the agent's gated tools keep to their
  confidence floors and its quotes to the cap, it does nothing after a transfer,
  and leaves a session that says what happened.
- **Field work and pages.** What a telephone promised to send arrives, in
  order and once; a deleted photo stays away; push messages reach who asked for
  them. What an author sees is what is agreed; the board shows the row of
  a job that is among the 200 newest.

Hard behaviour, in the order in which it matters: interleavings of stale
reads, supplier and Stripe calls between two transactions, crashes between a
call and its stamp, Stripe events that are late, duplicated, concurrent or out
of order, and best-effort calls that nobody retries. `hazards` in
`PROJECT.json` has each with its line.

## 2. Modules

| Module | Models | Proofs |
| --- | --- | --- |
| `CommissionLedger` | the ledger table and its three writers (constant module) | `CommissionLedger_proofs` |
| `QuoteFulfilment` | one quote from draft to fulfilment or void, with its jobs, balance invoices, stock, supplier documents and deposit | `QuoteFulfilment_proofs` |
| `QuoteContract` | the abstract specification of a quote: every operation atomic | `QuoteFulfilment_proofs` |
| `InvoiceSettlement` | one invoice, Stripe, the webhook and the manager's commission | `InvoiceSettlement_proofs` |
| `Inventory` | stock of all branches, reservation and consumption, exceptions, transfers, purchase orders and their supplier documents | `Inventory_proofs` |
| `Platform` | requests in flight, and the record of which rows two of them mixed | - |
| `Collections` | reminders of overdue invoices | `Receivables_proofs` |
| `PaymentRetries` | failed payments and their retries | `Receivables_proofs` |
| `Dispatch` | jobs of a branch, suggestions, the dispatcher | `Office_proofs` |
| `Memberships` | invitations and who they let in | `Office_proofs` |
| `CorporateHub` | branches, managers, pay plans, the commission that follows | `Office_proofs` |
| `Pricing` | price lists, margins, price proposals | `Office_proofs` |
| `SupplierClient` | provider binding, HTTP retries, the mock | `Office_proofs` |
| `Intake` | customers, notes, leads | `Office_proofs` |
| `VoiceCall` | streams, the tool loop, sessions | `Office_proofs` |
| `FieldWork` | the technician's outbox and photos | `BackOffice_proofs` |
| `QuoteEditor` | the two quote editors against the server | `BackOffice_proofs` |
| `BoardScreen` | the dispatch board against the server | `BackOffice_proofs` |
| `PushSubscriptions` | push subscriptions of shared browsers | `BackOffice_proofs` |
| `MCQuoteFulfilment`, `MCInvoiceSettlement`, `MCInventory` | pay plans and symmetry for TLC | - |
| `MCQuoteRaces` | what two racing requests of a quote may use | - |
| `MCBackOffice` | composes the thirteen components from `Collections` on; its constant `Components` names those a run lets act | `BackOffice_proofs` |
| `FiniteSums` | sums over finite sets, for the proofs | itself |

`QuoteFulfilment` and `InvoiceSettlement` both extend `CommissionLedger`.
`QuoteFulfilment` instantiates `QuoteContract` under a refinement mapping.
Acceptance and completion appear in `QuoteFulfilment`, which counts what they
move as sets, and in `Inventory`, which has the quantities and the items.
The balance invoice appears in both state machines: as the quote sees it
(drafted, open, paid, void or deleted) in `QuoteFulfilment`, and with its
payments, refunds and events in `InvoiceSettlement`, where it is an invoice
whose `quoted` is TRUE.

### Transactions and steps

A handler is a request slot in `req` (or `desk`, `hook`) that walks through
steps. *Read*: the SELECT with every check the handler makes on the row; what
it will use later is kept in the slot. *Call*: a supplier or Stripe call.
*Write*: everything the transaction writes. A transaction that begins with an
UPDATE of the row holds its lock to the end, so read and write are two steps,
and any number of other handlers may act between them. Checks made inside the
transaction after that UPDATE (the look-up of earlier reserve movements, of an
earlier balance invoice, of earlier consumption) see every committed write of
whoever held the lock before, and belong to the write step. `Fail` ends a
request anywhere: the transaction rolls back, earlier calls stand.

### QuoteFulfilment

| State | Code |
| --- | --- |
| `quote` | the quotes row, the columns handlers test or set |
| `jobs`, `invoices` | rows a completion or an acceptance touches; `quoted` is jobs.quote_id, "open" the five statuses before completed and canceled |
| `ledger` | commission_ledger |
| `reserves`, `consumed` | number of movement sets written with reason reserve, consumption |
| `supplier` | the supplier's document per idempotency key |
| `intents`, `refunded` | the deposit's PaymentIntents and refunds at Stripe |
| `req` | handlers in flight |

`PriceRead/Write`, `CommitRead/Call/Write`, `AcceptRead/Write` with
`ConvertCall/Stamp`, `ShareRead/Write`, `VoidRead/Write` with `VoidSupplier`,
`RefundCall/Stamp`, `IntentRead/Create/Write` (deposit intent),
`DepositEvent/Stamp` (webhook), `JobRead` with `CompleteWrite` or
`CancelWrite`, and `InvoiceRead` with `EditInvoiceWrite` (PATCH, while the
balance invoice is a draft: lines or tax, hence its total), `FinalizeWrite` or
`DeleteWrite` are the handlers. `PublicAcceptRead` is the customer's accept link and
`VoicePriceRead` the voice agent's `quoteConfigurator`, whose guard is weaker
than the state machine's. The agent's `commitQuote` takes the steps of
`CommitRead` under the quote's own id; having committed it forgets the quote,
but any of its commits can be an operator's, so no state tells them apart.

A commit sends the `Idempotency-Key` header or, without one, the quote id;
void and convert address the supplier's document by the quote id only. Hence
`Keys` and `QuoteKey`.

An invoice is `edited` once staff replaced lines or tax; `credit` is the
deposit line it was drafted with.

Left out of this module: the unique index on the quote of an invoice
(migrations/0020:27-29), a second guard behind the look-up that
`OneLiveBalanceInvoice` is about, line items (a pricing is its total), tax, token
expiry, the status and audit logs, PDF and e-mail, and which error code a
refused request gets.

### InvoiceSettlement

| State | Code |
| --- | --- |
| `invoice` | the invoices row |
| `payments`, `refundRows`, `stripeEvents` | rows, by Stripe id |
| `ledger`, `manager` | commission_ledger; the active branch_managers row |
| `charges`, `refunds`, `emitted`, `acked` | Stripe's objects, the events it has to deliver and those answered 200 |
| `desk`, `hook` | staff requests and webhook deliveries in flight |

`QuoteVoid` is what the void of the invoice's quote does to it, one UPDATE: an
invoice that is draft, finalized or sent becomes void, with nothing to refund,
whoever is at work on it.

The webhook inserts the event row in a transaction of its own, reads the
invoice outside any transaction, then writes in one; on an error it deletes the
event row and answers 500, so Stripe delivers again; on a crash the row stays.
`CommissionLedger` is exact about the unique index: a second credit is dropped
only if user, kind and source agree, and the source depends on whether one rule
fired or several.

### Inventory

| State | Code |
| --- | --- |
| `stock` | inventory_items, by branch and sku (the unique index) |
| `opening` | the quantity an item was created with, which has no movement |
| `moved`, `transfers`, `receipts`, `used` | sums over inventory_movements: of an item, of its transfers, of an order's receipts, of a job's consumption |
| `orders` | purchase_orders and purchase_order_lines; `edition` stands for the line ids, which an edit replaces |
| `supplier` | the supplier's document of an order, by the order's id |
| `jobs` | whether a job's quote is accepted, the job completed, and whether a reserve or a consumption movement names them |
| `exceptions` | inventory_consumption_exceptions |
| `req` | transactions in flight |

Here one handler writes several rows, so a slot is a transaction: `todo` has
the changes it will make, in order, `seen` the row read for the next one,
`rows` and `moves` what it has written and not committed. A row with a value in
`rows` is locked; another transaction's `Write` waits for it, and two that wait
for each other are stuck until one of them takes `Abort`, which drops what it
wrote. `ReadItem`, `SkipItem`, `WriteOnHand`, `WriteReserved` and
`WriteConsumed` are the steps all handlers share; each handler adds its first
step (`AdjustRead`, `TransferRead`, `AcceptRead/Lock`, `CompleteRead/Lock`,
`ResolveRead`, `ReceiveRead`) and its commit. `ReceiveRefused` is the early
return of a receipt in the middle of its lines, which commits. `CreateItem`,
`EditItem` and `CreateOrder` are one statement each; `EditLines`, `Submit`,
`Sync`, `Cancel` and `Ignore` read, then write by id.

Left out: costs, names, thresholds and deactivation for any other purpose than
consumption; an order has at most one line per sku; the lines of
from-low-stock are some positive quantities like those staff enter. A manual
adjustment may take stock below zero, as in the code, where only a manual
consumption is refused.

### The thirteen other components

Each keeps the rows its handlers decide on, one slot per request in flight, and
one action per handler step, as above. They extend `Platform`, whose
`WorkingOn` and `MixedBy` record on which rows two requests were in flight
together. These components take few locks and have few unique indexes, so much
of what they promise they promise only for rows one request at a time works
on; a set (`mixed`, `tangled`, `crossed`, `raced`, `overlapped`, `collided`,
`blurred`, `crowded`, `unsure`, `doubts`) names the rows that are excepted, and
each property says for which part it excepts them. The interleavings happen in
every behaviour all the same, and what they do to the excepted rows is bounded
by the parts without an exception.

- **Collections**: `drafts` (collections_drafts), `mailed` (what each
  customer received), `owing`, `overdue` and `restarted` (the invoice, as the
  sweep sees it). `SweepSelect`, `SweepRead`, `SweepInsert`; `ApproveRead`,
  `ApproveSend`, `ApproveWrite` (two transactions with the mail in between);
  `EditRead/Write`, `RejectRead/Write`; `DaysPass`, `InvoiceSent`,
  `InvoiceSettled` are the world. A text is the number of edits it had.
- **PaymentRetries**: `retries` (payment_retries), `intents` at Stripe.
  `ScheduleRead/Insert` is the failed-payment event, `RunRead/Charge/Write` the
  staff's retry, with its answer lost (`RunAnswerLost`) or the process stopped.
- **Dispatch**: `board` (jobs), `logged` (job_status_log), `suggestions`,
  `dispatcher`. `RunStart/Capture/Check/Persist` is a dispatcher run, whose
  proposals are checked and written one transaction each; `RunApplies` is the
  tool `applyAssignment`, by which the agent of a run schedules a job at once,
  whatever its status, with no log row and no suggestion (`unrecorded` counts
  these); `AfterEvents` is the
  reflow that an assignment event starts in the same process; assign, unassign,
  patch, transition, approve and reject are a read and a write. A slot is a
  pair of quarters of an hour, travel a table.
- **Memberships**: `invitations`, `members`. `CanInvite` is the role
  hierarchy, `Held` and `ScopesOf` the scopes of a person, of whose memberships
  the resolver takes any. `RedeemRead/Write` are the two transactions of a
  redemption, with a revocation possibly between them.
- **CorporateHub**: `sites`, `posts` (branch_managers), `payPlans`, `onPlan`
  (user_comp_assignments), `credits`. `AppointRead/Commit`, `AssignRead/Commit`
  end a row and insert the next; `InvoicePaid` and `InvoiceRefunded` are the
  commission engine's look-ups by date; `DayPasses` is the calendar, two days
  a month. An assignment may name its own end (`EndDays`), not before its
  start, which the table checks; the unique index on the active manager of a
  branch fails the second of two overlapping appointments.
- **Pricing**: `template`, `items`, `policy`, `overrides`, `proposals`.
  Publishing, item edits, policy edits and decisions on proposals are a read and
  a write; `MarginOf` is which margin a line gets, `MarginBounds` the check of
  the table that refuses a policy out of order.
- **SupplierClient**: `kind`, `bound` (the registry), `atBc` and `atMock` (what
  the suppliers hold, filed under the idempotency key of the commit: one of
  `CallerKeys`, or the quote's own id), `network` (requests given up on),
  `standing`, `ref` and `ordered` (what rows record), `rekeyed` (quotes that
  were committed under a key of the caller's). `StatusRead` is the check a call
  begins with; `CallBegins`, an answer, refusal or time-out per try,
  `LateRequest`, `CallRecorded`, or `AnswerDropped` when the write does not
  follow; `WritesAlone` is the row lock of a commit, which calls the supplier
  inside its transaction. `SwitchKind` and `RestartProcess` are the operator.
- **Intake**: `clients`, `notes`, `leads`, `bookings`. `Ingest*`, `Link*`,
  `Note*`, `Book*`, `Lead*` are the handlers, each a look and a write;
  `Matching` and `Match` the match over all branches.
- **VoiceCall**: `sessions`, `conversations`, `agent` (one orchestrator per
  stream), `voiceQuotes`, `deeds` (what the tools that write did). One action
  per kind of turn; the model may take any, with any of two confidences and any
  total. `Gated` are the three tools the loop holds to a `Floor`.
  `CommitQuoteRead` and `CommitQuoteLines` are the two SELECTs of a commit, the
  total and then the lines; `StaffReprices` and other calls come in between,
  which marks the quote `torn`. The tool set is the one the source builds and
  its tests run; the deployed voice process wires no tools yet
  (apps/voice/src/index.ts:11, app.ts:90-92).
  An error outside a tool, or a second session of one call, is caught by nobody
  and stops the process (`VoiceProcessStops`, `SessionOpens`).
- **FieldWork**: `outbox` (the ids in IndexedDB), `writes` (all that were promised),
  `drains` in progress, `carried` and `refused` (the server), `photoRows`,
  `stored`. A drain takes a copy of the ids and sends them, lowest first; `Reopen`
  closes the page under it, `AnswerLost` and `LateCarried` lose answers.
- **QuoteEditor**: `page` (React state and the debounce timer), `wire` (calls,
  which overtake each other), `quote` and `document` at the other end. `form`
  is the office page or the telephone's, which differ in their guards.
- **BoardScreen**: `assigned`, `open` and `listed` (the row, and whether it is
  among the 200 newest jobs, which is what a refresh reads), `shown` (the card),
  `heard`, `readings`, `answers` (events and lists on their way), `drags`. The
  page begins with the list the server read and the stream closed: `LinkOpens`
  connects it, and what was published before is lost. `JobsCome` makes newer
  jobs. `doubts` has the seven ways in which the board may be wrong, each
  removed by the next good reading; without any one of them the property is
  violated.
- **PushSubscriptions**: `subscriptions` with the unique index over live
  endpoints and `Sees`, the row policy; `seat` (who is signed in at a browser),
  `told` (who was last told that he is subscribed).

## 3. Runs

All bounds are set in the cfg files; nothing else bounds the models. Amounts
are small integers: a total below 200 cents pays one commission rule and the
others two (two closers race over 200 and 300, whose rows compete for the same
keys), and the deposit policy (30 per cent, at least 50, at most 55)
makes the minimum and the maximum each bind for some total. Deadlock is off
everywhere: a page with nothing to send, a quote that is void and settled, an invoice that is refunded, and
a job whose order is received have nothing left to do, and requests are never owed.

| Run | Instance | Question |
| --- | --- | --- |
| `QuoteSerial` | 1 request, 2 users, 2 jobs, 2 totals, 2 keys, failures | Handled one at a time, do requests implement the atomic contract, and do void, completion and balance billing do what they should, whatever fails? |
| `QuoteRaces` | 2 requests, failures, a voice call; 2 jobs, or 2 deposit payments, or 2 closers under 2 keys, or 2 closers and 2 totals | What survives any interleaving of two handlers? |
| `QuoteOrdered` | 1 request, no failures, a voice call, a fair scheduler | Is every accepted quote ordered? |
| `SettlementDeliveries` | 1 clerk, 2 concurrent deliveries, 2 managers, 2 refunds, crashes | Is the payment credited once, whole, and void refunded? |
| `SettlementRetried` | 1 clerk, 1 delivery at a time, errors, fairness | Is every payment recorded in the end? |
| `InventorySerial` | 1 request, 2 branches, 2 skus, 1 order, 1 job that uses both parts, receipts of up to 2 lines, 3 moves | Handled one at a time, does stock equal its movements, does every part end up consumed or in the inbox, and do orders, receipts and supplier agree, whatever rolls back? |
| `InventoryRaces` | 2 requests, 2 branches, 1 sku, 1 job, 4 moves | What survives two handlers on the same items, with deadlocks and crashes? |
| `BackOffice` | dispatch, memberships, console, prices, supplier client, intake, one at a time; 2 requests each, restarts, lost answers, late requests | Do decisions and records stand, and do the rows of each component keep what they promise each other? |
| `OfficeEdges` | reminders, payment retries, voice calls, the outbox, the quote editors, the dispatch board, push, one at a time; 2 requests, streams or drains each | Do customers, technicians and pages get what the rows say, whatever is late, lost or stopped? |

Three more runs are expected to violate one property each; section 6.

Why the bounds are enough: every race in these handlers is between a read and
the write of one other handler, so two requests show it, and for
the properties that section 5 proves the number does not matter. Two jobs are the least number that can
give two balance invoices, two intents the least that orphans one, two users
the least that credits two. With two requests in flight a handler can still
meet any number of earlier, finished ones. Refunds come as 50 and 100 of 100 or
200, so partial, completing and exceeding refunds all happen.

In `Inventory`, `MaxMoves` bounds how many items are made, items and lines
edited, and adjustments, transfers and receipts begun; acceptance, completion,
exceptions, submit and cancel are bounded by the job and the order. Three moves
make both items of a transfer and move one, or receive an order twice, in part
and whole, after its lines were edited. The job needs two springs and a panel,
so a stock of one goes below zero, and a part may be missing or inactive at
the acceptance, at the completion or at both. `InventoryRaces` drops the order, which
no other handler shares rows with except through items.

`BackOffice` and `OfficeEdges` run thirteen components that share no rows. A
behaviour is one component's, chosen at the start, while the others stay as
they begin: their states add up, to two million in each of the two runs, in two
to three minutes, where their product would be out of reach and show nothing
more. Many of their properties are conjunctions over components, and every
conjunct has a mutant of the code that breaks it: `DecisionsStand` and
`RecordsStand` are the action properties of the components of `BackOffice`,
`ReceivablesSound` is `Collections`' and `PaymentRetries`', `TelephoneSound` is
`FieldWork`'s and `PushSubscriptions`', `PagesSound` is `QuoteEditor`'s and
`BoardScreen`'s, each of the others is its component's own. Requests are
symmetric, and so are two people nobody starts as, two quotes of the supplier's
client and two calls. Two requests are in flight at once in every component. The other bounds are
the least at which the case in question happens: two drafts (the second a
milder or a repeated one), two attempts and two retries, two jobs of which one
can be reached from the other in time and not the other way round, two
invitations (of which the second is by whom the first let in), five console
requests over two months and one day an assignment may end on, two templates
and four requests on prices, four calls of two tries to a supplier that may
carry out what timed out, one key of a caller's beside the quote's own, two
serials of a mock that restarts, two notes and leads, two calls of two turns
with one quote that staff reprice once, confidences of which one is enough for
every gated tool but the commit and the other for all, two outbox writes over three
trips, four calls of a page whose lines change twice, three changes of a board,
four push requests at one browser that two people of two branches use.

In `QuoteRaces` a behaviour keeps to one of four plans, chosen at the start,
because their product is too large: two jobs with their completions and
invoices and no deposit; two deposit payments and one job that is not
completed; two closers with two keys; two closers with two totals. Completion
and invoice do not touch the deposit's stamps, the commission touches neither,
and no handler tells one closer's keys from the other's. What the deposit does
to the balance invoice is in `QuoteSerial`.

### What each property says

- `ImplementsContract`: with a single request slot, failures included, no
  intermediate state of a handler shows: status, commission owed and number of
  jobs move as in `QuoteContract`.
- `VoidUnwindsCommission`, `CompletionConsumes`, `BalanceAddsUp`: serial
  versions of what a race can break or never was promised under races. The
  balance is that of an invoice nobody edited, less the whole deposit or
  nothing, and the deposit only when it was paid: an edit may write any lines.
- `OneLiveBalanceInvoice`, `StockMovedOnce`: the look-ups under the row lock do
  their work.
- `AcceptedHasJob`: an accepted quote names a job that names it back, although
  an acceptance links the job that was read before the lock.
- `CommittedAtSupplier`, `CloserCredited`: reference and closer are always
  those of a commit that reached the supplier and the ledger, although two
  commits, prices and accepts race.
- `LedgerSound`: unique keys, and each reversal negates a credit.
- `StampsAreTrue`: stamps follow what they record.
- `AcceptedEventuallyOrdered`, `PaymentEventuallyRecorded`: liveness.
- `CreditedOnce`, `PaidInFull`, `VoidIsRefunded`: see section 1. The void of a
  quote may come between any two steps of a delivery, a refund or a clerk.
- `BalanceKept`: stock on hand is the opening quantity plus the movements,
  through every multi-row handler, early return and rollback.
- `PartsAccounted`: a part is never consumed and pending at once, nor lost,
  although an exception may be resolved against another item or a new one.
- `ReceivedAsMoved`, `ReceivedIsComplete`: line, movement and status agree,
  also after a receipt that was refused half way, or over the ordered quantity.
- `SupplierHasLines`: only drafts are edited, only what is no draft is pushed.
- `TransfersCancel`: a transfer that rolls back between its two halves leaves
  neither.
- `ReservedOnce`: the look-up of an earlier reserve movement, under the quote's
  lock, does its work, and releases race with it.
- `ReceivablesSound`: one pending reminder of a tone whatever sweeps race, mail
  and row agree, reminders escalate (`RemindersSound`); attempts are numbered
  through, a retry is charged once if it succeeded and never otherwise
  (`RetriesSound`).
- `BoardSound`: the dispatcher's auto-apply double-books nobody, and the status
  log tells where a job stands, but for jobs a suggestion or the agent's own
  tool has scheduled.
- `MembersInvited`: authority descends from the founders through any chain of
  invitations, and an invitation is redeemed once even by two racing requests.
- `PostsAndPaySound`: managers succeed one another, also when appointments
  overlap; pay has no overlap although assignments may be dated in the past,
  and a gap only past an end that was asked for; every credit went to a manager
  of the day.
- `PriceListSound`: at most one published template; the default margin stays
  between its bounds through edits of one bound at a time, also overlapping
  ones, and every line has a margin.
- `ReferencesSound`: references differ, exist, and are found by conversion where
  the commit went out under the quote's own id, through time-outs, late
  requests, restarts and switches of provider.
- `IntakeSound`: notes once, in their customer's branch; leads once.
- `CallsSound`: one conversation per call, the floors of the gated tools, no
  document above the cap but of a quote priced between the two reads of its
  commit, a session that says what its transcript says wherever the process
  stops. `CallsHandedOver`: nothing is done in a call after its transfer.
- `TelephoneSound`: nothing promised is lost, the order is kept, nothing blocks
  the outbox, photos have bytes, and push messages reach who asked.
- `PagesSound`: a page at rest shows the newest prices, a commit agrees on what
  was shown, and the board shows the row of a job among the 200 newest once all
  it heard of is dealt with and no named doubt is left.
- `DecisionsStand`: what somebody rejected, decided, revoked, finished or linked
  is not undone, but a finished job by the agent's tool, by an applied
  suggestion or by requests that overlapped on it. `RecordsStand`: closed months, published prices, supplier
  references (but by a commit under another key), fields an edit did not name,
  the technician of a job and deleted customers are not rewritten.

`TypeOK` (`BackOfficeTypeOK`) is each module's type invariant; those of the
components of `OfficeEdges` are proved and not run.

## 4. Fairness

`QuoteFulfilment!FairSpec`: weak fairness of each started handler, because
Node runs what it has started, and of the delivery of a deposit event, because
Stripe delivers. Nobody owes a new request. `QuoteOrdered` sets `MayFail`
FALSE: conversion is best effort and is not attempted again (section 6), so
with failures the property is false, and with two requests in flight a void can
take the supplier's document away between the acceptance and the conversion.

`InvoiceSettlement!FairSpec`: an event that was never answered 200 is delivered
again and again (Stripe's retries, strong fairness since a slot may be busy),
and a handler that runs again and again does not fail every time (strong
fairness of `MarkPaid`). Crashes are excluded in these two runs: the event row
is committed before the side effects, so a crash between them loses the event.

The thirteen components of `BackOffice` and `OfficeEdges` are safety only. What must eventually
happen there (a drain, a redelivered note, a retry) is begun by a person or a
browser event that nothing in the code guarantees.

## 5. Proofs

Every invariant that a run of section 3 checks is also a theorem, for every
value of the constants; so are the action properties `DecisionsStand`,
`RecordsStand` and `CallsHandedOver` and the refinement `ImplementsContract`. TLC checked each
inductive invariant on the run's instance before it was proved.

Constants are arbitrary sets. What is assumed of them, in the module that
declares them:

| Assumption | Says | Because |
| --- | --- | --- |
| `ConstantsAssumption` (quotes, invoices, stock) | types; totals positive where the code refuses zero; `None` is nobody and no row; refund ids, branches and jobs finite | amounts are integer cents; a table has finitely many rows |
| `NoneAssumption` (stock) | `None` is no stock row | a row is not NULL |
| `CollectionsAssumption`, `RetriesAssumption`, `FieldAssumption` | the bounds are numbers; `None` is no tone | |
| `DispatchAssumption` | a proposal names a job, a technician and a slot | the tool validates what the model answers before it makes a suggestion of it |
| `MembershipsAssumption` | the founders are rows without an invitation | the seed writes them |
| `HubAssumption` | a month has a day; rates are integers; ends are days; `None` is no day | a rate stands for what one invoice credits, whole cents |
| `PricingAssumption` | margins are integers; the first policy has its default between its bounds | the columns hold whole hundredths; their defaults are 20, 60 and 200 |
| `SupplierAssumption` | a call is tried at least once; `None` is no provider and no reference | the loop of the client |
| `VoiceAssumption` | cap, totals and confidences are numbers; `None` is no session | cents, per cent |
| `IntakeAssumption` | mail is taken in for one of the towns | the intake branch is a branch |
| `PushAssumption`, `ScreenAssumption`, `EditorAssumption` | `None` is nobody and no list of lines; `Hidden` is no column | |

Three theorems' hypotheses are about scheduling, not data: `OneClerk`
(`InvoiceSettlement`: staff requests do not overlap), `OneSlot` (`Inventory`)
and `OneRequest /\ ~VoiceCall` (`QuoteFulfilment`): handlers take turns.
They are what the runs `SettlementDeliveries`, `InventorySerial` and
`QuoteSerial` set, and they are needed: see each below. A theorem without one
of them holds for any number of requests in any interleaving.

### Ledger and sums

`CommissionLedger_proofs` proves, for any ledger, that an insert keeps keys
unique and rows, that credits and reversals keep reversals matched, and that
an insert covers every key it was asked for.

`FiniteSums` has what the proofs need of sums over finite sets: the sum of one
element more, of a function changed at one place, of two functions one below
the other. Its inductions are over the size of a set, by way of the smallest
counterexample, as the library's induction theorems take an operator as a
parameter.

### QuoteFulfilment

For any number of requests, users, jobs, intents and keys and any plans:

| Theorem | Inductive invariant |
| --- | --- |
| `TypeCorrect` | `TypeInv`: `TypeOK` and that a slot past its first step carries its arguments |
| `LedgerAlwaysSound` | inductive by itself, over the ledger lemmas |
| `AlwaysOneLiveBalanceInvoice` | `OneLiveAndFinalizable`: a finalize in flight has a row to find, else its write would create a second invoice |
| `StockAlwaysMovedOnce` | inductive by itself |
| `AcceptedAlwaysHasJob` | `JobLinked`: an acceptance in flight that read a job will link the quote's job, unless that one is linked already |
| `CommittedAlwaysAtSupplier` | `SupplierKnows`: a commit about to write has been to the supplier; an acceptance in flight read a reference |
| `CloserAlwaysCredited` | `CloserOnRecord`: a commit in flight holds a total that pricing produced; credits are never removed |
| `StampsAlwaysTrue` | `StampsJustified`: a slot about to stamp has its evidence, which lasts |

Each proof first establishes which steps write which columns (`LedgerWriters`,
`QuoteWriters`, `StepOrigins`, ...), and then considers those steps only.

With `OneRequest /\ ~VoiceCall`: `VoidAlwaysUnwinds`, `AlwaysOneJobPerQuote`,
`CompletionAlwaysConsumes`, `BalanceAlwaysAddsUp` and, from all of them,
`ContractImplemented`: each step of a handler, failures included, is a step of
`QuoteContract` or leaves what that specification sees unchanged. The invariant
`TurnsInv` says that what a handler read in one transaction is still so in its
next (`TurnsKept`), that commission is owed as the status says
(`CreditsFollowStatus`), that only the job the quote names was made from it, and
only by an acceptance (`JobFollowsStatus`), and two of the properties themselves. Races break every
part of it: two acceptances, each of which read no job, make two (run
`QuoteSecondJob`), and a voice call prices a quote again that was committed
meanwhile, as it writes without a lock.

### InvoiceSettlement

`TypeCorrect` needs no further assumption. Under `OneClerk`, for any number of
concurrent deliveries, managers and crashes: `PaidAlwaysInFull`,
`CommissionAlwaysCreditedOnce` and `VoidAlwaysRefunded` (of an invoice of no
quote; the void of a quote may come at any moment to the others). The invariant
`PaymentPath` says that a customer has only ever seen the intent the row names,
for its total; `CreditPath` that from the first delivery that works on a
payment its event row is there until the credit is undone with it; `RefundPath`
that Stripe's refunds include all that rows or events speak of, never exceed
the charge, and that a full refund in flight gives back exactly what remained.
`OneClerk` is needed: two overlapping finalizes make two intents, and an edit
that overlaps a finalize changes the total under the intent.

### Inventory

For any number of branches, skus, orders and jobs. `TypeInv` adds to `TypeOK`
that a slot carries its arguments, that what it has left to do has the sign of
its operation (`WellFormed`), without which a consumption could be negative,
and that the exception it read is still in the inbox.

| Theorem | Under | Inductive invariant |
| --- | --- | --- |
| `TypeCorrect` | any interleaving | `TypeInv` |
| `TransfersAlwaysCancel` | any interleaving | `TransferInv`: a transfer in flight has either both halves to write, or one written and the other, opposite, to write, or both written |
| `ReservedAlwaysOnce` | any interleaving | `ReservedInv`: an item's reserved quantity is at most what the jobs with a reserve movement hold of it, and one acceptance of a job is past the lock at a time |
| `BalanceAlwaysKept` | `OneSlot` | `BalanceInv`, below |
| `ReceiptsAlwaysMoved`, `ReceivedAlwaysComplete`, `SupplierAlwaysHasLines` | `OneSlot` | `OrderInv`: each order is consistent (`OrderTrue`); a handler holds the row as it is, and a receipt in flight has recorded what it wrote (`OrderAtHand`) |
| `PartsAlwaysAccounted` | `OneSlot` | `PartsInv`: the parts of a completed job add up to what was consumed and what is in the inbox, those of an open one to nothing (`JobTrue`); a completion in flight has dealt so with the parts it has done, and no others (`JobAtHand`) |

`BalanceInv` has three parts: committed stock is balanced, and an item that is
not there has no quantity; what a transaction has written so far differs from
what is committed by exactly its movements so far (`Tracked`), so that it may
commit, return early or roll back at any point; and the quantity it read for
its next write is still the row's (`Current`), although an item may be made or
edited meanwhile. `OneSlot` is needed for the last part only, and the run
`InventoryDrifts` shows that it is needed.

### The other components

For any number of requests in flight, any people, rows and bounds. Where two
requests on the same row can break a promise, the property itself says so: the
model records the rows on which requests overlapped, or the answers of which a
page never heard, and the promise is about the others. The invariants then say
that a request that works alone on a row still finds what it read.

| Theorem | Inductive invariant, beyond types and the property |
| --- | --- |
| `RetriesAlwaysSound` | `RetriesInv`: a run that nothing mixed with is alone on its row, which is scheduled and was charged once if Stripe has answered so, and otherwise not (`RunsAlone`) |
| `RemindersAlwaysSound` | `CollectionsInv`: a clerk alone on a draft, a sweep alone on the invoice; a sent row has its mail, and a mail its row |
| `MembersAlwaysInvited`, `RevokedAlwaysKeptOut` | `MembershipsInv`: a member who was not seeded is the one an invitation names, whose inviter held authority over its scope; memberships are never removed |
| `PriceListAlwaysSound`, `PricesAlwaysStand` | `PricingInv`: a publication about to write found all that is published, a request on an item found its template unpublished (`CatalogFits`); the policy is in order, since the table refuses any other |
| `ReferencesAlwaysSound`, `ReferenceAlwaysStands` | `SupplierInv`: what is recorded of a quote, and what an answer in flight carries, the supplier has under the key it went out with (`RowFits`, `CallFits`) |
| `CallsAlwaysSound`, `HandedAlwaysOver` | `VoiceInv`: a conversation and a session belong to one stream; the next step of the agent fits what it has done and read (`AgentFits`), the session what the transcript says (`SessionFits`) |
| `PostsAndPayAlwaysSound`, `ClosedMonthsAlwaysStand` | `HubInv`: the posts of a branch follow one another however appointments overlap (`Succeeded`), the plans of a person without overlapping requests meet or end as asked for, at most one is open, and an edit in flight found it so (`AdminFits`) |
| `BoardAlwaysSound`, `BoardAlwaysStands` | `DispatchInv`: what auto-apply set and nobody moved does not overlap (`DaysKept`), but for jobs a suggestion or the agent's tool scheduled the log ends with the status (`StatusLogged`), and what a run decided in flight still fits (`FlightFits`) |
| `IntakeAlwaysSound`, `IntakeAlwaysStands` | `IntakeInv`: a request holds a customer of its branch (`HandFits`), one note per reference, leads that did not overlap apart |
| `PushAlwaysSound` | `PushInv`: one live row per browser, which on a browser one request at a time worked on is that of the user last told |
| `ScreenAlwaysShowsRow` | `ScreenInv`: answers are overtaken and current in the order they were read, the newest current one shows the row (`NewestRight`), and when nothing is to come the card is that of the row or of a drag not served yet (`RightOrDragged`) |
| `EditorAlwaysSound` | `EditorInv`: a page at rest shows the lines of the last answer it heard (`ShownFromCall`), the row holds those of that call or of one the page never heard of (`StoredFromCall`), a commit carries what was shown before it (`SentAsShown`), and the call a page waits for is its newest (`AwaitsNewest`) |
| `FieldWorkAlwaysSound` | `FieldInv`: a promised write waits in the outbox or was carried out or refused (`NothingLost`); whoever holds a write also holds all earlier ones that are not dealt with (`ListsInOrder`); and a write is carried out twice only if two drains held it or an answer was lost (`DoubtsKnown`) |

`BackOffice_proofs` also composes them. `ComponentsRun` shows that a behaviour
of `MCSpec` is one of each component's own specification: the component in
focus takes its steps, the others stutter. From it and the theorems above
follow `ReceivablesAlwaysSound`, `PagesAlwaysSound`, `TelephoneAlwaysSound`, `DecisionsAlwaysStand`,
`RecordsAlwaysStand` and `BackOfficeTypeAlwaysOK`. The two action
properties need one fact more: a step that leaves a component's variables alone
undoes none of its decisions (`NothingDecided`).

### Only model-checked

`AcceptedEventuallyOrdered` and `PaymentEventuallyRecorded`: liveness under
fairness speaks of `ENABLED`, which the prover does not support. Their safety
side (`AcceptedHasJob`, `PaidInFull`) is proved.

## 6. Known divergences

Three runs show a statement of the repository that the code refutes
(`findings` has the quotes):

- `QuoteSecondJob`: two racing accepts create two jobs.
- `SettlementReplayDuringError`: a duplicate answered during a failing first
  delivery ends the retries.
- `InventoryDrifts`: of two concurrent movements of an item one is lost from
  the quantity on hand, against inventory-routes.ts:16-18 ("so state and ledger
  cannot drift").

The same models show more, which no run repeats; the sets of excepted rows in
the properties are where most of them are. Quotes, invoices and stock:

- A void that waits for the row while a commit holds it reverses nothing: it
  decides on the status it read (quote-routes.ts:1562 and :1595).
- The voice agent's pricing moves a committed quote back to priced, which
  quote-status-machine.ts:10-19 does not allow.
- If the charge.refunded event inserts the refund first, the refund route
  aborts and a fully refunded invoice stays paid (docs/ARCHITECTURE.md:516).
- A refund event handled before its payment event leaves the commission
  credited (docs/ARCHITECTURE.md:339).
- A stale price, commit or accept reopens a void quote
  (quote-status-machine.ts:19 "void is terminal").
- Two deposit-intent requests create two PaymentIntents, against
  public-quote-routes.ts:361-363; the payment of the first finds no quote.
- Completing the job of a void quote drafts an invoice for it, although a void
  voids unpaid invoices (quote-routes.ts:1599).
- A send that read the invoice finalized turns a paid invoice into a sent one
  (invoice-payment-routes.ts:254), and the void of its quote, which spares paid
  ones ("a paid one is left alone", quote-routes.ts:1599-1600), then voids it
  without a refund.
- A deposit that is paid after the balance invoice was drafted is not credited
  on it (balance-invoice.ts:66). Where the minimum deposit exceeds the total,
  the balance is negative (quote-routes.ts:516).
- An edit of a drafted balance invoice replaces all lines, the deposit's too
  (invoice-routes.ts:450-464). One that overlaps a finalize changes the total
  after the intent was made for the old one, which the customer then pays.
- A conversion that fails is never attempted again: it runs from the two
  accepts only, and an accepted quote refuses both (quote-routes.ts:525-527
  "so a later retry re-attempts").
- A partial refund reverses the whole commission (stripe-webhook.ts:233;
  docs/ARCHITECTURE.md:509).
- A commit under an idempotency key other than the quote id is a document that
  void and convert do not find; a second commit under another key replaces the
  reference of the first (quote-routes.ts:1131-1142), whose document stays.
- Two overlapping finalizes make two intents, and the payment of the one the
  row does not keep matches no invoice.
- Two overlapping edits of a draft invoice delete the same old lines and each
  insert their own (invoice-routes.ts:450-464, no unique index on the position):
  the lines of both stay under the totals of the second. Read in the code; the
  model keeps an invoice's total and not its lines.
- The quantity an item is created with has no movement, so the movements alone
  do not add up to the quantity on hand.
- A receipt that is refused at a later line (over the quantity, or no such
  line) commits the lines before it and leaves the order's status as it was.
- Two overlapping receipts of different lines leave the order partial for good
  (docs/api/purchase-orders.md:51); one that read the order before a cancel
  reopens it.
- An edit of lines that overlaps a submit leaves the supplier with other lines.
- A completion releases whatever is reserved of the item, another quote's
  reservation too (docs/TECH_DEBT.md:201); a void releases nothing.
- Two overlapping resolutions of one exception, or a resolution and an ignore,
  consume the parts twice.

Collections and payments:

- The "per-attempt guard" of a retry (ai-collections.ts:461-464) is a read and
  an insert with no unique index: two failures at once share an attempt number.
- A retry is charged without an idempotency key, its intent is not stored, and
  the invoice's status is not looked at; two runs at once charge twice.
- Two approvals of one draft deliver it twice; an approval that overlaps a
  rejection delivers what the row calls rejected.

Dispatch and its board:

- The agent of a run holds the tool `applyAssignment`, ungated
  (dispatcher-runner.ts:273-295), and so may schedule any job during the run, a
  finished one too, with no suggestion and no log row, against
  dispatcher-tools.ts:382 ("used by suggestion-approve endpoint, not the
  agent"); the approval endpoint does not call it.
- Reflow is meant to follow cancellations (dispatcher-reflow.ts:4-8), but only
  assign and unassign publish events (jobs-routes.ts:296-402, app.ts:346).
- Approving a suggestion schedules a canceled or completed job that has no
  technician (suggestion-routes.ts:187-190), auto-apply looks at no status, and
  neither writes job_status_log nor publishes. A job without an end never
  overlaps another. The loser of two decisions gets 200 with nothing in it.
- A refused assign publishes nothing, although the board relies on it
  (DispatchBoard.tsx:118, "SSE event will re-sync anyway"). An older list may be
  shown after a newer; a reconnect reads nothing; a drag without an answer
  leaves the card where it was dropped. The board's list has no date filter
  although the page's first list has one (dispatch/page.tsx:71-85), and reads
  the 200 newest jobs of any status (DispatchBoard.tsx:59), so an older open job
  vanishes at the first refresh. What is published between the server's list
  and the opening of the stream is lost.

Memberships, corporate console, prices:

- A redeemed invitation can still be revoked; inviting a member into the role
  he has ends in a 500; a member of two branches gets whichever scope comes
  first.
- The base salary is that of the plan on the first of the month, against the
  comment at branch-routes.ts:204-205. Branch list and branch dashboard count
  revenue differently.
- An edit of a comp plan writes the merged terms, so of two at once one is lost.
- Two publishes at once leave two published templates, against
  catalog-routes.ts:279-281 ("atomically"). An edit of an item does not check
  the floor against the ceiling again; a margin override is not checked against
  the policy.
- An edit of an item that read its template as a draft changes a price that was
  published meanwhile. The second of two overlapping appointments, and a policy
  edit that another one puts out of order, end in a 500 from the database.
- An assignment that names its end closes the open plan at its start and leaves
  the person without pay after its end (corporate-routes.ts:1044-1063).

Suppliers:

- The mock forgets its documents in a restart, or when the kind is switched and
  switched back: conversion then answers NOT_FOUND, and serial numbers start
  again, although docs/deploy/PILOT_OPERATIONS.md:106 promises that "commits
  return deterministic mock refs" and a flip back restores.

Voice and assistants:

- Out of turns, the agent says that it will loop in a human, and records no
  transfer. A stop does not interrupt it. An error outside a tool ends the
  process with every call in it, whose sessions stay in_progress; a repeated
  start of one call is such an error.
- `commitQuote` commits at the supplier before it refuses for want of a user,
  which a voice call never has (csr-tools.ts:827-830 says that it does), so no voice
  call ever records a commit. It may send a quote that staff voided meanwhile.
- The confidence it compares comes from the model's own input, against its
  schema; the real adapter reports 0.75 for every tool use, below every floor.
- "booked" is recorded without any job, and a summary that failed counts.
- `quoteConfigurator` reprices a committed quote, and is not gated: it writes on
  any confidence, although call-context.ts:43 lists 0.7 for it.
- `commitQuote` reads the total it holds against the cap and the lines it sends
  in two statements (csr-tools.ts:771-794): a price in between puts lines above
  the cap at the supplier.

Customers, notes, leads:

- The ingest looks for a note in one branch while its index covers all; two
  deliveries at once end in a 500. A link may take a note that was matched.
- Leads and customers are looked for and then inserted: two at once are two.
- The voice agent's `bookJob` writes no job_status_log.

Field work, quote pages, push:

- The queue drops headers, the Idempotency-Key among them
  (offline-queue.ts), and overlapping drains send twice.
- A 401 or 429 in a drain deletes the entry (offline-queue.ts:129-132), although
  the API limits requests (app.ts:303). A finalised photo whose answer was lost
  fails with a 500 every time and blocks the outbox for good, against
  offline-queue.ts:5-8. A deleted photo can be brought back by a resend.
- The page calls a queued photo failed. What is enqueued while the online event
  fires waits for the next. Finalising does not check the upload; a deletion
  leaves the object. A sign-out is queued too.
- The telephone's pending commit is stored and never sent
  (MobileQuoteBuilder.tsx:358-360). It looks for the reference where the answer
  has none (MobileQuoteBuilder.tsx:368, quote-routes.ts:1199), so it never
  learns that a quote was sent, and accept and share cannot be reached there.
- Two price calls that overlap at the server store the same positions, so the
  second may fail on the unique index with a 500 (schema.ts:1720).
- Aborting a price request does not stop the server: an older price may be
  written last, and the commit sends other lines than the page shows. Taking
  all lines away, or going offline, aborts nothing, and the old totals come
  back (QuoteBuilder.tsx:107-109 and :224-228). A commit whose answer is lost
  shows Sending for good. The supplier keeps the first document of a key: edits
  after a commit that failed half way are not in it.
- A browser that a user of another branch subscribed cannot be taken over: the
  row policy hides the row and the unique index refuses the new one
  (migrations/0016_corporate_hub_redesign.sql:543-568), against the comment in
  push-routes.ts that it "has legitimately moved profiles". The next user in a
  tab is not asked, and the former user's messages still come. A subscription
  queued offline is sent as whoever is signed in when it is.

## 7. Plan

Done: all modules of section 2, their runs, and a theorem for every safety
property of the runs. What remains, in this order:

1. Commission rules and tiers, and the rounding of prices, as pure functions
   against a reference definition, with the bounds they keep as theorems.
2. The contract of `InvoiceSettlement`: an abstract invoice (unpaid, paid,
   partly given back, void) that the handlers refine under `OneClerk`, as
   `QuoteContract` is for a quote.
3. `CreditedOnce` and `PaidInFull` with staff requests that overlap but do not
   finalize or edit, a weaker hypothesis than `OneClerk`.
4. `ReceivedAsMoved` and `PartsAccounted` for requests that take turns on the
   same order or job but not on different ones.

Not modelled, and why:

- Reads, projections and dashboards change nothing; PDF documents, e-mail and
  text are output. Nothing in the source sends push messages.
- Provisioning a telephone number: the only provisioner wired in answers with a
  number that the branch determines, so that two provisionings at once agree.
- The technician's assistant writes messages that nothing else reads.
- Wiring, sessions (the authentication library's), seed data.
- What a language model answers: it may answer anything the code accepts.

`components` in `PROJECT.json` gives the reason for each.
