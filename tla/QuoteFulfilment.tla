-------------------------- MODULE QuoteFulfilment --------------------------
(***************************************************************************)
(* One quote from draft to fulfilment: pricing, the supplier commit and the *)
(* closer's commission, customer acceptance with the job and the stock      *)
(* reservation it creates, the Stripe deposit, job completion with the      *)
(* balance invoice and the stock consumption, and void with its unwinding.  *)
(*                                                                         *)
(* Every handler addresses the quote by id and reads no other quote, so one *)
(* quote is modelled; any number of requests work on it at once.  Postgres  *)
(* runs each withScope transaction at READ COMMITTED and the handlers take  *)
(* no row lock when they read, so a transaction is two steps: the read of   *)
(* the row with the checks made on it, and, from its first UPDATE of that   *)
(* row (which holds the row lock until commit), everything it writes.       *)
(* Calls to the supplier and to Stripe between the two are steps of their   *)
(* own.  A request that fails before its commit leaves no database write.   *)
(***************************************************************************)
EXTENDS Integers, Sequences, FiniteSets, CommissionLedger

CONSTANTS
  Requests,    \* request slots: how many handlers may be in flight at once
  Users,       \* operators who may commit a quote
  Jobs,        \* ids for rows of the jobs table
  Intents,     \* ids for Stripe PaymentIntents created for the deposit
  Totals,      \* totals, in cents, a pricing call may produce
  Keys,        \* idempotency keys a commit may carry
  QuoteKey,    \* the fallback key: the quote's own id
  Expanded,    \* [Users -> [Totals -> non-zero commissions of the plan]]
  DepositPct, DepositMin, DepositMax,   \* corporate deposit policy, in cents
  MayFail,     \* whether a request in flight may crash or hit an error
  VoiceCall,   \* whether the quote is the current one of a voice agent's call
  None

QuoteId == "quote"

ASSUME ConstantsAssumption ==
  /\ Totals \subseteq Nat \ {0}
  /\ QuoteKey \in Keys
  /\ Expanded \in [Users -> [Totals -> Seq(Int \ {0})]]
  /\ DepositPct \in Nat /\ DepositMin \in Nat /\ DepositMax \in Nat
  /\ MayFail \in BOOLEAN /\ VoiceCall \in BOOLEAN
  /\ None \notin Users \cup Jobs \cup Intents \cup Keys

VARIABLES
  quote,       \* the quotes row
  jobs,        \* [Jobs -> the jobs row]
  invoices,    \* [Jobs -> balance invoice drafted when that job completed]
  ledger,      \* commission_ledger rows
  reserves,    \* number of `reserve` movement sets written for the quote
  consumed,    \* [Jobs -> number of times the job consumed the quote's parts]
  supplier,    \* [Keys -> state of the supplier's document under that key]
  intents,     \* [Intents -> state of the deposit PaymentIntent at Stripe]
  refunded,    \* deposit PaymentIntents Stripe has refunded
  req          \* [Requests -> the handler in flight]

vars == <<quote, jobs, invoices, ledger, reserves, consumed, supplier,
          intents, refunded, req>>

-----------------------------------------------------------------------------
(* Rows and their initial values. *)

QuoteStatus == {"draft", "priced", "committed", "accepted", "void"}

(* Mutant: a committed quote may be priced again. *)
Mutant_MatrixReprice ==
  [draft     |-> {"priced", "void"},
   priced    |-> {"priced", "committed", "void"},
   committed |-> {"priced", "accepted", "void"},
   accepted  |-> {"void"},
   void      |-> {}]

Matrix ==
  [draft     |-> {"priced", "void"},
   priced    |-> {"priced", "committed", "void"},
   committed |-> {"accepted", "void"},
   accepted  |-> {"void"},
   void      |-> {}]

CanTransition(from, to) == to \in Matrix[from]

(* "open" stands for the five statuses before completed and canceled. *)
JobStatus == {"none", "open", "completed", "canceled"}

(* quoted: the row's quote_id is the quote. *)
JobRows == [status : JobStatus, quoted : BOOLEAN]

NoJob == [status |-> "none", quoted |-> FALSE]

InvoiceStatus == {"none", "draft", "open", "paid", "void", "deleted"}

SupplierState == {"none", "committed", "ordered", "void"}

(* "paid": succeeded, its event undelivered; "seen": its event recorded. *)
IntentState == {"none", "open", "paid", "seen"}

QuoteRows ==
  [status    : QuoteStatus,
   total     : Totals \cup {0},
   closer    : Users \cup {None},
   ref       : Keys \cup {None},        \* supplier_quote_ref
   job       : Jobs \cup {None},
   ordered   : BOOLEAN,                 \* ordered_at is set
   shared    : BOOLEAN,                 \* an accept token exists
   deposit   : Nat,                     \* deposit_amount_cents, 0 for null
   intent    : Intents \cup {None},     \* deposit_payment_intent_id
   paid      : BOOLEAN,                 \* deposit_paid_at is set
   refunded  : BOOLEAN]                 \* deposit_refunded_at is set

DraftQuote ==
  [status |-> "draft", total |-> 0, closer |-> None, ref |-> None,
   job |-> None, ordered |-> FALSE, shared |-> FALSE, deposit |-> 0,
   intent |-> None, paid |-> FALSE, refunded |-> FALSE]

(* edited: staff replaced its lines or its tax; credit: the deposit line of *)
(* an invoice as it was drafted, not followed through an edit.              *)
Invoices == [status : InvoiceStatus, total : Int, credit : Nat,
             intent : BOOLEAN, edited : BOOLEAN]

NoInvoice == [status |-> "none", total |-> 0, credit |-> 0, intent |-> FALSE,
              edited |-> FALSE]

LedgerRows ==
  [user   : Users,
   kind   : CreditKinds \cup ReversalKinds,
   source : {QuoteId} \X Nat,
   amount : Int]

(* Where a handler in flight will continue. *)
Steps ==
  {"idle", "priceWrite", "commitCall", "commitWrite", "acceptWrite",
   "convertCall", "convertStamp", "shareWrite", "voidWrite", "voidSupplier",
   "refundCall", "refundStamp", "intentCreate", "intentWrite",
   "depositStamp", "completeWrite", "cancelWrite", "finalizeWrite",
   "deleteWrite", "editInvoiceWrite"}

(* row holds the quotes columns the handler read and will use, quoted the  *)
(* link of the job it read; the other fields are its arguments and what an  *)
(* external call returned.                                                  *)
RequestStates ==
  [step   : Steps,
   row    : QuoteRows,
   user   : Users \cup {None},
   key    : Keys \cup {None},
   job    : Jobs \cup {None},
   quoted : BOOLEAN,
   intent : Intents \cup {None}]

Idle ==
  [step |-> "idle", row |-> DraftQuote, user |-> None, key |-> None,
   job |-> None, quoted |-> FALSE, intent |-> None]

(* A draft is created for an existing job, which nothing checks, or none. *)
Init ==
  /\ \/ quote = DraftQuote /\ jobs = [j \in Jobs |-> NoJob]
     \/ \E j \in Jobs, status \in JobStatus \ {"none"} :
          /\ quote = [DraftQuote EXCEPT !.job = j]
          /\ jobs = [i \in Jobs |-> IF i = j THEN [NoJob EXCEPT !.status = status]
                                             ELSE NoJob]
  /\ invoices = [j \in Jobs |-> NoInvoice]
  /\ ledger = {}
  /\ reserves = 0
  /\ consumed = [j \in Jobs |-> 0]
  /\ supplier = [k \in Keys |-> "none"]
  /\ intents = [p \in Intents |-> "none"]
  /\ refunded = {}
  /\ req = [r \in Requests |-> Idle]

(* A handler starts by reading the quotes row, of which it keeps what it   *)
(* will use; it ends, or goes on.                                           *)
Begin(r, step, row) ==
  /\ req[r] = Idle
  /\ req' = [req EXCEPT ![r] = [Idle EXCEPT !.step = step, !.row = row]]

At(r, step) == req[r].step = step
Goto(r, step) == req' = [req EXCEPT ![r].step = step]
End(r) == req' = [req EXCEPT ![r] = Idle]

-----------------------------------------------------------------------------
(* POST /quotes/:id/price.  The supplier is asked for prices between the   *)
(* check and the write; the lines and totals are replaced as a whole.  The  *)
(* voice agent's quoteConfigurator tool writes the same, and refuses only   *)
(* quotes that are accepted or void.                                        *)

PriceRead(r) ==
  /\ CanTransition(quote.status, "priced")
  /\ Begin(r, "priceWrite", DraftQuote)
  /\ UNCHANGED <<quote, jobs, invoices, ledger, reserves, consumed, supplier,
                 intents, refunded>>

VoicePriceRead(r) ==
  /\ VoiceCall
  /\ quote.status \notin {"accepted", "void"}
  /\ Begin(r, "priceWrite", DraftQuote)
  /\ UNCHANGED <<quote, jobs, invoices, ledger, reserves, consumed, supplier,
                 intents, refunded>>

PriceWrite(r) ==
  /\ At(r, "priceWrite")
  /\ \E total \in Totals :
       quote' = [quote EXCEPT !.status = "priced", !.total = total]
  /\ End(r)
  /\ UNCHANGED <<jobs, invoices, ledger, reserves, consumed, supplier,
                 intents, refunded>>

-----------------------------------------------------------------------------
(* POST /quotes/:id/commit.  The supplier commit is idempotent on its key. *)
(* The closer is credited on the total that was read.  The voice agent's    *)
(* commitQuote tool takes the same steps, under the quote's id.             *)

CommitRead(r) ==
  /\ CanTransition(quote.status, "committed")
  /\ req[r] = Idle
  /\ \E u \in Users, k \in Keys :
       req' = [req EXCEPT ![r] = [Idle EXCEPT !.step = "commitCall",
                 !.row = [DraftQuote EXCEPT !.total = quote.total],
                 !.user = u, !.key = k]]
  /\ UNCHANGED <<quote, jobs, invoices, ledger, reserves, consumed, supplier,
                 intents, refunded>>

(* Mutant: an error result of the supplier call is not checked. *)
Mutant_CommitCallUnchecked(r) ==
  /\ At(r, "commitCall")
  /\ \/ MayFail /\ UNCHANGED supplier
     \/ supplier' = [supplier EXCEPT ![req[r].key] = "committed"]
  /\ Goto(r, "commitWrite")
  /\ UNCHANGED <<quote, jobs, invoices, ledger, reserves, consumed, intents,
                 refunded>>

CommitCall(r) ==
  /\ At(r, "commitCall")
  /\ supplier' = [supplier EXCEPT ![req[r].key] =
                    IF @ = "none" THEN "committed" ELSE @]
  /\ Goto(r, "commitWrite")
  /\ UNCHANGED <<quote, jobs, invoices, ledger, reserves, consumed, intents,
                 refunded>>

OnQuoteCommitted(user, total) ==
  InsertLedgerRows(ledger,
    IF total = 0 THEN {}
    ELSE CreditRows(user, "quote_committed", QuoteId, Expanded[user][total]))

CommitWrite(r) ==
  /\ At(r, "commitWrite")
  /\ quote' = [quote EXCEPT !.status = "committed", !.ref = req[r].key,
                            !.closer = req[r].user]
  /\ ledger' = OnQuoteCommitted(req[r].user, req[r].row.total)
  /\ End(r)
  /\ UNCHANGED <<jobs, invoices, reserves, consumed, supplier, intents,
                 refunded>>

-----------------------------------------------------------------------------
(* POST /quotes/:id/accept by an operator, and the customer's              *)
(* POST /public/quotes/:token/accept: the same writes, the latter once the  *)
(* quote was shared and with the row read outside the transaction.  The     *)
(* supplier order conversion follows and its failure is swallowed.          *)

AcceptRead(r) ==
  /\ CanTransition(quote.status, "accepted")
  /\ Begin(r, "acceptWrite",
           [DraftQuote EXCEPT !.job = quote.job, !.ordered = quote.ordered])
  /\ UNCHANGED <<quote, jobs, invoices, ledger, reserves, consumed, supplier,
                 intents, refunded>>

PublicAcceptRead(r) == quote.shared /\ AcceptRead(r)

(* Mutants: the look-up is missing; stock is released instead. *)
Mutant_ReserveEachTime == reserves' = reserves + 1
Mutant_ReleaseOnAccept == reserves' = IF reserves > 0 THEN reserves ELSE -1

(* The reserve movements are looked up after the row lock is held. *)
ReserveInventoryForQuote == reserves' = IF reserves > 0 THEN reserves ELSE 1

(* The job named by the row that was read is linked, else one is created.  *)
LinkJob(j) ==
  /\ jobs' = [jobs EXCEPT ![j].quoted = TRUE]
  /\ quote' = [quote EXCEPT !.status = "accepted"]

(* Mutant: the new job is not linked back to the quote. *)
Mutant_EnsureJobUnlinked(row) ==
  IF row.job # None
  THEN LinkJob(row.job)
  ELSE \E j \in Jobs :
         /\ jobs[j] = NoJob
         /\ jobs' = [jobs EXCEPT ![j] = [status |-> "open", quoted |-> TRUE]]
         /\ quote' = [quote EXCEPT !.status = "accepted"]

EnsureJob(row) ==
  IF row.job # None
  THEN LinkJob(row.job)
  ELSE \E j \in Jobs :
         /\ jobs[j] = NoJob
         /\ jobs' = [jobs EXCEPT ![j] = [status |-> "open", quoted |-> TRUE]]
         /\ quote' = [quote EXCEPT !.status = "accepted", !.job = j]

(* Mutant: the condition on an order that exists is inverted. *)
Mutant_AcceptWriteInverted(r) ==
  /\ At(r, "acceptWrite")
  /\ ReserveInventoryForQuote
  /\ EnsureJob(req[r].row)
  /\ IF req[r].row.ordered THEN Goto(r, "convertCall") ELSE End(r)
  /\ UNCHANGED <<invoices, ledger, consumed, supplier, intents, refunded>>

AcceptWrite(r) ==
  /\ At(r, "acceptWrite")
  /\ ReserveInventoryForQuote
  /\ EnsureJob(req[r].row)
  /\ IF req[r].row.ordered THEN End(r) ELSE Goto(r, "convertCall")
  /\ UNCHANGED <<invoices, ledger, consumed, supplier, intents, refunded>>

(* Mutant: the order is stamped although the supplier refused. *)
Mutant_ConvertCallUnchecked(r) ==
  /\ At(r, "convertCall")
  /\ supplier' = [supplier EXCEPT ![QuoteKey] =
                    IF @ = "committed" THEN "ordered" ELSE @]
  /\ Goto(r, "convertStamp")
  /\ UNCHANGED <<quote, jobs, invoices, ledger, reserves, consumed, intents,
                 refunded>>

(* The supplier orders what was committed under the quote's id, once. *)
ConvertCall(r) ==
  /\ At(r, "convertCall")
  /\ IF supplier[QuoteKey] \in {"committed", "ordered"}
     THEN /\ supplier' = [supplier EXCEPT ![QuoteKey] = "ordered"]
          /\ Goto(r, "convertStamp")
     ELSE End(r) /\ UNCHANGED supplier
  /\ UNCHANGED <<quote, jobs, invoices, ledger, reserves, consumed, intents,
                 refunded>>

ConvertStamp(r) ==
  /\ At(r, "convertStamp")
  /\ quote' = [quote EXCEPT !.ordered = TRUE]
  /\ End(r)
  /\ UNCHANGED <<jobs, invoices, ledger, reserves, consumed, supplier,
                 intents, refunded>>

-----------------------------------------------------------------------------
(* POST /quotes/:id/share mints the customer's token and freezes the       *)
(* deposit on the total that was read.  A live token is reused: no write.   *)

ResolveDeposit(total) ==
  LET share   == (total * DepositPct + 50) \div 100
      atLeast == IF share < DepositMin THEN DepositMin ELSE share
  IN  IF DepositPct = 0 THEN 0
      ELSE IF atLeast > DepositMax THEN DepositMax ELSE atLeast

ShareRead(r) ==
  /\ quote.status = "committed"
  /\ Begin(r, "shareWrite", [DraftQuote EXCEPT !.total = quote.total])
  /\ UNCHANGED <<quote, jobs, invoices, ledger, reserves, consumed, supplier,
                 intents, refunded>>

ShareWrite(r) ==
  /\ At(r, "shareWrite")
  /\ quote' = [quote EXCEPT !.shared = TRUE,
                            !.deposit = ResolveDeposit(req[r].row.total)]
  /\ End(r)
  /\ UNCHANGED <<jobs, invoices, ledger, reserves, consumed, supplier,
                 intents, refunded>>

-----------------------------------------------------------------------------
(* POST /quotes/:id/void.  The transaction voids the quote, reverses the   *)
(* commission if the status that was read had earned one, and voids every   *)
(* live invoice of the quote that is not paid.  After it, best effort, the  *)
(* supplier's quote is voided and the deposit, if the row that was read     *)
(* showed one paid and not refunded, is refunded and stamped.               *)

VoidRead(r) ==
  /\ CanTransition(quote.status, "void")
  /\ Begin(r, "voidWrite",
           [DraftQuote EXCEPT !.status = quote.status, !.ref = quote.ref,
              !.paid = quote.paid, !.refunded = quote.refunded,
              !.intent = quote.intent])
  /\ UNCHANGED <<quote, jobs, invoices, ledger, reserves, consumed, supplier,
                 intents, refunded>>

(* Mutant: an accepted quote's commission is not reversed. *)
Mutant_EarnedWhileCommitted(status) == status = "committed"

EarnedCommission(status) == status \in {"committed", "accepted"}

ReverseQuoteCommitted == WriteReversals(ledger, "quote_committed", QuoteId)

Live(invoice) == invoice.status \notin {"none", "deleted"}

VoidUnpaidInvoices ==
  [j \in Jobs |->
     IF Live(invoices[j]) /\ invoices[j].status # "paid"
     THEN [invoices[j] EXCEPT !.status = "void"]
     ELSE invoices[j]]

RefundDue(row) == row.paid /\ ~row.refunded /\ row.intent # None

AfterSupplierVoid(r) ==
  IF RefundDue(req[r].row) THEN Goto(r, "refundCall") ELSE End(r)

VoidWrite(r) ==
  /\ At(r, "voidWrite")
  /\ quote' = [quote EXCEPT !.status = "void"]
  /\ ledger' = IF EarnedCommission(req[r].row.status)
               THEN ReverseQuoteCommitted ELSE ledger
  /\ invoices' = VoidUnpaidInvoices
  /\ IF req[r].row.ref # None THEN Goto(r, "voidSupplier")
                              ELSE AfterSupplierVoid(r)
  /\ UNCHANGED <<jobs, reserves, consumed, supplier, intents, refunded>>

(* The supplier refuses once it has ordered, and ignores an unknown id. *)
VoidSupplier(r) ==
  /\ At(r, "voidSupplier")
  /\ \/ supplier' = [supplier EXCEPT ![QuoteKey] =
                       IF @ = "committed" THEN "void" ELSE @]
     \/ MayFail /\ UNCHANGED supplier
  /\ AfterSupplierVoid(r)
  /\ UNCHANGED <<quote, jobs, invoices, ledger, reserves, consumed, intents,
                 refunded>>

(* Stripe refuses an intent that has not succeeded or was refunded before. *)
RefundCall(r) ==
  /\ At(r, "refundCall")
  /\ LET p == req[r].row.intent
     IN  IF intents[p] \in {"paid", "seen"} /\ p \notin refunded
         THEN refunded' = refunded \cup {p} /\ Goto(r, "refundStamp")
         ELSE UNCHANGED refunded /\ End(r)
  /\ UNCHANGED <<quote, jobs, invoices, ledger, reserves, consumed, supplier,
                 intents>>

RefundStamp(r) ==
  /\ At(r, "refundStamp")
  /\ quote' = [quote EXCEPT !.refunded = TRUE]
  /\ End(r)
  /\ UNCHANGED <<jobs, invoices, ledger, reserves, consumed, supplier,
                 intents, refunded>>

-----------------------------------------------------------------------------
(* POST /public/quotes/:token/deposit-intent.  The row is read without a   *)
(* transaction; an intent it already names is re-issued and nothing is      *)
(* written.  Otherwise Stripe creates one and the row is updated.           *)

IntentRead(r) ==
  /\ quote.shared /\ quote.status = "accepted"
  /\ quote.deposit > 0 /\ ~quote.paid
  /\ quote.intent = None
  /\ Begin(r, "intentCreate", DraftQuote)
  /\ UNCHANGED <<quote, jobs, invoices, ledger, reserves, consumed, supplier,
                 intents, refunded>>

IntentCreate(r) ==
  /\ At(r, "intentCreate")
  /\ \E p \in Intents :
       /\ intents[p] = "none"
       /\ intents' = [intents EXCEPT ![p] = "open"]
       /\ req' = [req EXCEPT ![r].step = "intentWrite", ![r].intent = p]
  /\ UNCHANGED <<quote, jobs, invoices, ledger, reserves, consumed, supplier,
                 refunded>>

IntentWrite(r) ==
  /\ At(r, "intentWrite")
  /\ quote' = [quote EXCEPT !.intent = req[r].intent]
  /\ End(r)
  /\ UNCHANGED <<jobs, invoices, ledger, reserves, consumed, supplier,
                 intents, refunded>>

(* The customer completes the payment in the browser, at any later time. *)
CustomerPaysDeposit(p) ==
  /\ intents[p] = "open"
  /\ intents' = [intents EXCEPT ![p] = "paid"]
  /\ UNCHANGED <<quote, jobs, invoices, ledger, reserves, consumed, supplier,
                 refunded, req>>

(* payment_intent.succeeded: the event is recorded, then the quote that    *)
(* names the intent is looked up; with no match, or a deposit already       *)
(* stamped, the handler returns.                                            *)
DepositEvent(r, p) ==
  /\ req[r] = Idle
  /\ intents[p] = "paid"
  /\ intents' = [intents EXCEPT ![p] = "seen"]
  /\ req' = IF quote.intent = p /\ ~quote.paid
            THEN [req EXCEPT ![r] = [Idle EXCEPT !.step = "depositStamp",
                                                 !.intent = p]]
            ELSE req
  /\ UNCHANGED <<quote, jobs, invoices, ledger, reserves, consumed, supplier,
                 refunded>>

DepositStamp(r) ==
  /\ At(r, "depositStamp")
  /\ quote' = [quote EXCEPT !.paid = TRUE]
  /\ End(r)
  /\ UNCHANGED <<jobs, invoices, ledger, reserves, consumed, supplier,
                 intents, refunded>>

-----------------------------------------------------------------------------
(* POST /jobs/:id/transition to completed or canceled.  On completion of a *)
(* job that was read with a quote, the balance invoice is drafted and the   *)
(* quote's parts are consumed; both look for an earlier result after the    *)
(* job row's lock is held.                                                  *)

(* Mutant: the job's transition matrix is not consulted. *)
Mutant_JobReadUnchecked(r, j, step) ==
  /\ jobs[j].status # "none"
  /\ req[r] = Idle
  /\ req' = [req EXCEPT ![r] = [Idle EXCEPT !.step = step, !.job = j,
                                            !.quoted = jobs[j].quoted]]
  /\ UNCHANGED <<quote, jobs, invoices, ledger, reserves, consumed, supplier,
                 intents, refunded>>

JobRead(r, j, step) ==
  /\ jobs[j].status = "open"
  /\ req[r] = Idle
  /\ req' = [req EXCEPT ![r] = [Idle EXCEPT !.step = step, !.job = j,
                                            !.quoted = jobs[j].quoted]]
  /\ UNCHANGED <<quote, jobs, invoices, ledger, reserves, consumed, supplier,
                 intents, refunded>>

(* Mutants: no look-up of an earlier invoice; the deposit is recorded as a *)
(* credit line but the total is not reduced.                                *)
Mutant_InvoiceEachTime(j) ==
  LET credit == IF quote.paid THEN quote.deposit ELSE 0
  IN  [invoices EXCEPT ![j] =
         [status |-> "draft", total |-> quote.total - credit,
          credit |-> credit, intent |-> FALSE, edited |-> FALSE]]

Mutant_InvoiceFullTotal(j) ==
  LET credit == IF quote.paid THEN quote.deposit ELSE 0
  IN  IF \E i \in Jobs : Live(invoices[i])
      THEN invoices
      ELSE [invoices EXCEPT ![j] =
              [status |-> "draft", total |-> quote.total,
               credit |-> credit, intent |-> FALSE, edited |-> FALSE]]

GenerateBalanceInvoice(j) ==
  LET credit == IF quote.paid THEN quote.deposit ELSE 0
  IN  IF \E i \in Jobs : Live(invoices[i])
      THEN invoices
      ELSE [invoices EXCEPT ![j] =
              [status |-> "draft", total |-> quote.total - credit,
               credit |-> credit, intent |-> FALSE, edited |-> FALSE]]

ConsumeInventory(j) ==
  [consumed EXCEPT ![j] = IF @ > 0 THEN @ ELSE 1]

CompleteWrite(r) ==
  /\ At(r, "completeWrite")
  /\ LET j == req[r].job
     IN  /\ jobs' = [jobs EXCEPT ![j].status = "completed"]
         /\ IF req[r].quoted
            THEN /\ invoices' = GenerateBalanceInvoice(j)
                 /\ consumed' = ConsumeInventory(j)
            ELSE UNCHANGED <<invoices, consumed>>
  /\ End(r)
  /\ UNCHANGED <<quote, ledger, reserves, supplier, intents, refunded>>

CancelWrite(r) ==
  /\ At(r, "cancelWrite")
  /\ jobs' = [jobs EXCEPT ![req[r].job].status = "canceled"]
  /\ End(r)
  /\ UNCHANGED <<quote, invoices, ledger, reserves, consumed, supplier,
                 intents, refunded>>

-----------------------------------------------------------------------------
(* The balance invoice as the quote sees it: an office user edits it,      *)
(* finalizes it (which creates its PaymentIntent) or deletes it, each on    *)
(* the strength of having read it as a draft, and the customer's payment    *)
(* marks it paid, whatever its status, because no step cancels an intent.   *)

InvoiceRead(r, j, step) ==
  /\ invoices[j].status = "draft"
  /\ step = "finalizeWrite" => invoices[j].total > 0
  /\ req[r] = Idle
  /\ req' = [req EXCEPT ![r] = [Idle EXCEPT !.step = step, !.job = j]]
  /\ UNCHANGED <<quote, jobs, invoices, ledger, reserves, consumed, supplier,
                 intents, refunded>>

(* A deleted row keeps its deletion mark: the write finds it by id. *)
FinalizeWrite(r) ==
  /\ At(r, "finalizeWrite")
  /\ invoices' = [invoices EXCEPT
       ![req[r].job].status = IF @ = "deleted" THEN @ ELSE "open",
       ![req[r].job].intent = TRUE]
  /\ End(r)
  /\ UNCHANGED <<quote, jobs, ledger, reserves, consumed, supplier, intents,
                 refunded>>

DeleteWrite(r) ==
  /\ At(r, "deleteWrite")
  /\ invoices' = [invoices EXCEPT ![req[r].job].status = "deleted"]
  /\ End(r)
  /\ UNCHANGED <<quote, jobs, ledger, reserves, consumed, supplier, intents,
                 refunded>>

(* PATCH /invoices/:id: new lines take the place of all of them, the        *)
(* deposit line included; a new tax rate keeps the lines and is computed on *)
(* them.  The total follows, and nothing asks the quote.                    *)
EditInvoiceWrite(r) ==
  /\ At(r, "editInvoiceWrite")
  /\ \E total \in Totals :
       invoices' = [invoices EXCEPT
         ![req[r].job] = [@ EXCEPT !.total = total, !.credit = 0,
                                   !.edited = TRUE]]
  /\ End(r)
  /\ UNCHANGED <<quote, jobs, ledger, reserves, consumed, supplier, intents,
                 refunded>>

InvoicePaid(j) ==
  /\ invoices[j].intent /\ invoices[j].status \in {"open", "void"}
  /\ invoices' = [invoices EXCEPT ![j].status = "paid"]
  /\ UNCHANGED <<quote, jobs, ledger, reserves, consumed, supplier, intents,
                 refunded, req>>

(* A request in flight crashes, or an error ends it: its open transaction  *)
(* is rolled back and what it has not yet called is not called.  When the   *)
(* deposit webhook fails, the event row stays after a crash (the event is   *)
(* lost) and is removed after an error (Stripe delivers it again).          *)
Fail(r) ==
  /\ MayFail
  /\ ~At(r, "idle")
  /\ End(r)
  /\ \/ UNCHANGED intents
     \/ /\ At(r, "depositStamp")
        /\ intents' = [intents EXCEPT ![req[r].intent] = "paid"]
  /\ UNCHANGED <<quote, jobs, invoices, ledger, reserves, consumed, supplier,
                 refunded>>

-----------------------------------------------------------------------------

Arrive(r) ==
  \/ PriceRead(r) \/ VoicePriceRead(r) \/ CommitRead(r) \/ AcceptRead(r)
  \/ PublicAcceptRead(r) \/ ShareRead(r) \/ VoidRead(r) \/ IntentRead(r)
  \/ \E j \in Jobs : \/ JobRead(r, j, "completeWrite")
                     \/ JobRead(r, j, "cancelWrite")
                     \/ InvoiceRead(r, j, "finalizeWrite")
                     \/ InvoiceRead(r, j, "deleteWrite")
                     \/ InvoiceRead(r, j, "editInvoiceWrite")

Proceed(r) ==
  \/ PriceWrite(r) \/ CommitCall(r) \/ CommitWrite(r) \/ AcceptWrite(r)
  \/ ConvertCall(r) \/ ConvertStamp(r) \/ ShareWrite(r) \/ VoidWrite(r)
  \/ VoidSupplier(r) \/ RefundCall(r) \/ RefundStamp(r) \/ IntentCreate(r)
  \/ IntentWrite(r) \/ DepositStamp(r) \/ CompleteWrite(r) \/ CancelWrite(r)
  \/ FinalizeWrite(r) \/ DeleteWrite(r) \/ EditInvoiceWrite(r)

Environment ==
  \/ \E p \in Intents : CustomerPaysDeposit(p)
  \/ \E j \in Jobs : InvoicePaid(j)

Next ==
  \/ \E r \in Requests : \/ Arrive(r) \/ Proceed(r) \/ Fail(r)
                         \/ \E p \in Intents : DepositEvent(r, p)
  \/ Environment

Spec == Init /\ [][Next]_vars

(* Node runs every handler it has started; Stripe delivers its events.     *)
(* Operators and customers owe nothing.                                     *)
FairSpec ==
  /\ Spec
  /\ \A r \in Requests : WF_vars(Proceed(r))
  /\ \A p \in Intents : WF_vars(\E r \in Requests : DepositEvent(r, p))

-----------------------------------------------------------------------------
(* Properties that hold however requests interleave and fail.               *)

(* Every variable stays in its table's or protocol's domain. *)
TypeOK ==
  /\ quote \in QuoteRows
  /\ jobs \in [Jobs -> JobRows]
  /\ invoices \in [Jobs -> Invoices]
  /\ ledger \subseteq LedgerRows
  /\ reserves \in Nat
  /\ consumed \in [Jobs -> Nat]
  /\ supplier \in [Keys -> SupplierState]
  /\ intents \in [Intents -> IntentState]
  /\ refunded \subseteq Intents
  /\ req \in [Requests -> RequestStates]

(* The ledger's rows have distinct keys, and every reversal balances a      *)
(* credit of the same user: racing voids never claw back twice.             *)
LedgerSound == UniqueKeys(ledger) /\ ReversalsMatchCredits(ledger)

(* However many jobs complete for the quote, and however often, it has at   *)
(* most one live balance invoice.                                           *)
OneLiveBalanceInvoice ==
  \A i, j \in Jobs : Live(invoices[i]) /\ Live(invoices[j]) => i = j

(* Racing accepts reserve the quote's stock once, and racing completions of *)
(* a job consume it once.                                                   *)
StockMovedOnce == reserves <= 1 /\ \A j \in Jobs : consumed[j] <= 1

(* An accepted quote always names a job that names it back, and has its     *)
(* stock reserved, whatever pricing, commits, voids and other acceptances   *)
(* raced with the acceptance.                                               *)
AcceptedHasJob ==
  quote.status = "accepted" =>
    quote.job # None /\ jobs[quote.job].quoted /\ reserves = 1

(* A quote that is committed or accepted here was committed at the supplier *)
(* under the reference it stores.                                           *)
CommittedAtSupplier ==
  quote.status \in {"committed", "accepted"} =>
    quote.ref # None /\ supplier[quote.ref] # "none"

(* The closer on record of a committed quote has a credit for it if every   *)
(* total pays that closer something.                                        *)
CloserCredited ==
  quote.status \in {"committed", "accepted"} =>
    /\ quote.closer # None
    /\ (\A t \in Totals : Expanded[quote.closer][t] # <<>>) =>
         \E row \in OriginalRows(ledger, "quote_committed", QuoteId) :
           row.user = quote.closer

(* Stamps never get ahead of the outside world: an order stamp has an order *)
(* at the supplier, a deposit stamp a succeeded payment, a refund stamp a   *)
(* refunded one.                                                            *)
StampsAreTrue ==
  /\ quote.ordered => supplier[QuoteKey] = "ordered"
  /\ quote.paid => \E p \in Intents : intents[p] \in {"paid", "seen"}
  /\ quote.refunded => refunded # {}

-----------------------------------------------------------------------------
(* Properties of requests handled one at a time.                            *)

(* A void quote owes no commission. *)
VoidUnwindsCommission ==
  quote.status = "void" =>
    OutstandingCredits(ledger, "quote_committed", QuoteId) = {}

(* A quote has at most one job. *)
OneJobPerQuote == \A i, j \in Jobs : jobs[i].quoted /\ jobs[j].quoted => i = j

(* Stock is consumed by completed jobs of the quote only, and billed: a job *)
(* has consumed the parts if and only if a balance invoice was drafted.     *)
CompletionConsumes ==
  \A j \in Jobs :
    /\ consumed[j] = 1 => jobs[j] = [status |-> "completed", quoted |-> TRUE]
    /\ consumed[j] = 1 <=> invoices[j].status # "none"

(* A live balance invoice that nobody edited bills the quote's total less   *)
(* the whole deposit or nothing of it, and credits only a deposit that was  *)
(* paid.  What an edit writes, and a deposit paid later, it does not bound. *)
BalanceAddsUp ==
  \A j \in Jobs : Live(invoices[j]) /\ ~invoices[j].edited =>
    /\ invoices[j].total + invoices[j].credit = quote.total
    /\ invoices[j].credit \in {0, quote.deposit}
    /\ invoices[j].credit # 0 => quote.paid

(* Requests handled one at a time implement the atomic contract, failures  *)
(* included: no intermediate state of a handler shows.                      *)
Contract == INSTANCE QuoteContract WITH
  status   <- quote.status,
  owed     <- OutstandingCredits(ledger, "quote_committed", QuoteId) # {},
  jobCount <- Cardinality({j \in Jobs : jobs[j].quoted})

ImplementsContract == Contract!Spec

(* An accepted quote is ordered from the supplier, or leaves that status,   *)
(* when nothing fails and the commit went out under the quote's own id.     *)
AcceptedEventuallyOrdered ==
  quote.status = "accepted" ~> (quote.ordered \/ quote.status # "accepted")
=============================================================================
