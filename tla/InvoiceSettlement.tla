------------------------- MODULE InvoiceSettlement -------------------------
(***************************************************************************)
(* One invoice from draft to refund: staff edit, finalize, send, delete and *)
(* refund it; the customer pays its PaymentIntent; Stripe's events reach    *)
(* the webhook late, twice, out of order and concurrently; and the branch   *)
(* manager's commission is credited and reversed.  A balance invoice is     *)
(* also voided with its quote.                                              *)
(*                                                                         *)
(* Every handler addresses the invoice by id or by its PaymentIntent, so    *)
(* one invoice is modelled.  A staff handler is one READ COMMITTED          *)
(* transaction in two steps: the unlocked read with the checks made on it,  *)
(* and, from its first UPDATE of the row, everything it writes.  The        *)
(* webhook records the event in stripe_events, reads the invoice outside    *)
(* any transaction, and then writes in one.  The insert of the event and    *)
(* the read are one step, for only deliveries of the same event look at the *)
(* event row.                                                               *)
(***************************************************************************)
EXTENDS Integers, Sequences, FiniteSets, FiniteSetsExt, CommissionLedger

CONSTANTS
  Desk,        \* staff requests that may be in flight at once
  Hooks,       \* webhook deliveries that may be in flight at once
  Users,       \* branch managers
  Intents,     \* ids for Stripe PaymentIntents
  RefundIds,   \* ids for Stripe refunds
  Totals,      \* totals, in cents, a draft may be given
  Parts,       \* amounts, in cents, a partial refund may name
  Expanded,    \* [Users -> [Totals -> non-zero commissions of the plan]]
  MayCrash,    \* whether the server process may stop inside a handler
  None

InvoiceId == "invoice"

ASSUME ConstantsAssumption ==
  /\ Totals \subseteq Nat /\ Parts \subseteq Nat \ {0}
  /\ Expanded \in [Users -> [Totals -> Seq(Int \ {0})]]
  /\ IsFiniteSet(RefundIds)
  /\ MayCrash \in BOOLEAN
  /\ None \notin Users \cup Intents \cup RefundIds

VARIABLES
  invoice,     \* the invoices row
  payments,    \* intents whose charge has a payments row
  refundRows,  \* Stripe refunds that have a refunds row
  ledger,      \* commission_ledger rows
  manager,     \* the branch's active manager
  stripeEvents,\* events with a stripe_events row
  charges,     \* [Intents -> the PaymentIntent at Stripe]
  refunds,     \* [RefundIds -> the refund at Stripe]
  emitted,     \* events Stripe has for the webhook
  acked,       \* events some delivery of which was answered 200
  desk,        \* [Desk -> the staff request in flight]
  hook         \* [Hooks -> the delivery in flight]

rows   == <<invoice, payments, refundRows, ledger, manager, stripeEvents>>
stripe == <<charges, refunds, emitted, acked>>
vars   == <<rows, stripe, desk, hook>>

-----------------------------------------------------------------------------
(* Rows, Stripe's objects and events, and requests in flight. *)

InvoiceStatus == {"draft", "finalized", "sent", "paid", "void"}

InvoiceRows ==
  [status  : InvoiceStatus,
   total   : Totals,
   quoted  : BOOLEAN,               \* quote_id is set
   intent  : Intents \cup {None},   \* stripe_payment_intent_id
   paidAt  : BOOLEAN,               \* paid_at is set
   deleted : BOOLEAN]               \* deleted_at is set

(* "shown": the customer holds its client secret. *)
Charges ==
  [status : {"none", "open", "shown", "succeeded"}, amount : Totals \cup {0}]

Refunds == [intent : Intents \cup {None}, amount : Nat]

PaidEvent(p) == [kind |-> "succeeded", intent |-> p, refunds |-> {}]

(* charge.refunded lists the refunds of the charge so far. *)
RefundEvent(p, ids) == [kind |-> "refunded", intent |-> p, refunds |-> ids]

Events ==
  [kind : {"succeeded", "refunded"}, intent : Intents,
   refunds : SUBSET RefundIds]

IdleDesk ==
  [step |-> "idle", intent |-> None, amount |-> 0, full |-> FALSE,
   refund |-> None]

DeskStates ==
  [step   : {"idle", "editWrite", "finalizeWrite", "sendWrite",
             "deleteWrite", "refundCall", "refundWrite"},
   intent : Intents \cup {None},
   amount : Nat,
   full   : BOOLEAN,
   refund : RefundIds \cup {None}]

IdleHook == [step |-> "idle", event |-> None, wasPaid |-> FALSE]

HookStates ==
  [step    : {"idle", "markPaid", "applyRefund"},
   event   : Events \cup {None},
   wasPaid : BOOLEAN]

LedgerRows ==
  [user : Users, kind : {"invoice_paid", "reverse_invoice_paid"},
   source : {InvoiceId} \X Nat, amount : Int]

NewInvoice(total, quoted) ==
  [status |-> "draft", total |-> total, quoted |-> quoted, intent |-> None,
   paidAt |-> FALSE, deleted |-> FALSE]

(* POST /jobs/:id/invoices, or the completion of a job with a quote. *)
Init ==
  /\ invoice \in {NewInvoice(t, q) : t \in Totals, q \in BOOLEAN}
  /\ payments = {} /\ refundRows = {} /\ ledger = {}
  /\ manager \in Users \cup {None}
  /\ stripeEvents = {}
  /\ charges = [p \in Intents |-> [status |-> "none", amount |-> 0]]
  /\ refunds = [i \in RefundIds |-> [intent |-> None, amount |-> 0]]
  /\ emitted = {} /\ acked = {}
  /\ desk = [d \in Desk |-> IdleDesk]
  /\ hook = [h \in Hooks |-> IdleHook]

DeskAt(d, step) == desk[d].step = step
DeskEnd(d) == desk' = [desk EXCEPT ![d] = IdleDesk]

SumOf(ids) == SumFunctionOnSet([i \in RefundIds |-> refunds[i].amount], ids)

RefundsOf(p) == {i \in RefundIds : refunds[i].intent = p}

-----------------------------------------------------------------------------
(* PATCH and DELETE /invoices/:id, POST /invoices/:id/finalize and /send.   *)
(* Each checks the status it reads and then updates the row by its id.      *)

ReadRow(d, step, statuses) ==
  /\ desk[d] = IdleDesk
  /\ ~invoice.deleted /\ invoice.status \in statuses
  /\ desk' = [desk EXCEPT ![d].step = step]
  /\ UNCHANGED <<rows, stripe, hook>>

(* Mutant: a finalized invoice stays editable. *)
Mutant_EditFinalized(d) == ReadRow(d, "editWrite", {"draft", "finalized"})

EditRead(d) == ReadRow(d, "editWrite", {"draft"})

SendRead(d) == ReadRow(d, "sendWrite", {"finalized", "sent"})
DeleteRead(d) == ReadRow(d, "deleteWrite", {"draft"})

EditWrite(d) ==
  /\ DeskAt(d, "editWrite")
  /\ \E total \in Totals : invoice' = [invoice EXCEPT !.total = total]
  /\ DeskEnd(d)
  /\ UNCHANGED <<payments, refundRows, ledger, manager, stripeEvents, stripe,
                 hook>>

SendWrite(d) ==
  /\ DeskAt(d, "sendWrite")
  /\ invoice' = [invoice EXCEPT !.status = "sent"]
  /\ DeskEnd(d)
  /\ UNCHANGED <<payments, refundRows, ledger, manager, stripeEvents, stripe,
                 hook>>

DeleteWrite(d) ==
  /\ DeskAt(d, "deleteWrite")
  /\ invoice' = [invoice EXCEPT !.deleted = TRUE]
  /\ DeskEnd(d)
  /\ UNCHANGED <<payments, refundRows, ledger, manager, stripeEvents, stripe,
                 hook>>

(* The PaymentIntent is created for the total that was read; nobody else    *)
(* knows of it before the write.                                            *)
FinalizeRead(d) ==
  /\ desk[d] = IdleDesk
  /\ ~invoice.deleted /\ invoice.status = "draft" /\ invoice.total > 0
  /\ \E p \in Intents :
       /\ charges[p].status = "none"
       /\ charges' = [charges EXCEPT
            ![p] = [status |-> "open", amount |-> invoice.total]]
       /\ desk' = [desk EXCEPT ![d].step = "finalizeWrite", ![d].intent = p]
  /\ UNCHANGED <<rows, refunds, emitted, acked, hook>>

FinalizeWrite(d) ==
  /\ DeskAt(d, "finalizeWrite")
  /\ invoice' = [invoice EXCEPT !.status = "finalized",
                                !.intent = desk[d].intent]
  /\ DeskEnd(d)
  /\ UNCHANGED <<payments, refundRows, ledger, manager, stripeEvents, stripe,
                 hook>>

-----------------------------------------------------------------------------
(* The customer opens the pay page, which hands out the client secret of    *)
(* the intent the row names, and pays at any later time.                    *)

OpenPayPage ==
  /\ ~invoice.deleted /\ ~invoice.paidAt /\ invoice.intent # None
  /\ charges[invoice.intent].status = "open"
  /\ charges' = [charges EXCEPT ![invoice.intent].status = "shown"]
  /\ UNCHANGED <<rows, refunds, emitted, acked, desk, hook>>

CustomerPays(p) ==
  /\ charges[p].status = "shown"
  /\ charges' = [charges EXCEPT ![p].status = "succeeded"]
  /\ emitted' = emitted \cup {PaidEvent(p)}
  /\ UNCHANGED <<rows, refunds, acked, desk, hook>>

-----------------------------------------------------------------------------
(* Refunds.  Stripe refunds a succeeded charge up to its amount.            *)

StripeAccepts(p, amount) ==
  /\ charges[p].status = "succeeded"
  /\ SumOf(RefundsOf(p)) + amount <= charges[p].amount

StripeRefunds(p, amount, id) ==
  /\ refunds[id].intent = None
  /\ refunds' = [refunds EXCEPT ![id] = [intent |-> p, amount |-> amount]]
  /\ emitted' = emitted \cup {RefundEvent(p, RefundsOf(p) \cup {id})}

(* Staff may also refund in Stripe's own dashboard. *)
DashboardRefund(p) ==
  /\ \E amount \in Parts, id \in RefundIds :
       StripeAccepts(p, amount) /\ StripeRefunds(p, amount, id)
  /\ UNCHANGED <<rows, charges, acked, desk, hook>>

(* POST /invoices/:id/refund: the amount defaults to what remains. *)
RefundRead(d) ==
  /\ desk[d] = IdleDesk
  /\ ~invoice.deleted /\ invoice.status \in {"paid", "void"}
  /\ invoice.intent # None
  /\ LET remaining == invoice.total - SumOf(refundRows)
     IN  \E amount \in (Parts \cup {remaining}) \cap (1..remaining) :
           desk' = [desk EXCEPT
             ![d] = [IdleDesk EXCEPT !.step = "refundCall",
                       !.intent = invoice.intent, !.amount = amount,
                       !.full = (amount = remaining)]]
  /\ UNCHANGED <<rows, stripe, hook>>

RefundCall(d) ==
  /\ DeskAt(d, "refundCall")
  /\ LET p == desk[d].intent
     IN  IF StripeAccepts(p, desk[d].amount)
         THEN \E id \in RefundIds :
                /\ StripeRefunds(p, desk[d].amount, id)
                /\ desk' = [desk EXCEPT ![d].step = "refundWrite",
                                        ![d].refund = id]
         ELSE DeskEnd(d) /\ UNCHANGED <<refunds, emitted>>
  /\ UNCHANGED <<rows, charges, acked, hook>>

(* Mutant: any refund voids the invoice. *)
Mutant_RefundWriteAlwaysVoids(d) ==
  /\ DeskAt(d, "refundWrite")
  /\ IF desk[d].refund \in refundRows
     THEN UNCHANGED <<refundRows, invoice>>
     ELSE /\ refundRows' = refundRows \cup {desk[d].refund}
          /\ invoice' = [invoice EXCEPT !.status = "void"]
  /\ DeskEnd(d)
  /\ UNCHANGED <<payments, ledger, manager, stripeEvents, stripe, hook>>

(* If the webhook inserted the row first, the unique index aborts the       *)
(* transaction.  The commission is left to the webhook.                     *)
RefundWrite(d) ==
  /\ DeskAt(d, "refundWrite")
  /\ IF desk[d].refund \in refundRows
     THEN UNCHANGED <<refundRows, invoice>>
     ELSE /\ refundRows' = refundRows \cup {desk[d].refund}
          /\ invoice' = IF desk[d].full
                        THEN [invoice EXCEPT !.status = "void"] ELSE invoice
  /\ DeskEnd(d)
  /\ UNCHANGED <<payments, ledger, manager, stripeEvents, stripe, hook>>

(* A staff request crashes or hits an error: its transaction rolls back,    *)
(* what Stripe did for it stays.                                            *)
DeskFail(d) ==
  /\ ~DeskAt(d, "idle")
  /\ DeskEnd(d)
  /\ UNCHANGED <<rows, stripe, hook>>

-----------------------------------------------------------------------------
(* POST /webhooks/stripe. *)

HookEnd(h) == hook' = [hook EXCEPT ![h] = IdleHook]

(* Mutant: the event table is written but not consulted. *)
Mutant_DeliverUnchecked(h, e) ==
  /\ hook[h] = IdleHook /\ e \in emitted
  /\ stripeEvents' = stripeEvents \cup {e}
  /\ IF e.intent = invoice.intent
     THEN /\ hook' = [hook EXCEPT
               ![h] = [step    |-> IF e.kind = "succeeded" THEN "markPaid"
                                                           ELSE "applyRefund",
                       event   |-> e,
                       wasPaid |-> invoice.status = "paid"]]
          /\ UNCHANGED acked
     ELSE acked' = acked \cup {e} /\ UNCHANGED hook
  /\ UNCHANGED <<invoice, payments, refundRows, ledger, manager, charges,
                 refunds, emitted, desk>>

(* A delivery of an event that has no row: one that matches no invoice is   *)
(* answered 200 at once.                                                    *)
Deliver(h, e) ==
  /\ hook[h] = IdleHook /\ e \in emitted \ stripeEvents
  /\ stripeEvents' = stripeEvents \cup {e}
  /\ IF e.intent = invoice.intent
     THEN /\ hook' = [hook EXCEPT
               ![h] = [step    |-> IF e.kind = "succeeded" THEN "markPaid"
                                                           ELSE "applyRefund",
                       event   |-> e,
                       wasPaid |-> invoice.status = "paid"]]
          /\ UNCHANGED acked
     ELSE acked' = acked \cup {e} /\ UNCHANGED hook
  /\ UNCHANGED <<invoice, payments, refundRows, ledger, manager, charges,
                 refunds, emitted, desk>>

(* A delivery of an event that has a row is answered 200. *)
Replay(h, e) ==
  /\ hook[h] = IdleHook /\ e \in emitted \cap stripeEvents
  /\ acked' = acked \cup {e}
  /\ UNCHANGED <<rows, charges, refunds, emitted, desk, hook>>

OnInvoicePaid ==
  InsertLedgerRows(ledger,
    IF invoice.total = 0 \/ manager = None THEN {}
    ELSE CreditRows(manager, "invoice_paid", InvoiceId,
                    Expanded[manager][invoice.total]))

ReverseInvoicePaid == WriteReversals(ledger, "invoice_paid", InvoiceId)

(* Mutant: the payments row is keyed on the event instead of the charge. *)
Mutant_PaymentByEvent(h) ==
  /\ hook[h].step = "markPaid"
  /\ payments' = payments \cup {hook[h].event}
  /\ invoice' = IF hook[h].wasPaid THEN invoice
                ELSE [invoice EXCEPT !.status = "paid", !.paidAt = TRUE]
  /\ ledger' = IF invoice.quoted THEN ledger ELSE OnInvoicePaid
  /\ acked' = acked \cup {hook[h].event}
  /\ HookEnd(h)
  /\ UNCHANGED <<refundRows, manager, stripeEvents, charges, refunds, emitted,
                 desk>>

(* payment_intent.succeeded *)
MarkPaid(h) ==
  /\ hook[h].step = "markPaid"
  /\ payments' = payments \cup {hook[h].event.intent}
  /\ invoice' = IF hook[h].wasPaid THEN invoice
                ELSE [invoice EXCEPT !.status = "paid", !.paidAt = TRUE]
  /\ ledger' = IF invoice.quoted THEN ledger ELSE OnInvoicePaid
  /\ acked' = acked \cup {hook[h].event}
  /\ HookEnd(h)
  /\ UNCHANGED <<refundRows, manager, stripeEvents, charges, refunds, emitted,
                 desk>>

(* charge.refunded *)
ApplyRefund(h) ==
  /\ hook[h].step = "applyRefund"
  /\ refundRows' = refundRows \cup hook[h].event.refunds
  /\ ledger' = ReverseInvoicePaid
  /\ acked' = acked \cup {hook[h].event}
  /\ HookEnd(h)
  /\ UNCHANGED <<invoice, payments, manager, stripeEvents, charges, refunds,
                 emitted, desk>>

(* Mutant: the event's row is not removed. *)
Mutant_HookErrorKeepsRow(h) ==
  /\ hook[h].step # "idle"
  /\ stripeEvents' = stripeEvents
  /\ HookEnd(h)
  /\ UNCHANGED <<invoice, payments, refundRows, ledger, manager, stripe, desk>>

(* An error rolls the transaction back, removes the event's row and         *)
(* answers 500.                                                             *)
HookError(h) ==
  /\ hook[h].step # "idle"
  /\ stripeEvents' = stripeEvents \ {hook[h].event}
  /\ HookEnd(h)
  /\ UNCHANGED <<invoice, payments, refundRows, ledger, manager, stripe, desk>>

(* The process stops: the transaction rolls back, the event's row stays.    *)
HookCrash(h) ==
  /\ MayCrash
  /\ hook[h].step # "idle"
  /\ HookEnd(h)
  /\ UNCHANGED <<rows, stripe, desk>>

(* POST /corporate/branches/:id/managers ends the old assignment and starts *)
(* the new one in one transaction.                                          *)
ChangeManager ==
  /\ manager' \in Users \ {manager}
  /\ UNCHANGED <<invoice, payments, refundRows, ledger, stripeEvents, stripe,
                 desk, hook>>

(* POST /quotes/:id/void: one UPDATE of the quote's invoice, at any moment  *)
(* of what the desk does.  Its WHERE is judged on the row as it then is.    *)
(* Stripe is not told.                                                      *)
QuoteVoid ==
  /\ invoice.quoted /\ ~invoice.deleted
  /\ invoice.status \notin {"paid", "void"}
  /\ invoice' = [invoice EXCEPT !.status = "void"]
  /\ UNCHANGED <<payments, refundRows, ledger, manager, stripeEvents, stripe,
                 desk, hook>>

-----------------------------------------------------------------------------

Staff(d) ==
  \/ EditRead(d) \/ EditWrite(d) \/ SendRead(d) \/ SendWrite(d)
  \/ DeleteRead(d) \/ DeleteWrite(d) \/ FinalizeRead(d) \/ FinalizeWrite(d)
  \/ RefundRead(d) \/ RefundCall(d) \/ RefundWrite(d) \/ DeskFail(d)

Webhook(h) ==
  \/ \E e \in emitted : Deliver(h, e) \/ Replay(h, e)
  \/ MarkPaid(h) \/ ApplyRefund(h) \/ HookError(h) \/ HookCrash(h)

Next ==
  \/ \E d \in Desk : Staff(d)
  \/ \E h \in Hooks : Webhook(h)
  \/ OpenPayPage \/ ChangeManager \/ QuoteVoid
  \/ \E p \in Intents : CustomerPays(p) \/ DashboardRefund(p)

Spec == Init /\ [][Next]_vars

(* Stripe delivers an event until some delivery is answered 200, and a      *)
(* handler that is retried forever does not fail forever.                   *)
FairSpec ==
  /\ Spec
  /\ \A p \in Intents :
       /\ SF_vars(\E h \in Hooks : PaidEvent(p) \in emitted \ acked
                                   /\ (Deliver(h, PaidEvent(p))
                                       \/ Replay(h, PaidEvent(p))))
       /\ SF_vars(\E h \in Hooks : hook[h].event = PaidEvent(p) /\ MarkPaid(h))
  /\ \A h \in Hooks : WF_vars(MarkPaid(h) \/ ApplyRefund(h) \/ HookError(h))

-----------------------------------------------------------------------------
(* Properties of deliveries in any order and any number. *)

(* Every variable stays in its table's or protocol's domain. *)
TypeOK ==
  /\ invoice \in InvoiceRows
  /\ payments \subseteq Intents
  /\ refundRows \subseteq RefundIds
  /\ ledger \subseteq LedgerRows
  /\ manager \in Users \cup {None}
  /\ stripeEvents \subseteq Events
  /\ charges \in [Intents -> Charges]
  /\ refunds \in [RefundIds -> Refunds]
  /\ emitted \subseteq Events /\ acked \subseteq Events
  /\ desk \in [Desk -> DeskStates]
  /\ hook \in [Hooks -> HookStates]

Credits == OriginalRows(ledger, "invoice_paid", InvoiceId)

(* The payment is credited to one manager, once, however often its event is *)
(* delivered and whoever manages the branch by then; a quote's balance      *)
(* invoice, whose closer was credited at the commit, credits nobody.        *)
CreditedOnce ==
  /\ \A a, b \in Credits : a.user = b.user
  /\ invoice.quoted => Credits = {}

(* The books do not run ahead of Stripe: a recorded payment succeeded, and  *)
(* an invoice that shows one carries the intent it was paid with, for its   *)
(* whole total.                                                             *)
PaidInFull ==
  invoice.paidAt =>
    /\ invoice.intent \in payments
    /\ charges[invoice.intent] =
         [status |-> "succeeded", amount |-> invoice.total]

(* An invoice of no quote is void only if Stripe has given back all of its  *)
(* total, however desk and dashboard refunds and their events interleave.   *)
(* (A quote's void makes its unpaid invoice void with nothing to refund.)   *)
VoidIsRefunded ==
  invoice.status = "void" /\ ~invoice.quoted =>
    SumOf(RefundsOf(invoice.intent)) = invoice.total

(* Once the customer has paid the intent the invoice names, the payment is  *)
(* eventually recorded, errors of the handler notwithstanding.              *)
PaymentEventuallyRecorded ==
  \A p \in Intents :
    charges[p].status = "succeeded" /\ invoice.intent = p ~> p \in payments
=============================================================================
