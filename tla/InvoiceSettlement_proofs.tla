--------------------- MODULE InvoiceSettlement_proofs ---------------------
(***************************************************************************)
(* Proofs about InvoiceSettlement for any sets of staff requests, webhook   *)
(* deliveries, managers, intents, refunds and amounts, and any plans.       *)
(***************************************************************************)
EXTENDS InvoiceSettlement, CommissionLedger_proofs, FiniteSums

(* A request past its first step carries the arguments it will use. *)
ArgumentsPresent ==
  /\ \A d \in Desk :
       /\ desk[d].step \in {"finalizeWrite", "refundCall", "refundWrite"} =>
            desk[d].intent \in Intents
       /\ desk[d].step = "refundWrite" => desk[d].refund \in RefundIds
  /\ \A h \in Hooks : hook[h].step # "idle" => hook[h].event \in Events

TypeInv == TypeOK /\ ArgumentsPresent

-----------------------------------------------------------------------------
(* The parts of a step. *)

LEMMA IdleType == IdleDesk \in DeskStates /\ IdleHook \in HookStates
  BY DEF IdleDesk, IdleHook, DeskStates, HookStates

LEMMA PaidEventType ==
  ASSUME NEW p \in Intents
  PROVE  PaidEvent(p) \in Events
  BY DEF PaidEvent, Events

LEMMA RefundEventType ==
  ASSUME NEW p \in Intents, NEW ids \in SUBSET RefundIds
  PROVE  RefundEvent(p, ids) \in Events
  BY DEF RefundEvent, Events

(* A payment's credit rows and a refund's reversals are ledger rows. *)
LEMMA CreditsType ==
  ASSUME invoice \in InvoiceRows, manager \in Users \cup {None},
         ledger \subseteq LedgerRows
  PROVE  OnInvoicePaid \subseteq LedgerRows
<1>1. CASE invoice.total = 0 \/ manager = None
  BY <1>1 DEF OnInvoicePaid, InsertLedgerRows
<1>2. CASE ~(invoice.total = 0 \/ manager = None)
  <2> DEFINE amounts == Expanded[manager][invoice.total]
  <2>1. manager \in Users /\ invoice.total \in Totals
    BY <1>2 DEF InvoiceRows
  <2>2. amounts \in Seq(Int \ {0})
    BY <2>1, ConstantsAssumption DEF ConstantsAssumption
  <2>3. Len(amounts) \in Nat /\ \A i \in 1..Len(amounts) : amounts[i] \in Int
    BY <2>2
  <2>4. CreditRows(manager, "invoice_paid", InvoiceId, amounts)
          \subseteq LedgerRows
    BY <2>1, <2>3 DEF CreditRows, LedgerRows
  <2> QED
    BY <1>2, <2>4 DEF OnInvoicePaid, InsertLedgerRows
<1> QED
  BY <1>1, <1>2

LEMMA ReversalsType ==
  ASSUME ledger \subseteq LedgerRows
  PROVE  ReverseInvoicePaid \subseteq LedgerRows
  BY DEF ReverseInvoicePaid, WriteReversals, InsertLedgerRows, OriginalRows,
         ReversalRow, ReversalOf, LedgerRows

LEMMA DeskEndType ==
  ASSUME TypeInv, NEW d \in Desk, DeskEnd(d), UNCHANGED hook
  PROVE  desk' \in [Desk -> DeskStates] /\ ArgumentsPresent'
<1>1. desk \in [Desk -> DeskStates] /\ ArgumentsPresent
  BY DEF TypeInv, TypeOK
<1> QED
  BY <1>1, IdleType DEF DeskEnd, IdleDesk, ArgumentsPresent

LEMMA HookEndType ==
  ASSUME TypeInv, NEW h \in Hooks, HookEnd(h), UNCHANGED desk
  PROVE  hook' \in [Hooks -> HookStates] /\ ArgumentsPresent'
<1>1. hook \in [Hooks -> HookStates] /\ ArgumentsPresent
  BY DEF TypeInv, TypeOK
<1> QED
  BY <1>1, IdleType DEF HookEnd, IdleHook, ArgumentsPresent

-----------------------------------------------------------------------------
(* TypeInv is inductive.                                                    *)

LEMMA InitTypeInv == Init => TypeInv
<1> SUFFICES ASSUME Init PROVE TypeInv
  OBVIOUS
<1>1. invoice \in InvoiceRows
  <2>1. PICK t \in Totals, q \in BOOLEAN : invoice = NewInvoice(t, q)
    BY DEF Init
  <2> QED
    BY <2>1 DEF InvoiceRows, NewInvoice, InvoiceStatus
<1>2. charges \in [Intents -> Charges] /\ refunds \in [RefundIds -> Refunds]
  BY DEF Init, Charges, Refunds
<1>3. desk \in [Desk -> DeskStates] /\ hook \in [Hooks -> HookStates]
  BY IdleType DEF Init
<1>4. ArgumentsPresent
  BY DEF Init, ArgumentsPresent, IdleDesk, IdleHook
<1>5. /\ payments \subseteq Intents /\ refundRows \subseteq RefundIds
      /\ ledger \subseteq LedgerRows /\ manager \in Users \cup {None}
      /\ stripeEvents \subseteq Events /\ emitted \subseteq Events
      /\ acked \subseteq Events
  BY DEF Init
<1> QED
  BY <1>1, <1>2, <1>3, <1>4, <1>5 DEF TypeInv, TypeOK

LEMMA StaffTypeInv ==
  ASSUME TypeInv, NEW d \in Desk, Staff(d)
  PROVE  TypeInv'
<1> USE DEF rows, stripe
<1>1. /\ invoice \in InvoiceRows /\ refundRows \subseteq RefundIds
      /\ charges \in [Intents -> Charges]
      /\ refunds \in [RefundIds -> Refunds] /\ emitted \subseteq Events
      /\ desk \in [Desk -> DeskStates] /\ ArgumentsPresent
      /\ desk[d] \in DeskStates
  BY DEF TypeInv, TypeOK
<1>2. SUFFICES TypeOK' /\ ArgumentsPresent'
  BY DEF TypeInv
<1>3. \A t \in Totals : t \in Nat
  BY ConstantsAssumption DEF ConstantsAssumption
<1>4. ASSUME NEW step \in {"editWrite", "sendWrite", "deleteWrite"},
             NEW statuses, ReadRow(d, step, statuses)
      PROVE  TypeOK' /\ ArgumentsPresent'
  <2>1. desk' \in [Desk -> DeskStates] /\ ArgumentsPresent'
    BY <1>1, <1>4 DEF ReadRow, DeskStates, ArgumentsPresent
  <2> QED
    BY <1>4, <2>1 DEF ReadRow, TypeInv, TypeOK
<1>5. CASE EditWrite(d)
  <2>1. invoice' \in InvoiceRows
    BY <1>1, <1>5 DEF EditWrite, InvoiceRows
  <2> QED
    BY <1>5, <2>1, DeskEndType DEF EditWrite, TypeInv, TypeOK
<1>6. CASE SendWrite(d)
  <2>1. invoice' \in InvoiceRows
    BY <1>1, <1>6 DEF SendWrite, InvoiceRows, InvoiceStatus
  <2> QED
    BY <1>6, <2>1, DeskEndType DEF SendWrite, TypeInv, TypeOK
<1>7. CASE DeleteWrite(d)
  <2>1. invoice' \in InvoiceRows
    BY <1>1, <1>7 DEF DeleteWrite, InvoiceRows
  <2> QED
    BY <1>7, <2>1, DeskEndType DEF DeleteWrite, TypeInv, TypeOK
<1>8. CASE FinalizeRead(d)
  <2>1. PICK p \in Intents :
          /\ charges' = [charges EXCEPT
               ![p] = [status |-> "open", amount |-> invoice.total]]
          /\ desk' = [desk EXCEPT ![d].step = "finalizeWrite",
                                  ![d].intent = p]
    BY <1>8 DEF FinalizeRead
  <2>2. charges' \in [Intents -> Charges]
    BY <1>1, <2>1 DEF Charges, InvoiceRows
  <2>3. desk' \in [Desk -> DeskStates]
    BY <1>1, <2>1 DEF DeskStates
  <2>4. ArgumentsPresent'
    BY <1>1, <1>8, <2>1 DEF FinalizeRead, ArgumentsPresent, DeskStates
  <2> QED
    BY <1>8, <2>2, <2>3, <2>4 DEF FinalizeRead, TypeInv, TypeOK
<1>9. CASE FinalizeWrite(d)
  <2>1. desk[d].intent \in Intents
    BY <1>1, <1>9 DEF FinalizeWrite, DeskAt, ArgumentsPresent
  <2>2. invoice' \in InvoiceRows
    BY <1>1, <1>9, <2>1 DEF FinalizeWrite, InvoiceRows, InvoiceStatus
  <2> QED
    BY <1>9, <2>2, DeskEndType DEF FinalizeWrite, TypeInv, TypeOK
<1>10. CASE RefundRead(d)
  <2> DEFINE remaining == invoice.total - SumOf(refundRows)
  <2>1. PICK amount \in (Parts \cup {remaining}) \cap (1..remaining) :
          desk' = [desk EXCEPT
            ![d] = [IdleDesk EXCEPT !.step = "refundCall",
                      !.intent = invoice.intent, !.amount = amount,
                      !.full = (amount = remaining)]]
    BY <1>10 DEF RefundRead
  <2>2. amount \in Nat /\ (amount = remaining) \in BOOLEAN
    BY <2>1
  <2>3. invoice.intent \in Intents
    BY <1>1, <1>10 DEF RefundRead, InvoiceRows
  <2> HIDE DEF remaining
  <2>4. desk' \in [Desk -> DeskStates]
    BY <1>1, <2>1, <2>2, <2>3, IdleType DEF DeskStates, IdleDesk
  <2>5. ArgumentsPresent'
    BY <1>1, <1>10, <2>1, <2>3
       DEF RefundRead, ArgumentsPresent, DeskStates, IdleDesk
  <2> QED
    BY <1>10, <2>4, <2>5 DEF RefundRead, TypeInv, TypeOK
<1>11. CASE RefundCall(d)
  <2>1. desk[d].intent \in Intents /\ desk[d].amount \in Nat
    BY <1>1, <1>11 DEF RefundCall, DeskAt, ArgumentsPresent, DeskStates
  <2>2. CASE ~StripeAccepts(desk[d].intent, desk[d].amount)
    BY <1>11, <2>2, DeskEndType DEF RefundCall, TypeInv, TypeOK
  <2>3. CASE StripeAccepts(desk[d].intent, desk[d].amount)
    <3>1. PICK id \in RefundIds :
            /\ StripeRefunds(desk[d].intent, desk[d].amount, id)
            /\ desk' = [desk EXCEPT ![d].step = "refundWrite",
                                    ![d].refund = id]
      BY <1>11, <2>3 DEF RefundCall
    <3>2. refunds' \in [RefundIds -> Refunds]
      BY <1>1, <2>1, <3>1 DEF StripeRefunds, Refunds
    <3>3. emitted' \subseteq Events
      BY <1>1, <2>1, <3>1, RefundEventType DEF StripeRefunds, RefundsOf
    <3>4. desk' \in [Desk -> DeskStates]
      BY <1>1, <3>1 DEF DeskStates
    <3>5. ArgumentsPresent'
      BY <1>1, <1>11, <2>1, <3>1
         DEF RefundCall, ArgumentsPresent, DeskStates
    <3> QED
      BY <1>11, <3>2, <3>3, <3>4, <3>5 DEF RefundCall, TypeInv, TypeOK
  <2> QED
    BY <2>2, <2>3
<1>12. CASE RefundWrite(d)
  <2>1. desk[d].refund \in RefundIds
    BY <1>1, <1>12 DEF RefundWrite, DeskAt, ArgumentsPresent
  <2>2. invoice' \in InvoiceRows /\ refundRows' \subseteq RefundIds
    BY <1>1, <1>12, <2>1 DEF RefundWrite, InvoiceRows, InvoiceStatus
  <2> QED
    BY <1>12, <2>2, DeskEndType DEF RefundWrite, TypeInv, TypeOK
<1>13. CASE DeskFail(d)
  BY <1>13, DeskEndType DEF DeskFail, TypeInv, TypeOK
<1> QED
  BY <1>4, <1>5, <1>6, <1>7, <1>8, <1>9, <1>10, <1>11, <1>12, <1>13
     DEF Staff, EditRead, SendRead, DeleteRead

LEMMA WebhookTypeInv ==
  ASSUME TypeInv, NEW h \in Hooks, Webhook(h)
  PROVE  TypeInv'
<1> USE DEF rows, stripe
<1>1. /\ invoice \in InvoiceRows /\ payments \subseteq Intents
      /\ refundRows \subseteq RefundIds /\ ledger \subseteq LedgerRows
      /\ manager \in Users \cup {None} /\ stripeEvents \subseteq Events
      /\ emitted \subseteq Events /\ acked \subseteq Events
      /\ hook \in [Hooks -> HookStates] /\ ArgumentsPresent
  BY DEF TypeInv, TypeOK
<1>2. SUFFICES TypeOK' /\ ArgumentsPresent'
  BY DEF TypeInv
<1>3. ASSUME NEW e \in emitted, Deliver(h, e)
      PROVE  TypeOK' /\ ArgumentsPresent'
  <2>1. e \in Events
    BY <1>1
  <2>2. hook' \in [Hooks -> HookStates] /\ acked' \subseteq Events
    <3>1. CASE e.intent = invoice.intent
      <4> DEFINE step == IF e.kind = "succeeded" THEN "markPaid"
                                                 ELSE "applyRefund"
      <4>1. step \in {"markPaid", "applyRefund"}
            /\ (invoice.status = "paid") \in BOOLEAN
        OBVIOUS
      <4>2. hook' = [hook EXCEPT
              ![h] = [step |-> step, event |-> e,
                      wasPaid |-> invoice.status = "paid"]]
            /\ acked' = acked
        BY <1>3, <3>1 DEF Deliver
      <4> HIDE DEF step
      <4>3. [step |-> step, event |-> e, wasPaid |-> invoice.status = "paid"]
              \in HookStates
        BY <2>1, <4>1 DEF HookStates
      <4> QED
        BY <1>1, <4>2, <4>3
    <3>2. CASE e.intent # invoice.intent
      BY <1>1, <1>3, <2>1, <3>2 DEF Deliver
    <3> QED
      BY <3>1, <3>2
  <2>3. ArgumentsPresent'
    BY <1>1, <1>3, <2>1 DEF Deliver, ArgumentsPresent
  <2>4. stripeEvents' \subseteq Events
    BY <1>1, <1>3, <2>1 DEF Deliver
  <2> QED
    BY <1>3, <2>2, <2>3, <2>4 DEF Deliver, TypeInv, TypeOK
<1>4. ASSUME NEW e \in emitted, Replay(h, e)
      PROVE  TypeOK' /\ ArgumentsPresent'
  BY <1>1, <1>4 DEF Replay, TypeInv, TypeOK, ArgumentsPresent
<1>5. hook[h].step # "idle" =>
        hook[h].event \in Events /\ hook[h].event.intent \in Intents
        /\ hook[h].event.refunds \subseteq RefundIds
  BY <1>1 DEF ArgumentsPresent, Events
<1>6. CASE MarkPaid(h)
  <2>1. invoice' \in InvoiceRows
    BY <1>1, <1>6 DEF MarkPaid, InvoiceRows, InvoiceStatus
  <2>2. ledger' \subseteq LedgerRows
    BY <1>1, <1>6, CreditsType DEF MarkPaid
  <2>3. payments' \subseteq Intents /\ acked' \subseteq Events
    BY <1>1, <1>5, <1>6 DEF MarkPaid
  <2> QED
    BY <1>6, <2>1, <2>2, <2>3, HookEndType DEF MarkPaid, TypeInv, TypeOK
<1>7. CASE ApplyRefund(h)
  <2>1. ledger' \subseteq LedgerRows
    BY <1>1, <1>7, ReversalsType DEF ApplyRefund
  <2>2. refundRows' \subseteq RefundIds /\ acked' \subseteq Events
    BY <1>1, <1>5, <1>7 DEF ApplyRefund
  <2> QED
    BY <1>7, <2>1, <2>2, HookEndType DEF ApplyRefund, TypeInv, TypeOK
<1>8. CASE HookError(h)
  <2>1. stripeEvents' \subseteq Events
    BY <1>1, <1>8 DEF HookError
  <2> QED
    BY <1>8, <2>1, HookEndType DEF HookError, TypeInv, TypeOK
<1>9. CASE HookCrash(h)
  BY <1>9, HookEndType DEF HookCrash, TypeInv, TypeOK
<1> QED
  BY <1>3, <1>4, <1>6, <1>7, <1>8, <1>9 DEF Webhook

LEMMA OutsideTypeInv ==
  ASSUME TypeInv,
         \/ OpenPayPage \/ ChangeManager \/ QuoteVoid
         \/ \E p \in Intents : CustomerPays(p) \/ DashboardRefund(p)
  PROVE  TypeInv'
<1> USE DEF rows, stripe
<1>1. /\ invoice \in InvoiceRows /\ charges \in [Intents -> Charges]
      /\ refunds \in [RefundIds -> Refunds] /\ emitted \subseteq Events
      /\ ArgumentsPresent
  BY DEF TypeInv, TypeOK
<1>2. ASSUME UNCHANGED <<desk, hook>>, TypeOK'
      PROVE  TypeInv'
  BY <1>1, <1>2 DEF TypeInv, ArgumentsPresent
<1>3. CASE OpenPayPage
  <2>1. charges' \in [Intents -> Charges]
    BY <1>1, <1>3 DEF OpenPayPage, Charges
  <2> QED
    BY <1>2, <1>3, <2>1 DEF OpenPayPage, TypeInv, TypeOK
<1>4. CASE ChangeManager
  BY <1>2, <1>4 DEF ChangeManager, TypeInv, TypeOK
<1>5. ASSUME NEW p \in Intents, CustomerPays(p)
      PROVE  TypeInv'
  <2>1. charges' \in [Intents -> Charges] /\ emitted' \subseteq Events
    BY <1>1, <1>5, PaidEventType DEF CustomerPays, Charges
  <2> QED
    BY <1>2, <1>5, <2>1 DEF CustomerPays, TypeInv, TypeOK
<1>6. ASSUME NEW p \in Intents, DashboardRefund(p)
      PROVE  TypeInv'
  <2>1. PICK amount \in Parts, id \in RefundIds :
          StripeRefunds(p, amount, id)
    BY <1>6 DEF DashboardRefund
  <2>2. amount \in Nat
    BY ConstantsAssumption DEF ConstantsAssumption
  <2>3. refunds' \in [RefundIds -> Refunds]
    BY <1>1, <2>1, <2>2 DEF StripeRefunds, Refunds
  <2>4. emitted' \subseteq Events
    BY <1>1, <2>1, RefundEventType DEF StripeRefunds, RefundsOf
  <2> QED
    BY <1>2, <1>6, <2>3, <2>4 DEF DashboardRefund, TypeInv, TypeOK
<1>7. CASE QuoteVoid
  <2>1. invoice' \in InvoiceRows
    BY <1>1, <1>7 DEF QuoteVoid, InvoiceRows, InvoiceStatus
  <2> QED
    BY <1>2, <1>7, <2>1 DEF QuoteVoid, TypeInv, TypeOK
<1> QED
  BY <1>3, <1>4, <1>5, <1>6, <1>7

(* Every row, Stripe object and request in flight stays well formed. *)
THEOREM TypeInvariant == Spec => []TypeInv
<1>1. TypeInv /\ [Next]_vars => TypeInv'
  <2>1. CASE UNCHANGED vars
    BY <2>1 DEF vars, rows, stripe, TypeInv, TypeOK, ArgumentsPresent
  <2> QED
    BY <2>1, StaffTypeInv, WebhookTypeInv, OutsideTypeInv DEF Next
<1> QED
  BY <1>1, InitTypeInv, PTL DEF Spec

(* TypeOK holds in every reachable state. *)
THEOREM TypeCorrect == Spec => []TypeOK
<1>1. TypeInv => TypeOK
  BY DEF TypeInv
<1> QED
  BY <1>1, TypeInvariant, PTL

-----------------------------------------------------------------------------
(* PaidInFull, when staff requests do not overlap.  Two of them could give  *)
(* the invoice two intents, or change the total under a finalize.           *)

OneClerk == \A c, d \in Desk : c = d

(* The row, the one intent the customer can have seen, and its events agree. *)
(* An invoice that names no intent is a draft, or was one when its quote was *)
(* voided, at whatever point of an edit or a finalize.                       *)
PaymentPath ==
  /\ invoice.status = "draft" => invoice.intent = None
  /\ invoice.intent = None =>
       \/ invoice.status = "draft"
       \/ invoice.status = "void" /\ invoice.quoted
  /\ \A d \in Desk :
       /\ desk[d].step \in {"editWrite", "finalizeWrite"} =>
            invoice.intent = None
       /\ desk[d].step \in {"sendWrite", "refundCall", "refundWrite"} =>
            invoice.intent # None
       /\ desk[d].step = "finalizeWrite" =>
            charges[desk[d].intent] = [status |-> "open",
                                       amount |-> invoice.total]
  /\ \A p \in Intents :
       charges[p].status \in {"shown", "succeeded"} => p = invoice.intent
  /\ invoice.intent # None =>
       /\ charges[invoice.intent].status # "none"
       /\ charges[invoice.intent].amount = invoice.total
  /\ \A e \in emitted :
       /\ charges[e.intent].status = "succeeded"
       /\ e.kind = "succeeded" => e = PaidEvent(e.intent)
  /\ \A h \in Hooks :
       hook[h].step = "markPaid" => hook[h].event = PaidEvent(invoice.intent)
                                    /\ hook[h].event \in emitted
  /\ invoice.paidAt =>
       /\ invoice.intent \in payments
       /\ charges[invoice.intent].status = "succeeded"

LEMMA InitPaymentPath == Init => PaymentPath
<1> SUFFICES ASSUME Init PROVE PaymentPath
  OBVIOUS
<1>1. PICK t \in Totals, q \in BOOLEAN : invoice = NewInvoice(t, q)
  BY DEF Init
<1> QED
  BY <1>1 DEF Init, PaymentPath, NewInvoice, IdleDesk, IdleHook

LEMMA StaffPaymentPath ==
  ASSUME OneClerk, TypeInv, PaymentPath, NEW d \in Desk, Staff(d)
  PROVE  PaymentPath'
<1> USE DEF rows, stripe
<1>1. /\ invoice \in InvoiceRows /\ charges \in [Intents -> Charges]
      /\ desk \in [Desk -> DeskStates] /\ emitted \subseteq Events
      /\ ArgumentsPresent /\ \A c \in Desk : c = d
      /\ None \notin Intents
  BY ConstantsAssumption
     DEF TypeInv, TypeOK, OneClerk, ConstantsAssumption
<1>2. ASSUME UNCHANGED <<invoice, payments, charges, hook>>,
             emitted \subseteq emitted',
             \A e \in emitted' \ emitted :
               e.kind = "refunded" /\ charges[e.intent].status = "succeeded",
             desk'[d].step \in {"editWrite", "finalizeWrite"} =>
               invoice.intent = None,
             desk'[d].step \in {"sendWrite", "refundCall", "refundWrite"} =>
               invoice.intent # None,
             desk'[d].step # "finalizeWrite"
      PROVE  PaymentPath'
  BY <1>1, <1>2 DEF PaymentPath
<1>3. CASE EditRead(d)
  BY <1>1, <1>2, <1>3 DEF EditRead, ReadRow, PaymentPath
<1>4. CASE SendRead(d)
  BY <1>1, <1>2, <1>4 DEF SendRead, ReadRow, PaymentPath
<1>5. CASE DeleteRead(d)
  BY <1>1, <1>2, <1>5 DEF DeleteRead, ReadRow, PaymentPath
<1>6. CASE RefundRead(d)
  BY <1>1, <1>2, <1>6 DEF RefundRead, IdleDesk
<1>7. CASE RefundCall(d)
  <2>1. CASE StripeAccepts(desk[d].intent, desk[d].amount)
    <3>1. PICK id \in RefundIds :
            /\ emitted' = emitted \cup
                 {RefundEvent(desk[d].intent,
                              RefundsOf(desk[d].intent) \cup {id})}
            /\ desk' = [desk EXCEPT ![d].step = "refundWrite",
                                    ![d].refund = id]
      BY <1>7, <2>1 DEF RefundCall, StripeRefunds
    <3>2. \A e \in emitted' \ emitted :
            e.kind = "refunded" /\ charges[e.intent].status = "succeeded"
      BY <2>1, <3>1 DEF RefundEvent, StripeAccepts
    <3>3. desk'[d].step = "refundWrite"
      BY <1>1, <3>1 DEF DeskStates
    <3>4. invoice.intent # None
      BY <1>7 DEF RefundCall, DeskAt, PaymentPath
    <3> QED
      BY <1>2, <1>7, <3>1, <3>2, <3>3, <3>4 DEF RefundCall
  <2>2. CASE ~StripeAccepts(desk[d].intent, desk[d].amount)
    BY <1>1, <1>2, <1>7, <2>2 DEF RefundCall, DeskEnd, IdleDesk
  <2> QED
    BY <2>1, <2>2
<1>8. CASE DeskFail(d)
  BY <1>1, <1>2, <1>8 DEF DeskFail, DeskEnd, IdleDesk
<1>9. CASE EditWrite(d)
  BY <1>1, <1>9
     DEF EditWrite, DeskAt, DeskEnd, IdleDesk, PaymentPath, InvoiceRows
<1>10. CASE SendWrite(d)
  BY <1>1, <1>10
     DEF SendWrite, DeskAt, DeskEnd, IdleDesk, PaymentPath, InvoiceRows
<1>11. CASE DeleteWrite(d)
  BY <1>1, <1>11
     DEF DeleteWrite, DeskAt, DeskEnd, IdleDesk, PaymentPath, InvoiceRows
<1>12. CASE FinalizeRead(d)
  <2>1. PICK p \in Intents :
          /\ charges[p].status = "none"
          /\ charges' = [charges EXCEPT
               ![p] = [status |-> "open", amount |-> invoice.total]]
          /\ desk' = [desk EXCEPT ![d].step = "finalizeWrite",
                                  ![d].intent = p]
    BY <1>12 DEF FinalizeRead
  <2> QED
    BY <1>1, <1>12, <2>1
       DEF FinalizeRead, PaymentPath, Events
<1>13. CASE FinalizeWrite(d)
  <2>1. /\ invoice.intent = None /\ desk[d].intent \in Intents
        /\ charges[desk[d].intent] = [status |-> "open",
                                      amount |-> invoice.total]
        /\ payments \subseteq Intents
    BY <1>13
       DEF FinalizeWrite, DeskAt, PaymentPath, TypeInv, TypeOK,
           ArgumentsPresent
  <2>2. /\ \A h \in Hooks : hook[h].step # "markPaid"
        /\ \A p \in Intents : charges[p].status \notin {"shown", "succeeded"}
        /\ ~invoice.paidAt
    BY <1>1, <2>1 DEF PaymentPath, PaidEvent, Events
  <2> QED
    BY <1>1, <1>13, <2>1, <2>2
       DEF FinalizeWrite, DeskAt, DeskEnd, IdleDesk, PaymentPath, InvoiceRows
<1>14. CASE RefundWrite(d)
  BY <1>1, <1>14
     DEF RefundWrite, DeskAt, DeskEnd, IdleDesk, PaymentPath, InvoiceRows
<1> QED
  BY <1>3, <1>4, <1>5, <1>6, <1>7, <1>8, <1>9, <1>10, <1>11, <1>12, <1>13,
     <1>14 DEF Staff

LEMMA WebhookPaymentPath ==
  ASSUME TypeInv, PaymentPath, NEW h \in Hooks, Webhook(h)
  PROVE  PaymentPath'
<1> USE DEF rows, stripe
<1>1. /\ invoice \in InvoiceRows /\ charges \in [Intents -> Charges]
      /\ hook \in [Hooks -> HookStates] /\ emitted \subseteq Events
      /\ None \notin Intents
  BY ConstantsAssumption DEF TypeInv, TypeOK, ConstantsAssumption
<1>2. ASSUME UNCHANGED <<invoice, payments, charges, emitted, desk>>,
             hook'[h].step # "markPaid",
             \A g \in Hooks \ {h} : hook'[g] = hook[g]
      PROVE  PaymentPath'
  BY <1>1, <1>2 DEF PaymentPath
<1>3. ASSUME NEW e \in emitted, Deliver(h, e)
      PROVE  PaymentPath'
  BY <1>1, <1>3 DEF Deliver, PaymentPath, Events
<1>4. ASSUME NEW e \in emitted, Replay(h, e)
      PROVE  PaymentPath'
  BY <1>1, <1>4 DEF Replay, PaymentPath
<1>5. CASE MarkPaid(h)
  <2>1. /\ hook[h].event = PaidEvent(invoice.intent)
        /\ charges[invoice.intent].status = "succeeded"
    BY <1>5 DEF MarkPaid, PaymentPath, PaidEvent
  <2>2. invoice.intent \in Intents
    BY <1>1, <1>5, <2>1 DEF MarkPaid, PaymentPath, PaidEvent, Events
  <2>3. invoice.intent # None
    BY <2>2, ConstantsAssumption DEF ConstantsAssumption
  <2> QED
    BY <1>1, <1>5, <2>1, <2>2, <2>3
       DEF MarkPaid, HookEnd, IdleHook, PaymentPath, PaidEvent, InvoiceRows
<1>6. CASE ApplyRefund(h)
  BY <1>1, <1>2, <1>6 DEF ApplyRefund, HookEnd, IdleHook
<1>7. CASE HookError(h)
  BY <1>1, <1>2, <1>7 DEF HookError, HookEnd, IdleHook
<1>8. CASE HookCrash(h)
  BY <1>1, <1>2, <1>8 DEF HookCrash, HookEnd, IdleHook
<1> QED
  BY <1>3, <1>4, <1>5, <1>6, <1>7, <1>8 DEF Webhook

LEMMA OutsidePaymentPath ==
  ASSUME TypeInv, PaymentPath,
         \/ OpenPayPage \/ ChangeManager \/ QuoteVoid
         \/ \E p \in Intents : CustomerPays(p) \/ DashboardRefund(p)
  PROVE  PaymentPath'
<1> USE DEF rows, stripe
<1>1. /\ invoice \in InvoiceRows /\ charges \in [Intents -> Charges]
      /\ emitted \subseteq Events /\ ArgumentsPresent
      /\ None \notin Intents
  BY ConstantsAssumption DEF TypeInv, TypeOK, ConstantsAssumption
<1>2. CASE OpenPayPage
  BY <1>1, <1>2 DEF OpenPayPage, PaymentPath, InvoiceRows, Charges, Events
<1>3. CASE ChangeManager
  BY <1>3 DEF ChangeManager, PaymentPath
<1>4. ASSUME NEW p \in Intents, CustomerPays(p)
      PROVE  PaymentPath'
  BY <1>1, <1>4
     DEF CustomerPays, PaymentPath, PaidEvent, InvoiceRows, Charges, Events
<1>5. ASSUME NEW p \in Intents, DashboardRefund(p)
      PROVE  PaymentPath'
  BY <1>1, <1>5
     DEF DashboardRefund, StripeAccepts, StripeRefunds, RefundEvent,
         PaymentPath
<1>6. CASE QuoteVoid
  BY <1>1, <1>6 DEF QuoteVoid, PaymentPath, InvoiceRows
<1> QED
  BY <1>2, <1>3, <1>4, <1>5, <1>6

LEMMA PaymentPathInvariant ==
  ASSUME OneClerk
  PROVE  Spec => []PaymentPath
<1>1. TypeInv /\ PaymentPath /\ [Next]_vars => PaymentPath'
  <2>1. CASE UNCHANGED vars
    BY <2>1 DEF vars, rows, stripe, PaymentPath
  <2> QED
    BY <2>1, StaffPaymentPath, WebhookPaymentPath, OutsidePaymentPath
       DEF Next
<1> QED
  BY <1>1, InitPaymentPath, TypeInvariant, PTL DEF Spec

(* With staff requests one at a time, an invoice that shows a payment was   *)
(* paid its whole total with the intent it names, whatever the webhook's    *)
(* deliveries, errors and crashes.                                          *)
THEOREM PaidAlwaysInFull ==
  ASSUME OneClerk
  PROVE  Spec => []PaidInFull
<1>1. TypeInv /\ PaymentPath => PaidInFull
  <2> SUFFICES ASSUME TypeInv, PaymentPath, invoice.paidAt
               PROVE  /\ invoice.intent \in payments
                      /\ charges[invoice.intent] =
                           [status |-> "succeeded", amount |-> invoice.total]
    BY DEF PaidInFull
  <2>1. invoice.intent \in payments /\ payments \subseteq Intents
        /\ charges \in [Intents -> Charges] /\ None \notin Intents
    BY ConstantsAssumption
       DEF TypeInv, TypeOK, PaymentPath, ConstantsAssumption
  <2>2. charges[invoice.intent] \in Charges
    BY <2>1
  <2>3. /\ charges[invoice.intent].status = "succeeded"
        /\ charges[invoice.intent].amount = invoice.total
    BY <2>1 DEF PaymentPath
  <2> QED
    BY <2>1, <2>2, <2>3 DEF Charges
<1> QED
  BY <1>1, TypeInvariant, PaymentPathInvariant, PTL
-----------------------------------------------------------------------------
(* CreditedOnce.  What keeps the commission single is the event row: while  *)
(* one delivery works on the payment, and ever after it has credited it,    *)
(* the row is there and no other delivery gets past it.                     *)

Crediting(h) == hook[h].step = "markPaid"

CreditPath ==
  /\ \A h \in Hooks : Crediting(h) => hook[h].event \in stripeEvents
  /\ \A g, h \in Hooks : Crediting(g) /\ Crediting(h) => g = h
  /\ \A h \in Hooks :
       hook[h].step = "applyRefund" => hook[h].event.kind = "refunded"
  /\ Credits # {} => /\ PaidEvent(invoice.intent) \in stripeEvents
                     /\ \A h \in Hooks : ~Crediting(h)
  /\ CreditedOnce

(* Once some credit exists the invoice names its final intent. *)
LEMMA CreditsFixIntent ==
  ASSUME TypeInv, PaymentPath, CreditPath, Credits # {}
  PROVE  invoice.intent \in Intents /\ invoice.intent # None
<1>1. PaidEvent(invoice.intent) \in Events
  BY DEF CreditPath, TypeInv, TypeOK
<1>2. invoice.intent \in Intents
  BY <1>1 DEF PaidEvent, Events
<1> QED
  BY <1>2, ConstantsAssumption DEF ConstantsAssumption

(* A crediting delivery handles the payment of the intent the row names. *)
LEMMA CreditingEvent ==
  ASSUME TypeInv, PaymentPath, NEW h \in Hooks, Crediting(h)
  PROVE  /\ hook[h].event = PaidEvent(invoice.intent)
         /\ invoice.intent \in Intents /\ invoice.intent # None
<1>1. hook[h].event = PaidEvent(invoice.intent) /\ hook[h].event \in Events
  BY DEF Crediting, PaymentPath, TypeInv, ArgumentsPresent
<1>2. invoice.intent \in Intents
  BY <1>1 DEF PaidEvent, Events
<1> QED
  BY <1>1, <1>2, ConstantsAssumption DEF ConstantsAssumption

LEMMA StaffCreditPath ==
  ASSUME TypeInv, PaymentPath, CreditPath, NEW d \in Desk, Staff(d)
  PROVE  CreditPath'
<1> USE DEF rows, stripe
<1>1. ASSUME UNCHANGED <<hook, stripeEvents, ledger>>,
             invoice'.quoted = invoice.quoted,
             Credits # {} => invoice'.intent = invoice.intent
      PROVE  CreditPath'
  BY <1>1 DEF CreditPath, Crediting, Credits, CreditedOnce, OriginalRows,
              PaidEvent
<1>2. invoice \in InvoiceRows
  BY DEF TypeInv, TypeOK
<1>3. CASE FinalizeWrite(d)
  BY <1>1, <1>2, <1>3, CreditsFixIntent
     DEF FinalizeWrite, DeskAt, PaymentPath, InvoiceRows
<1>4. CASE UNCHANGED invoice
  BY <1>1, <1>4
     DEF Staff, EditRead, SendRead, DeleteRead, ReadRow, EditWrite, SendWrite,
         DeleteWrite, FinalizeRead, FinalizeWrite, RefundRead, RefundCall,
         RefundWrite, DeskFail
<1>5. CASE EditWrite(d) \/ SendWrite(d) \/ DeleteWrite(d) \/ RefundWrite(d)
  BY <1>1, <1>2, <1>5
     DEF EditWrite, SendWrite, DeleteWrite, RefundWrite, InvoiceRows
<1> QED
  BY <1>3, <1>4, <1>5
     DEF Staff, EditRead, SendRead, DeleteRead, ReadRow, FinalizeRead,
         RefundRead, RefundCall, DeskFail

LEMMA WebhookCreditPath ==
  ASSUME TypeInv, PaymentPath, CreditPath, NEW h \in Hooks, Webhook(h)
  PROVE  CreditPath'
<1> USE DEF rows, stripe
<1>1. /\ invoice \in InvoiceRows /\ hook \in [Hooks -> HookStates]
      /\ emitted \subseteq Events
  BY DEF TypeInv, TypeOK
<1>2. ASSUME NEW e \in emitted, Deliver(h, e)
      PROVE  CreditPath'
  <2>1. UNCHANGED <<invoice, ledger>>
    BY <1>2 DEF Deliver
  <2>2. Credits' = Credits /\ CreditedOnce'
    BY <2>1 DEF Credits, OriginalRows, CreditPath, CreditedOnce
  <2>3. CASE ~Crediting(h)'
    BY <1>1, <1>2, <2>1, <2>2, <2>3
       DEF Deliver, CreditPath, Crediting, Events, PaidEvent
  <2>4. CASE Crediting(h)'
    <3>1. e.intent = invoice.intent /\ e.kind = "succeeded"
          /\ e \notin stripeEvents
      BY <1>1, <1>2, <2>4 DEF Deliver, Crediting, IdleHook
    <3>2. e = PaidEvent(invoice.intent)
      BY <3>1 DEF PaymentPath
    <3>3. Credits = {} /\ \A g \in Hooks : ~Crediting(g)
      BY <3>1, <3>2, CreditingEvent DEF CreditPath
    <3>4. /\ hook'[h].event = e /\ stripeEvents' = stripeEvents \cup {e}
          /\ \A g \in Hooks \ {h} : hook'[g] = hook[g]
      BY <1>1, <1>2, <3>1 DEF Deliver
    <3> QED
      BY <2>2, <2>4, <3>3, <3>4 DEF CreditPath, Crediting
  <2> QED
    BY <2>3, <2>4
<1>3. ASSUME NEW e \in emitted, Replay(h, e)
      PROVE  CreditPath'
  BY <1>1, <1>3
     DEF Replay, CreditPath, Crediting, Credits, CreditedOnce, OriginalRows
<1>4. CASE MarkPaid(h)
  <2>1. /\ Crediting(h) /\ Credits = {}
        /\ hook[h].event = PaidEvent(invoice.intent)
        /\ PaidEvent(invoice.intent) \in stripeEvents
    BY <1>4, CreditingEvent DEF MarkPaid, Crediting, CreditPath
  <2>2. invoice'.intent = invoice.intent /\ invoice'.quoted = invoice.quoted
    BY <1>1, <1>4 DEF MarkPaid, InvoiceRows
  <2>3. \A g \in Hooks : ~Crediting(g)'
    BY <1>1, <1>4, <2>1 DEF MarkPaid, HookEnd, IdleHook, Crediting, CreditPath
  <2>4. CreditedOnce'
    <3>1. ~invoice.quoted => \A row \in ledger' \ ledger : row.user = manager
      BY <1>4 DEF MarkPaid, OnInvoicePaid, InsertLedgerRows, CreditRows
    <3>2. invoice.quoted => ledger' = ledger
      BY <1>4 DEF MarkPaid
    <3>3. \A row \in Credits' : row \in ledger' \ ledger
      BY <2>1 DEF Credits, OriginalRows
    <3> QED
      BY <2>2, <3>1, <3>2, <3>3 DEF CreditedOnce
  <2> QED
    BY <1>1, <1>4, <2>1, <2>2, <2>3, <2>4
       DEF MarkPaid, HookEnd, IdleHook, CreditPath, Crediting, PaidEvent
<1>5. CASE ApplyRefund(h)
  <2>1. Credits' = Credits
    <3>1. \A row \in ledger' \ ledger : row.kind = "reverse_invoice_paid"
      BY <1>5 DEF ApplyRefund, ReverseInvoicePaid, WriteReversals,
                  InsertLedgerRows, OriginalRows, ReversalRow, ReversalOf
    <3>2. ledger \subseteq ledger'
      BY <1>5 DEF ApplyRefund, ReverseInvoicePaid, WriteReversals,
                  InsertLedgerRows
    <3> QED
      BY <3>1, <3>2 DEF Credits, OriginalRows
  <2> QED
    BY <1>1, <1>5, <2>1
       DEF ApplyRefund, HookEnd, IdleHook, CreditPath, Crediting, CreditedOnce
<1>6. CASE HookError(h)
  <2>1. Credits' = Credits /\ CreditedOnce'
    BY <1>6 DEF HookError, Credits, OriginalRows, CreditPath, CreditedOnce
  <2>2. CASE Crediting(h)
    BY <1>1, <1>6, <2>1, <2>2
       DEF HookError, HookEnd, IdleHook, CreditPath, Crediting
  <2>3. CASE ~Crediting(h)
    <3>1. hook[h].event.kind = "refunded"
      BY <1>1, <1>6, <2>3 DEF HookError, CreditPath, Crediting, HookStates
    <3> QED
      BY <1>1, <1>6, <2>1, <2>3, <3>1, CreditingEvent
         DEF HookError, HookEnd, IdleHook, CreditPath, Crediting, PaidEvent
  <2> QED
    BY <2>2, <2>3
<1>7. CASE HookCrash(h)
  BY <1>1, <1>7
     DEF HookCrash, HookEnd, IdleHook, CreditPath, Crediting, Credits,
         OriginalRows, CreditedOnce
<1> QED
  BY <1>2, <1>3, <1>4, <1>5, <1>6, <1>7 DEF Webhook

(* With staff requests one at a time, a payment is credited to one manager, *)
(* and a quote's balance invoice to nobody, however often Stripe delivers   *)
(* the event, whichever deliveries fail or crash, and whoever manages the   *)
(* branch at each of them.                                                  *)
THEOREM CommissionAlwaysCreditedOnce ==
  ASSUME OneClerk
  PROVE  Spec => []CreditedOnce
<1>1. Init => CreditPath
  BY DEF Init, CreditPath, Crediting, Credits, OriginalRows, CreditedOnce,
         IdleHook
<1>2. TypeInv /\ PaymentPath /\ CreditPath /\ [Next]_vars => CreditPath'
  <2> SUFFICES ASSUME TypeInv, PaymentPath, CreditPath, [Next]_vars
               PROVE  CreditPath'
    OBVIOUS
  <2>1. CASE UNCHANGED <<invoice, ledger, stripeEvents, hook>>
    BY <2>1 DEF CreditPath, Crediting, Credits, OriginalRows, CreditedOnce
  <2>2. CASE \E d \in Desk : Staff(d)
    BY <2>2, StaffCreditPath
  <2>3. CASE \E h \in Hooks : Webhook(h)
    BY <2>3, WebhookCreditPath
  <2>4. CASE OpenPayPage \/ ChangeManager
             \/ \E p \in Intents : CustomerPays(p) \/ DashboardRefund(p)
    BY <2>1, <2>4
       DEF OpenPayPage, ChangeManager, CustomerPays, DashboardRefund, rows
  <2>5. CASE QuoteVoid
    <3>1. /\ UNCHANGED <<ledger, stripeEvents, hook>>
          /\ invoice'.intent = invoice.intent
          /\ invoice'.quoted = invoice.quoted
      BY <2>5 DEF QuoteVoid, TypeInv, TypeOK, InvoiceRows
    <3> QED
      BY <3>1 DEF CreditPath, Crediting, Credits, OriginalRows, CreditedOnce,
                  PaidEvent
  <2> QED
    BY <2>1, <2>2, <2>3, <2>4, <2>5 DEF Next, vars, rows
<1>3. CreditPath => CreditedOnce
  BY DEF CreditPath
<1> QED
  BY <1>1, <1>2, <1>3, TypeInvariant, PaymentPathInvariant, PTL DEF Spec

-----------------------------------------------------------------------------
(* VoidIsRefunded.  A full refund is what remained when the desk read the   *)
(* rows.  Stripe's refunds of the charge include those rows' and only grow, *)
(* so if Stripe still accepts the amount there was nothing else, and the    *)
(* charge is then used up.                                                  *)

RefundPath ==
  /\ \A p \in Intents :
       /\ RefundsOf(p) # {} => charges[p].status = "succeeded"
       /\ SumOf(RefundsOf(p)) <= charges[p].amount
  /\ \A e \in emitted : e.refunds \subseteq RefundsOf(e.intent)
  /\ refundRows # {} => invoice.intent \in Intents
                        /\ refundRows \subseteq RefundsOf(invoice.intent)
  /\ \A h \in Hooks : hook[h].step = "applyRefund" =>
       hook[h].event \in emitted /\ hook[h].event.intent = invoice.intent
  /\ \A d \in Desk :
       /\ desk[d].step \in {"refundCall", "refundWrite"} =>
            desk[d].intent = invoice.intent
       /\ desk[d].step = "refundCall" /\ desk[d].full =>
            SumOf(RefundsOf(invoice.intent)) + desk[d].amount >= invoice.total
       /\ desk[d].step = "refundWrite" =>
            desk[d].refund \in RefundsOf(invoice.intent)
       /\ desk[d].step = "refundWrite" /\ desk[d].full =>
            SumOf(RefundsOf(invoice.intent)) = invoice.total
  /\ VoidIsRefunded

(* Sums of refunds are numbers, and grow with the refunds. *)
LEMMA RefundSums ==
  ASSUME TypeInv
  PROVE  /\ \A p : RefundsOf(p) \subseteq RefundIds
         /\ \A ids \in SUBSET RefundIds : SumOf(ids) \in Nat
         /\ \A few, ids \in SUBSET RefundIds :
              few \subseteq ids => SumOf(few) <= SumOf(ids)
<1> DEFINE amounts == [i \in RefundIds |-> refunds[i].amount]
<1>1. \A i \in RefundIds : amounts[i] \in Nat
  BY DEF TypeInv, TypeOK, Refunds
<1>2. \A ids \in SUBSET RefundIds : IsFiniteSet(ids)
  BY ConstantsAssumption, FS_Subset DEF ConstantsAssumption
<1>3. \A ids : SumOf(ids) = SumFunctionOnSet(amounts, ids)
  BY DEF SumOf
<1> HIDE DEF amounts
<1>4. \A ids \in SUBSET RefundIds : SumOf(ids) \in Nat
  BY <1>1, <1>2, <1>3, SumType
<1>5. ASSUME NEW few \in SUBSET RefundIds, NEW ids \in SUBSET RefundIds,
             few \subseteq ids
      PROVE  SumOf(few) <= SumOf(ids)
  <2>1. SumFunctionOnSet(amounts, few) <= SumFunctionOnSet(amounts, ids)
    BY <1>1, <1>2, <1>5, SumSubset
  <2> QED
    BY <1>3, <2>1
<1> QED
  BY <1>4, <1>5 DEF RefundsOf

(* A step that refunds nothing leaves every sum. *)
LEMMA SameRefunds ==
  ASSUME UNCHANGED refunds
  PROVE  \A p : RefundsOf(p)' = RefundsOf(p)
                /\ SumOf(RefundsOf(p))' = SumOf(RefundsOf(p))
BY DEF RefundsOf, SumOf

(* A refund at Stripe is one more refund of its charge, and of no other. *)
LEMMA OneMoreRefund ==
  ASSUME TypeInv, NEW p \in Intents, NEW amount \in Nat, NEW id \in RefundIds,
         StripeRefunds(p, amount, id)
  PROVE  /\ RefundsOf(p)' = RefundsOf(p) \cup {id}
         /\ SumOf(RefundsOf(p))' = SumOf(RefundsOf(p)) + amount
         /\ \A q \in Intents \ {p} :
              RefundsOf(q)' = RefundsOf(q)
              /\ SumOf(RefundsOf(q))' = SumOf(RefundsOf(q))
<1> DEFINE before == [i \in RefundIds |-> refunds[i].amount]
           after == [i \in RefundIds |-> refunds'[i].amount]
<1>1. /\ refunds \in [RefundIds -> Refunds] /\ p # None
      /\ refunds[id].intent = None
      /\ refunds' = [refunds EXCEPT ![id] = [intent |-> p, amount |-> amount]]
      /\ None \notin Intents
  BY ConstantsAssumption
     DEF TypeInv, TypeOK, StripeRefunds, ConstantsAssumption
<1>2. /\ \A i \in RefundIds : before[i] \in Int
      /\ \A i \in RefundIds \ {id} : after[i] = before[i]
      /\ after[id] = amount
  BY <1>1 DEF Refunds
<1>3. /\ RefundsOf(p)' = RefundsOf(p) \cup {id} /\ id \notin RefundsOf(p)
      /\ \A q \in Intents \ {p} : RefundsOf(q)' = RefundsOf(q)
      /\ \A q \in Intents : id \notin RefundsOf(q)
                           /\ RefundsOf(q) \subseteq RefundIds
  BY <1>1 DEF RefundsOf
<1>4. \A ids \in SUBSET RefundIds : IsFiniteSet(ids)
  BY ConstantsAssumption, FS_Subset DEF ConstantsAssumption
<1>5. /\ \A ids : SumOf(ids) = SumFunctionOnSet(before, ids)
      /\ \A q : SumOf(RefundsOf(q))' = SumFunctionOnSet(after, RefundsOf(q)')
  BY DEF SumOf
<1> HIDE DEF before, after
<1>6. \A q \in Intents :
        SumFunctionOnSet(after, RefundsOf(q)) =
          SumFunctionOnSet(before, RefundsOf(q))
  <2> TAKE q \in Intents
  <2>1. PICK ids : ids = RefundsOf(q)
    OBVIOUS
  <2>2. IsFiniteSet(ids) /\ \A i \in ids : after[i] = before[i]
    BY <1>2, <1>3, <1>4, <2>1
  <2> QED
    BY <2>1, <2>2, SumSame
<1>7. SumFunctionOnSet(after, RefundsOf(p) \cup {id}) =
        SumFunctionOnSet(after, RefundsOf(p)) + amount
  <2>1. PICK ids : ids = RefundsOf(p)
    OBVIOUS
  <2>2. /\ IsFiniteSet(ids) /\ id \notin ids
        /\ \A i \in ids \cup {id} : after[i] \in Int
    BY <1>2, <1>3, <1>4, <2>1
  <2> QED
    BY <1>2, <2>1, <2>2, SumAdd
<1> QED
  BY <1>3, <1>5, <1>6, <1>7

LEMMA InitRefundPath == Init => RefundPath
<1> SUFFICES ASSUME Init PROVE RefundPath
  OBVIOUS
<1>1. PICK t \in Totals, q \in BOOLEAN : invoice = NewInvoice(t, q)
  BY DEF Init
<1>2. \A p \in Intents : RefundsOf(p) = {}
  BY ConstantsAssumption DEF Init, RefundsOf, ConstantsAssumption
<1>3. SumOf({}) = 0
  BY SumEmpty DEF SumOf
<1>4. \A p \in Intents : charges[p].amount = 0
  BY DEF Init
<1>5. \A p \in Intents : RefundsOf(p) = {} /\ SumOf(RefundsOf(p)) <= charges[p].amount
  BY <1>2, <1>3, <1>4
<1>6. invoice.status # "void" /\ refundRows = {} /\ emitted = {}
  BY <1>1 DEF Init, NewInvoice
<1>7. /\ \A d \in Desk : desk[d].step \notin {"refundCall", "refundWrite"}
      /\ \A h \in Hooks : hook[h].step # "applyRefund"
  BY DEF Init, IdleDesk, IdleHook
<1> QED
  BY <1>5, <1>6, <1>7 DEF RefundPath, VoidIsRefunded

(* A step that refunds nothing, of a request that then refunds nothing.     *)
LEMMA QuietRefundPath ==
  ASSUME TypeInv, RefundPath, NEW d \in Desk, \A c \in Desk : c = d,
         UNCHANGED <<refunds, refundRows, hook, emitted>>,
         invoice'.intent = invoice.intent,
         invoice'.quoted = invoice.quoted,
         invoice'.status = "void" /\ ~invoice.quoted =>
           invoice.status = "void" /\ invoice'.total = invoice.total,
         \A p \in Intents :
           \/ charges'[p] = charges[p]
           \/ charges[p].status # "succeeded" /\ charges'[p].amount >= 0,
         desk'[d].step \notin {"refundCall", "refundWrite"}
  PROVE  RefundPath'
<1>1. ASSUME NEW p \in Intents
      PROVE  /\ RefundsOf(p)' # {} => charges'[p].status = "succeeded"
             /\ SumOf(RefundsOf(p))' <= charges'[p].amount
  <2>1. CASE RefundsOf(p) = {}
    <3>1. RefundsOf(p)' = {} /\ SumOf(RefundsOf(p))' = 0 /\ SumOf(RefundsOf(p)) = 0
      BY <2>1, SameRefunds, SumEmpty DEF SumOf
    <3> QED
      BY <3>1 DEF RefundPath
  <2>2. CASE RefundsOf(p) # {}
    BY <2>2, SameRefunds DEF RefundPath
  <2> QED
    BY <2>1, <2>2
<1>2. (/\ \A e \in emitted : e.refunds \subseteq RefundsOf(e.intent)
       /\ refundRows # {} => invoice.intent \in Intents
                             /\ refundRows \subseteq RefundsOf(invoice.intent))'
  BY DEF RefundPath, RefundsOf
<1>3. VoidIsRefunded'
  BY DEF RefundPath, VoidIsRefunded, SumOf, RefundsOf
<1>4. (\A h \in Hooks : hook[h].step = "applyRefund" =>
         hook[h].event \in emitted /\ hook[h].event.intent = invoice.intent)'
  BY DEF RefundPath
<1>5. \A c \in Desk : desk'[c].step \notin {"refundCall", "refundWrite"}
  OBVIOUS
<1> QED
  BY <1>1, <1>2, <1>3, <1>4, <1>5 DEF RefundPath

(* A refund Stripe accepts, from the desk or the dashboard: its desk request *)
(* goes on to write the row, or it has none.                                *)
LEMMA AcceptedRefundPath ==
  ASSUME OneClerk, TypeInv, PaymentPath, RefundPath,
         NEW p \in Intents, NEW amount \in Nat, NEW id \in RefundIds,
         StripeAccepts(p, amount), StripeRefunds(p, amount, id),
         UNCHANGED <<invoice, refundRows, hook, charges>>,
         \/ UNCHANGED desk
         \/ \E d \in Desk :
              /\ desk[d].step = "refundCall" /\ desk[d].intent = p
              /\ desk[d].amount = amount
              /\ desk' = [desk EXCEPT ![d].step = "refundWrite",
                                      ![d].refund = id]
  PROVE  RefundPath'
<1>1. /\ invoice \in InvoiceRows /\ charges \in [Intents -> Charges]
      /\ desk \in [Desk -> DeskStates] /\ emitted \subseteq Events
      /\ ArgumentsPresent /\ \A c, d \in Desk : c = d
  BY DEF TypeInv, TypeOK, OneClerk
<1>2. /\ invoice.total \in Nat /\ \A q \in Intents : charges[q].amount \in Nat
      /\ \A q \in Intents : SumOf(RefundsOf(q)) \in Nat
                         /\ RefundsOf(q) \subseteq RefundIds
  BY <1>1, RefundSums, ConstantsAssumption
     DEF InvoiceRows, Charges, ConstantsAssumption
<1>3. /\ p = invoice.intent /\ charges[p].status = "succeeded"
      /\ charges[p].amount = invoice.total
      /\ SumOf(RefundsOf(p)) + amount <= invoice.total
  BY ConstantsAssumption
     DEF StripeAccepts, PaymentPath, ConstantsAssumption
<1>4. /\ RefundsOf(p)' = RefundsOf(p) \cup {id}
      /\ SumOf(RefundsOf(p))' = SumOf(RefundsOf(p)) + amount
      /\ \A q \in Intents \ {p} :
           RefundsOf(q)' = RefundsOf(q)
           /\ SumOf(RefundsOf(q))' = SumOf(RefundsOf(q))
  BY OneMoreRefund
<1>5. RefundsOf(invoice.intent)' = RefundsOf(p)'
      /\ SumOf(RefundsOf(invoice.intent))' = SumOf(RefundsOf(p))'
  BY <1>3 DEF RefundsOf, SumOf
<1>6. ASSUME NEW q \in Intents
      PROVE  (/\ RefundsOf(q) # {} => charges[q].status = "succeeded"
              /\ SumOf(RefundsOf(q)) <= charges[q].amount)'
  BY <1>2, <1>3, <1>4 DEF RefundPath
<1>7. (\A e \in emitted : e.refunds \subseteq RefundsOf(e.intent))'
  <2>1. \A q \in Intents : RefundsOf(q) \subseteq RefundsOf(q)'
    BY <1>4
  <2>2. /\ emitted' = emitted \cup {RefundEvent(p, RefundsOf(p) \cup {id})}
        /\ \A e \in emitted : e.intent \in Intents
                            /\ e.refunds \subseteq RefundsOf(e.intent)
    BY <1>1 DEF StripeRefunds, RefundPath, Events
  <2>3. ASSUME NEW e \in emitted'
        PROVE  \E q \in Intents : q = e.intent /\ e.refunds \subseteq RefundsOf(q)'
    BY <1>4, <2>1, <2>2 DEF RefundEvent
  <2> QED
    BY <2>3 DEF RefundsOf
<1>8. (refundRows # {} => invoice.intent \in Intents
                         /\ refundRows \subseteq RefundsOf(invoice.intent))'
  BY <1>3, <1>4, <1>5 DEF RefundPath
<1>9. (\A h \in Hooks : hook[h].step = "applyRefund" =>
         hook[h].event \in emitted /\ hook[h].event.intent = invoice.intent)'
  BY DEF StripeRefunds, RefundPath
<1>10. VoidIsRefunded'
  <2>1. invoice.status = "void" /\ ~invoice.quoted =>
          SumOf(RefundsOf(p)) = invoice.total
    BY <1>3 DEF RefundPath, VoidIsRefunded
  <2>2. invoice.status = "void" /\ ~invoice.quoted =>
          SumOf(RefundsOf(p))' = invoice.total
    BY <1>2, <1>3, <1>4, <2>1
  <2> QED
    BY <1>5, <2>2 DEF VoidIsRefunded
<1>11. ASSUME NEW c \in Desk
       PROVE  (/\ desk[c].step \in {"refundCall", "refundWrite"} =>
                    desk[c].intent = invoice.intent
               /\ desk[c].step = "refundCall" /\ desk[c].full =>
                    SumOf(RefundsOf(invoice.intent)) + desk[c].amount
                      >= invoice.total
               /\ desk[c].step = "refundWrite" =>
                    desk[c].refund \in RefundsOf(invoice.intent)
               /\ desk[c].step = "refundWrite" /\ desk[c].full =>
                    SumOf(RefundsOf(invoice.intent)) = invoice.total)'
  <2> DEFINE sum == SumOf(RefundsOf(p))
  <2>1. /\ sum \in Nat /\ invoice.total \in Nat
        /\ sum + amount <= invoice.total
        /\ desk[c].amount \in Nat
        /\ desk[c].step \in {"refundCall", "refundWrite"} =>
             desk[c].intent = invoice.intent
        /\ desk[c].step = "refundCall" /\ desk[c].full =>
             sum + desk[c].amount >= invoice.total
        /\ desk[c].step = "refundWrite" => desk[c].refund \in RefundsOf(p)
        /\ desk[c].step = "refundWrite" /\ desk[c].full =>
             sum = invoice.total
    BY <1>1, <1>2, <1>3 DEF RefundPath, DeskStates
  <2>2. CASE UNCHANGED desk
    BY <1>4, <1>5, <2>1, <2>2
  <2>3. CASE ~UNCHANGED desk
    <3>0. /\ desk[c].step = "refundCall" /\ desk[c].amount = amount
          /\ desk' = [desk EXCEPT ![c].step = "refundWrite",
                                  ![c].refund = id]
      BY <1>1, <2>3
    <3>1. /\ desk[c].step = "refundCall" /\ desk[c].amount = amount
          /\ desk'[c].step = "refundWrite" /\ desk'[c].refund = id
          /\ desk'[c].intent = desk[c].intent /\ desk'[c].full = desk[c].full
      BY <1>1, <3>0 DEF DeskStates
    <3> QED
      BY <1>4, <1>5, <2>1, <3>1
  <2> QED
    BY <2>2, <2>3
<1> QED
  BY <1>6, <1>7, <1>8, <1>9, <1>10, <1>11 DEF RefundPath

(* A recorded refund is of the intent the row names. *)
LEMMA StaffRefundPath ==
  ASSUME OneClerk, TypeInv, PaymentPath, RefundPath, NEW d \in Desk, Staff(d)
  PROVE  RefundPath'
<1> USE DEF rows, stripe
<1>1. /\ invoice \in InvoiceRows /\ charges \in [Intents -> Charges]
      /\ desk \in [Desk -> DeskStates] /\ refundRows \subseteq RefundIds
      /\ refunds \in [RefundIds -> Refunds]
      /\ ArgumentsPresent /\ \A c \in Desk : c = d
      /\ None \notin Intents /\ Totals \subseteq Nat
  BY ConstantsAssumption
     DEF TypeInv, TypeOK, OneClerk, ConstantsAssumption
<1>2. /\ invoice.total \in Nat /\ \A p \in Intents : charges[p].amount \in Nat
      /\ \A p \in Intents : SumOf(RefundsOf(p)) \in Nat
                         /\ RefundsOf(p) \subseteq RefundIds
  <2>1. /\ invoice.total \in Nat
        /\ \A p \in Intents : charges[p].amount \in Nat
    <3>1. invoice.total \in Totals
      BY <1>1 DEF InvoiceRows
    <3>2. \A p \in Intents : charges[p].amount \in Totals \cup {0}
      BY <1>1 DEF Charges
    <3>3. \A t \in Totals \cup {0} : t \in Nat
      BY <1>1
    <3> QED
      BY <3>1, <3>2, <3>3
  <2> QED
    BY <2>1, RefundSums
<1>3. CASE EditRead(d) \/ SendRead(d) \/ DeleteRead(d)
  <2>1. desk'[d].step \in {"editWrite", "sendWrite", "deleteWrite"}
    BY <1>1, <1>3 DEF EditRead, SendRead, DeleteRead, ReadRow, DeskStates
  <2> QED
    BY <1>1, <1>3, <2>1, QuietRefundPath
       DEF EditRead, SendRead, DeleteRead, ReadRow
<1>4. CASE EditWrite(d) \/ SendWrite(d) \/ DeleteWrite(d)
  <2>1. DeskEnd(d) /\ UNCHANGED <<refunds, refundRows, hook, emitted, charges>>
    BY <1>4 DEF EditWrite, SendWrite, DeleteWrite
  <2>2. /\ invoice'.intent = invoice.intent
        /\ invoice'.quoted = invoice.quoted
        /\ invoice'.status = "void" /\ ~invoice.quoted =>
             invoice.status = "void" /\ invoice'.total = invoice.total
    BY <1>1, <1>4
       DEF EditWrite, SendWrite, DeleteWrite, DeskAt, InvoiceRows, PaymentPath
  <2>3. desk'[d].step = "idle"
    BY <1>1, <2>1 DEF DeskEnd, IdleDesk
  <2> QED
    BY <1>1, <2>1, <2>2, <2>3, QuietRefundPath
<1>5. CASE FinalizeRead(d)
  <2>1. PICK p \in Intents :
          /\ charges[p].status = "none"
          /\ charges' = [charges EXCEPT
               ![p] = [status |-> "open", amount |-> invoice.total]]
          /\ desk' = [desk EXCEPT ![d].step = "finalizeWrite",
                                  ![d].intent = p]
    BY <1>5 DEF FinalizeRead
  <2>2. \A q \in Intents :
          \/ charges'[q] = charges[q]
          \/ charges[q].status # "succeeded" /\ charges'[q].amount >= 0
    BY <1>1, <1>2, <2>1
  <2>3. desk'[d].step = "finalizeWrite"
    BY <1>1, <2>1 DEF DeskStates
  <2> QED
    BY <1>1, <1>5, <2>2, <2>3, QuietRefundPath DEF FinalizeRead
<1>6. CASE DeskFail(d)
  <2>1. desk'[d].step = "idle"
    BY <1>1, <1>6 DEF DeskFail, DeskEnd, IdleDesk
  <2> QED
    BY <1>1, <1>6, <2>1, QuietRefundPath DEF DeskFail
<1>7. CASE FinalizeWrite(d)
  <2>1. /\ invoice.intent = None /\ invoice'.intent \in Intents
        /\ invoice'.status = "finalized"
    BY <1>1, <1>7
       DEF FinalizeWrite, DeskAt, PaymentPath, ArgumentsPresent, InvoiceRows
  <2>2. refundRows = {} /\ \A h \in Hooks : hook[h].step # "applyRefund"
    BY <1>1, <2>1 DEF RefundPath, ArgumentsPresent, Events
  <2>3. /\ \A c \in Desk : desk'[c].step = "idle"
        /\ UNCHANGED <<refunds, refundRows, hook, emitted, charges>>
    BY <1>1, <1>7 DEF FinalizeWrite, DeskEnd, IdleDesk
  <2>4. (\A p \in Intents :
           /\ RefundsOf(p) # {} => charges[p].status = "succeeded"
           /\ SumOf(RefundsOf(p)) <= charges[p].amount)'
    BY <2>3 DEF RefundPath, RefundsOf, SumOf
  <2>5. (\A e \in emitted : e.refunds \subseteq RefundsOf(e.intent))'
    BY <2>3 DEF RefundPath, RefundsOf
  <2> QED
    BY <2>1, <2>2, <2>3, <2>4, <2>5 DEF RefundPath, VoidIsRefunded
<1>8. CASE RefundRead(d)
  <2> DEFINE remaining == invoice.total - SumOf(refundRows)
  <2>1. PICK amount \in (Parts \cup {remaining}) \cap (1..remaining) :
          desk' = [desk EXCEPT
            ![d] = [IdleDesk EXCEPT !.step = "refundCall",
                      !.intent = invoice.intent, !.amount = amount,
                      !.full = (amount = remaining)]]
    BY <1>8 DEF RefundRead
  <2>2. /\ invoice.intent \in Intents
        /\ UNCHANGED <<invoice, refunds, refundRows, hook, emitted, charges>>
    BY <1>1, <1>8 DEF RefundRead, InvoiceRows
  <2>3. SumOf(refundRows) <= SumOf(RefundsOf(invoice.intent))
    BY <1>1, <1>2, <2>2, RefundSums DEF RefundPath
  <2>4. amount \in Nat /\ SumOf(refundRows) \in Nat
    BY <1>1, <2>1, RefundSums
  <2>5. amount = remaining =>
          SumOf(RefundsOf(invoice.intent)) + amount >= invoice.total
    BY <1>2, <2>2, <2>3, <2>4
  <2> HIDE DEF remaining
  <2>6. /\ desk'[d].step = "refundCall" /\ desk'[d].amount = amount
        /\ desk'[d].intent = invoice.intent
        /\ desk'[d].full = (amount = remaining)
    BY <1>1, <2>1 DEF IdleDesk
  <2>7. (/\ \A p \in Intents :
              /\ RefundsOf(p) # {} => charges[p].status = "succeeded"
              /\ SumOf(RefundsOf(p)) <= charges[p].amount
         /\ \A e \in emitted : e.refunds \subseteq RefundsOf(e.intent)
         /\ refundRows # {} => invoice.intent \in Intents
                               /\ refundRows \subseteq RefundsOf(invoice.intent)
         /\ VoidIsRefunded)'
    BY <2>2 DEF RefundPath, VoidIsRefunded, RefundsOf, SumOf
  <2>8. SumOf(RefundsOf(invoice.intent))' = SumOf(RefundsOf(invoice.intent))
    BY <2>2 DEF RefundsOf, SumOf
  <2>9. (\A c \in Desk :
          /\ desk[c].step \in {"refundCall", "refundWrite"} =>
               desk[c].intent = invoice.intent
          /\ desk[c].step = "refundCall" /\ desk[c].full =>
               SumOf(RefundsOf(invoice.intent)) + desk[c].amount >= invoice.total
          /\ desk[c].step # "refundWrite")'
    BY <1>1, <2>2, <2>5, <2>6, <2>8
  <2> QED
    BY <2>2, <2>7, <2>9 DEF RefundPath
<1>9. CASE RefundCall(d)
  <2> DEFINE p == desk[d].intent
             amount == desk[d].amount
  <2>1. /\ p = invoice.intent /\ p \in Intents /\ amount \in Nat
        /\ charges[p].amount = invoice.total
    BY <1>1, <1>9
       DEF RefundCall, DeskAt, RefundPath, PaymentPath, ArgumentsPresent,
           DeskStates
  <2>2. CASE ~StripeAccepts(p, amount)
    <3>1. desk'[d].step = "idle"
      BY <1>1, <1>9, <2>2 DEF RefundCall, DeskEnd, IdleDesk
    <3> QED
      BY <1>1, <1>9, <2>2, <3>1, QuietRefundPath DEF RefundCall
  <2>3. CASE StripeAccepts(p, amount)
    <3>1. PICK id \in RefundIds :
            /\ StripeRefunds(p, amount, id)
            /\ desk' = [desk EXCEPT ![d].step = "refundWrite",
                                    ![d].refund = id]
      BY <1>9, <2>3 DEF RefundCall
    <3>2. UNCHANGED <<invoice, refundRows, hook, charges>>
      BY <1>9 DEF RefundCall
    <3>3. desk[d].step = "refundCall"
      BY <1>9 DEF RefundCall, DeskAt
    <3>4. PICK q \in Intents, paid \in Nat : q = p /\ paid = amount
      BY <2>1
    <3>5. StripeAccepts(q, paid) /\ StripeRefunds(q, paid, id)
      BY <2>3, <3>1, <3>4
    <3> QED
      BY <3>1, <3>2, <3>3, <3>4, <3>5, AcceptedRefundPath
  <2> QED
    BY <2>2, <2>3
<1>10. CASE RefundWrite(d)
  <2>1. /\ desk[d].intent = invoice.intent /\ invoice.intent \in Intents
        /\ desk[d].refund \in RefundsOf(invoice.intent)
        /\ desk[d].full => SumOf(RefundsOf(invoice.intent)) = invoice.total
    <3>1. desk[d].step = "refundWrite"
      BY <1>10 DEF RefundWrite, DeskAt
    <3>2. desk[d].intent \in Intents
      BY <1>1, <3>1 DEF ArgumentsPresent
    <3> QED
      BY <3>1, <3>2 DEF RefundPath
  <2>2. /\ invoice'.intent = invoice.intent /\ invoice'.total = invoice.total
        /\ invoice'.quoted = invoice.quoted
        /\ invoice'.status # invoice.status => desk[d].full
        /\ refundRows' = refundRows \cup {desk[d].refund}
        /\ UNCHANGED <<refunds, hook, emitted, charges>>
    BY <1>1, <1>10 DEF RefundWrite, InvoiceRows
  <2>3. \A c \in Desk : desk'[c].step = "idle"
    BY <1>1, <1>10 DEF RefundWrite, DeskEnd, IdleDesk
  <2>4. (/\ \A p \in Intents :
              /\ RefundsOf(p) # {} => charges[p].status = "succeeded"
              /\ SumOf(RefundsOf(p)) <= charges[p].amount
         /\ \A e \in emitted : e.refunds \subseteq RefundsOf(e.intent))'
    BY <2>2 DEF RefundPath, RefundsOf, SumOf
  <2>5. (refundRows # {} => invoice.intent \in Intents
                           /\ refundRows \subseteq RefundsOf(invoice.intent))'
    BY <2>1, <2>2 DEF RefundPath, RefundsOf
  <2>6. VoidIsRefunded'
    <3>1. SumOf(RefundsOf(invoice.intent))' = SumOf(RefundsOf(invoice.intent))
      BY <2>2 DEF RefundsOf, SumOf
    <3> QED
      BY <2>1, <2>2, <3>1 DEF RefundPath, VoidIsRefunded
  <2> QED
    BY <2>2, <2>3, <2>4, <2>5, <2>6 DEF RefundPath
<1> QED
  BY <1>3, <1>4, <1>5, <1>6, <1>7, <1>8, <1>9, <1>10 DEF Staff

(* Deliveries record refunds Stripe has made of the intent the row names. *)
LEMMA WebhookRefundPath ==
  ASSUME TypeInv, PaymentPath, RefundPath, NEW h \in Hooks, Webhook(h)
  PROVE  RefundPath'
<1> USE DEF rows, stripe
<1>1. /\ invoice \in InvoiceRows /\ hook \in [Hooks -> HookStates]
      /\ emitted \subseteq Events /\ ArgumentsPresent
  BY DEF TypeInv, TypeOK
<1>2. ASSUME UNCHANGED <<refunds, charges, emitted, desk>>,
             invoice'.intent = invoice.intent /\ invoice'.total = invoice.total,
             invoice'.quoted = invoice.quoted,
             invoice'.status = "void" => invoice.status = "void",
             refundRows' # {} => invoice.intent \in Intents
                              /\ refundRows' \subseteq RefundsOf(invoice.intent),
             hook'[h].step = "applyRefund" =>
               hook'[h].event \in emitted
               /\ hook'[h].event.intent = invoice.intent,
             \A g \in Hooks \ {h} : hook'[g] = hook[g]
      PROVE  RefundPath'
  <2>1. (/\ \A p \in Intents :
              /\ RefundsOf(p) # {} => charges[p].status = "succeeded"
              /\ SumOf(RefundsOf(p)) <= charges[p].amount
         /\ \A e \in emitted : e.refunds \subseteq RefundsOf(e.intent))'
    BY <1>2 DEF RefundPath, RefundsOf, SumOf
  <2>2. (refundRows # {} => invoice.intent \in Intents
                           /\ refundRows \subseteq RefundsOf(invoice.intent))'
    BY <1>2 DEF RefundsOf
  <2>3. (\A g \in Hooks : hook[g].step = "applyRefund" =>
           hook[g].event \in emitted /\ hook[g].event.intent = invoice.intent)'
    BY <1>2 DEF RefundPath
  <2>4. SumOf(RefundsOf(invoice.intent))' = SumOf(RefundsOf(invoice.intent))
        /\ RefundsOf(invoice.intent)' = RefundsOf(invoice.intent)
    BY <1>2 DEF RefundsOf, SumOf
  <2>5. VoidIsRefunded'
    BY <1>2, <2>4 DEF RefundPath, VoidIsRefunded
  <2>6. (\A d \in Desk :
           /\ desk[d].step \in {"refundCall", "refundWrite"} =>
                desk[d].intent = invoice.intent
           /\ desk[d].step = "refundCall" /\ desk[d].full =>
                SumOf(RefundsOf(invoice.intent)) + desk[d].amount >= invoice.total
           /\ desk[d].step = "refundWrite" =>
                desk[d].refund \in RefundsOf(invoice.intent)
           /\ desk[d].step = "refundWrite" /\ desk[d].full =>
                SumOf(RefundsOf(invoice.intent)) = invoice.total)'
    BY <1>2, <2>4 DEF RefundPath
  <2> QED
    BY <2>1, <2>2, <2>3, <2>5, <2>6 DEF RefundPath
<1>3. ASSUME NEW e \in emitted, Deliver(h, e)
      PROVE  RefundPath'
  <2>1. hook'[h].step = "applyRefund" =>
          hook'[h].event \in emitted /\ hook'[h].event.intent = invoice.intent
    BY <1>1, <1>3 DEF Deliver, IdleHook
  <2> QED
    BY <1>1, <1>2, <1>3, <2>1 DEF Deliver, RefundPath
<1>4. ASSUME NEW e \in emitted, Replay(h, e)
      PROVE  RefundPath'
  BY <1>2, <1>4 DEF Replay, RefundPath
<1>5. CASE MarkPaid(h)
  <2>1. hook'[h].step = "idle"
    BY <1>1, <1>5 DEF MarkPaid, HookEnd, IdleHook
  <2>2. /\ invoice'.intent = invoice.intent /\ invoice'.total = invoice.total
        /\ invoice'.status = "void" => invoice.status = "void"
    BY <1>1, <1>5 DEF MarkPaid, InvoiceRows
  <2> QED
    BY <1>1, <1>2, <1>5, <2>1, <2>2 DEF MarkPaid, HookEnd, RefundPath
<1>6. CASE ApplyRefund(h)
  <2>1. hook'[h].step = "idle"
    BY <1>1, <1>6 DEF ApplyRefund, HookEnd, IdleHook
  <2>2. /\ hook[h].event \in emitted /\ hook[h].event.intent = invoice.intent
        /\ hook[h].event \in Events
    BY <1>1, <1>6 DEF ApplyRefund, RefundPath
  <2>3. invoice.intent \in Intents
        /\ hook[h].event.refunds \subseteq RefundsOf(invoice.intent)
    BY <2>2 DEF RefundPath, Events
  <2>4. refundRows' \subseteq RefundsOf(invoice.intent)
    BY <1>6, <2>3 DEF ApplyRefund, RefundPath
  <2> QED
    BY <1>1, <1>2, <1>6, <2>1, <2>3, <2>4 DEF ApplyRefund, HookEnd
<1>7. CASE HookError(h) \/ HookCrash(h)
  <2>1. hook'[h].step = "idle"
    BY <1>1, <1>7 DEF HookError, HookCrash, HookEnd, IdleHook
  <2> QED
    BY <1>1, <1>2, <1>7, <2>1 DEF HookError, HookCrash, HookEnd, RefundPath
<1> QED
  BY <1>3, <1>4, <1>5, <1>6, <1>7 DEF Webhook

(* With staff requests one at a time, an invoice is void only if Stripe has *)
(* given back all of its total, whatever is refunded in the dashboard       *)
(* meanwhile and whichever requests and deliveries fail, crash or repeat.   *)
THEOREM VoidAlwaysRefunded ==
  ASSUME OneClerk
  PROVE  Spec => []VoidIsRefunded
<1>1. TypeInv /\ PaymentPath /\ RefundPath /\ [Next]_vars => RefundPath'
  <2> SUFFICES ASSUME TypeInv, PaymentPath, RefundPath, [Next]_vars
               PROVE  RefundPath'
    OBVIOUS
  <2>1. ASSUME UNCHANGED <<invoice, refundRows, refunds, emitted, desk, hook>>,
               \A p \in Intents :
                 /\ charges[p].status = "succeeded" =>
                      charges'[p].status = "succeeded"
                 /\ charges'[p].amount = charges[p].amount
        PROVE  RefundPath'
    BY <2>1 DEF RefundPath, VoidIsRefunded, RefundsOf, SumOf
  <2>2. CASE UNCHANGED vars
    BY <2>1, <2>2 DEF vars, rows, stripe
  <2>3. CASE \E d \in Desk : Staff(d)
    BY <2>3, StaffRefundPath
  <2>4. CASE \E h \in Hooks : Webhook(h)
    BY <2>4, WebhookRefundPath
  <2>5. CASE OpenPayPage
    <3>1. charges \in [Intents -> Charges]
      BY DEF TypeInv, TypeOK
    <3> QED
      BY <2>1, <2>5, <3>1 DEF OpenPayPage, rows, Charges
  <2>6. CASE ChangeManager
    BY <2>1, <2>6 DEF ChangeManager, stripe
  <2>7. ASSUME NEW p \in Intents, CustomerPays(p)
        PROVE  RefundPath'
    <3>1. charges \in [Intents -> Charges]
      BY DEF TypeInv, TypeOK
    <3>2. \A q \in Intents :
            /\ charges[q].status = "succeeded" => charges'[q].status = "succeeded"
            /\ charges'[q].amount = charges[q].amount
      BY <2>7, <3>1 DEF CustomerPays, Charges
    <3>3. /\ UNCHANGED <<invoice, refundRows, refunds, desk, hook>>
          /\ emitted' = emitted \cup {PaidEvent(p)}
      BY <2>7 DEF CustomerPays, rows
    <3>4. (\A e \in emitted : e.refunds \subseteq RefundsOf(e.intent))'
      BY <3>3 DEF RefundPath, RefundsOf, PaidEvent
    <3>5. (/\ \A q \in Intents :
                /\ RefundsOf(q) # {} => charges[q].status = "succeeded"
                /\ SumOf(RefundsOf(q)) <= charges[q].amount
           /\ VoidIsRefunded)'
      BY <3>2, <3>3 DEF RefundPath, RefundsOf, SumOf, VoidIsRefunded
    <3>6. /\ SumOf(RefundsOf(invoice.intent))' = SumOf(RefundsOf(invoice.intent))
          /\ RefundsOf(invoice.intent)' = RefundsOf(invoice.intent)
      BY <3>3 DEF RefundsOf, SumOf
    <3> QED
      BY <3>3, <3>4, <3>5, <3>6 DEF RefundPath
  <2>8. ASSUME NEW p \in Intents, DashboardRefund(p)
        PROVE  RefundPath'
    <3>1. PICK amount \in Parts, id \in RefundIds :
            StripeAccepts(p, amount) /\ StripeRefunds(p, amount, id)
      BY <2>8 DEF DashboardRefund
    <3>2. amount \in Nat
      BY ConstantsAssumption DEF ConstantsAssumption
    <3> QED
      BY <2>8, <3>1, <3>2, AcceptedRefundPath DEF DashboardRefund, rows
  <2>9. CASE QuoteVoid
    <3>1. /\ UNCHANGED <<refundRows, refunds, emitted, desk, hook, charges>>
          /\ invoice'.intent = invoice.intent
          /\ invoice'.total = invoice.total
          /\ invoice'.quoted /\ invoice.quoted
      BY <2>9 DEF QuoteVoid, stripe, TypeInv, TypeOK, InvoiceRows
    <3>2. \A p : RefundsOf(p)' = RefundsOf(p)
                /\ SumOf(RefundsOf(p))' = SumOf(RefundsOf(p))
      BY <3>1, SameRefunds
    <3>3. VoidIsRefunded'
      BY <3>1 DEF VoidIsRefunded
    <3> QED
      BY <3>1, <3>2, <3>3 DEF RefundPath
  <2> QED
    BY <2>2, <2>3, <2>4, <2>5, <2>6, <2>7, <2>8, <2>9 DEF Next
<1>2. RefundPath => VoidIsRefunded
  BY DEF RefundPath
<1> QED
  BY <1>1, <1>2, InitRefundPath, TypeInvariant, PaymentPathInvariant, PTL
     DEF Spec
=============================================================================
