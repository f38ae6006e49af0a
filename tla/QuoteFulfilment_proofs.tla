---------------------- MODULE QuoteFulfilment_proofs ----------------------
(***************************************************************************)
(* The safety properties of QuoteFulfilment, proved for any sets of          *)
(* requests, users, jobs, intents, totals and keys, any plans and any       *)
(* deposit policy: first those that hold however requests interleave and    *)
(* fail, then those that need requests to take turns, and last that turns   *)
(* implement the contract of QuoteContract.                                 *)
(***************************************************************************)
EXTENDS QuoteFulfilment, CommissionLedger_proofs, FiniteSetTheorems

(* A handler past its first step carries the arguments it will use. *)
ArgumentsPresent ==
  \A r \in Requests :
    /\ req[r].step \in {"commitCall", "commitWrite"} =>
         req[r].user \in Users /\ req[r].key \in Keys
    /\ req[r].step \in {"completeWrite", "cancelWrite", "finalizeWrite",
                       "deleteWrite", "editInvoiceWrite"} => req[r].job \in Jobs
    /\ req[r].step \in {"intentWrite", "depositStamp"} =>
         req[r].intent \in Intents
    /\ req[r].step = "refundCall" => req[r].row.intent \in Intents

TypeInv == TypeOK /\ ArgumentsPresent

-----------------------------------------------------------------------------
(* Every way a handler moves keeps its record well formed. *)

LEMMA IdleType == Idle \in RequestStates /\ DraftQuote \in QuoteRows
  BY DEF Idle, RequestStates, Steps, DraftQuote, QuoteRows, QuoteStatus

LEMMA BeginType ==
  ASSUME NEW r \in Requests, req \in [Requests -> RequestStates],
         NEW step \in Steps, NEW row \in QuoteRows, Begin(r, step, row)
  PROVE  req' \in [Requests -> RequestStates]
  BY IdleType DEF Begin, Idle, RequestStates

LEMMA GotoType ==
  ASSUME NEW r \in Requests, req \in [Requests -> RequestStates],
         NEW step \in Steps, Goto(r, step)
  PROVE  req' \in [Requests -> RequestStates]
  BY DEF Goto, RequestStates

LEMMA EndType ==
  ASSUME NEW r \in Requests, req \in [Requests -> RequestStates], End(r)
  PROVE  req' \in [Requests -> RequestStates]
  BY IdleType DEF End

(* The deposit policy yields a whole number of cents. *)
LEMMA DepositType ==
  ASSUME NEW total \in Nat
  PROVE  ResolveDeposit(total) \in Nat
<1>1. DepositPct \in Nat /\ DepositMin \in Nat /\ DepositMax \in Nat
  BY ConstantsAssumption DEF ConstantsAssumption
<1>2. total * DepositPct \in Nat
  BY <1>1
<1>3. (total * DepositPct + 50) \div 100 \in Nat
  BY <1>2
<1> QED
  BY <1>1, <1>3 DEF ResolveDeposit

(* What a plan pays on a total is a sequence of non-zero amounts. *)
LEMMA PlanType ==
  ASSUME NEW user \in Users, NEW total \in Totals
  PROVE  Expanded[user][total] \in Seq(Int \ {0}) /\ total # 0
<1>1. Expanded \in [Users -> [Totals -> Seq(Int \ {0})]]
  BY ConstantsAssumption DEF ConstantsAssumption
<1>2. Totals \subseteq Nat \ {0}
  BY ConstantsAssumption DEF ConstantsAssumption
<1> QED
  BY <1>1, <1>2

(* A commit's credit rows and a void's reversals are ledger rows. *)
LEMMA CreditsType ==
  ASSUME NEW user \in Users, NEW total \in Totals \cup {0},
         ledger \subseteq LedgerRows
  PROVE  OnQuoteCommitted(user, total) \subseteq LedgerRows
<1>1. CASE total = 0
  BY <1>1 DEF OnQuoteCommitted, InsertLedgerRows
<1>2. CASE total # 0
  <2> DEFINE amounts == Expanded[user][total]
  <2>1. total \in Totals /\ amounts \in Seq(Int \ {0})
    BY <1>2, PlanType
  <2>2. Len(amounts) \in Nat /\ \A i \in 1..Len(amounts) : amounts[i] \in Int
    BY <2>1
  <2>3. CreditRows(user, "quote_committed", QuoteId, amounts)
          \subseteq LedgerRows
    BY <2>2 DEF CreditRows, LedgerRows, CreditKinds
  <2> QED
    BY <1>2, <2>3 DEF OnQuoteCommitted, InsertLedgerRows
<1> QED
  BY <1>1, <1>2

LEMMA ReversalsType ==
  ASSUME ledger \subseteq LedgerRows
  PROVE  ReverseQuoteCommitted \subseteq LedgerRows
  BY DEF ReverseQuoteCommitted, WriteReversals, InsertLedgerRows,
         OriginalRows, ReversalRow, ReversalOf, LedgerRows, ReversalKinds

-----------------------------------------------------------------------------
(* TypeInv is inductive.                                                    *)

LEMMA InitTypeInv == Init => TypeInv
<1> SUFFICES ASSUME Init PROVE TypeInv
  OBVIOUS
<1>1. quote \in QuoteRows /\ jobs \in [Jobs -> JobRows]
  <2>1. CASE quote = DraftQuote /\ jobs = [j \in Jobs |-> NoJob]
    BY <2>1, IdleType DEF NoJob, JobRows, JobStatus
  <2>2. ASSUME NEW j \in Jobs, NEW status \in JobStatus,
               quote = [DraftQuote EXCEPT !.job = j],
               jobs = [i \in Jobs |-> IF i = j
                                      THEN [NoJob EXCEPT !.status = status]
                                      ELSE NoJob]
        PROVE  quote \in QuoteRows /\ jobs \in [Jobs -> JobRows]
    <3>1. quote \in QuoteRows
      BY <2>2, IdleType DEF QuoteRows
    <3> QED
      BY <2>2, <3>1 DEF NoJob, JobRows, JobStatus
  <2> QED
    BY <2>1, <2>2 DEF Init
<1>2. TypeOK
  BY <1>1, IdleType DEF Init, TypeOK, Invoices, NoInvoice,
                        InvoiceStatus, SupplierState, IntentState
<1>3. ArgumentsPresent
  BY DEF Init, ArgumentsPresent, Idle
<1> QED
  BY <1>2, <1>3 DEF TypeInv

(* The first steps of the handlers only read. *)
LEMMA ArriveTypeInv ==
  ASSUME TypeInv, NEW r \in Requests, Arrive(r)
  PROVE  TypeInv'
<1> USE DEF TypeInv
<1> DEFINE Same == UNCHANGED <<quote, jobs, invoices, ledger, reserves,
                               consumed, supplier, intents, refunded>>
<1>1. TypeOK /\ ArgumentsPresent /\ quote \in QuoteRows
  BY DEF TypeOK
<1>2. req \in [Requests -> RequestStates]
  BY DEF TypeOK
<1>3. ASSUME Same, NEW step \in Steps, NEW row \in QuoteRows,
             Begin(r, step, row),
             step \in {"priceWrite", "acceptWrite", "shareWrite", "voidWrite",
                       "intentCreate"}
      PROVE  TypeInv'
  <2>1. req' \in [Requests -> RequestStates]
    BY <1>2, <1>3, BeginType
  <2>2. ArgumentsPresent'
    BY <1>1, <1>2, <1>3 DEF ArgumentsPresent, Begin, Idle
  <2> QED
    BY <1>1, <1>3, <2>1, <2>2 DEF TypeOK
<1>4. CASE PriceRead(r) \/ VoicePriceRead(r)
  BY <1>3, <1>4, IdleType DEF PriceRead, VoicePriceRead, Steps
<1>5. CASE CommitRead(r)
  <2>1. PICK u \in Users, k \in Keys :
          req' = [req EXCEPT ![r] = [Idle EXCEPT !.step = "commitCall",
                    !.row = [DraftQuote EXCEPT !.total = quote.total],
                    !.user = u, !.key = k]]
    BY <1>5 DEF CommitRead
  <2>2. [DraftQuote EXCEPT !.total = quote.total] \in QuoteRows
    BY <1>1, IdleType DEF QuoteRows
  <2>3. req' \in [Requests -> RequestStates]
    BY <1>2, <2>1, <2>2 DEF RequestStates, Idle, Steps
  <2>4. ArgumentsPresent'
    BY <1>1, <1>2, <2>1 DEF ArgumentsPresent, Idle
  <2> QED
    BY <1>1, <1>5, <2>3, <2>4 DEF CommitRead, TypeOK
<1>6. ASSUME AcceptRead(r)
      PROVE  TypeInv'
  <2>1. [DraftQuote EXCEPT !.job = quote.job, !.ordered = quote.ordered]
          \in QuoteRows
    BY <1>1, IdleType DEF QuoteRows
  <2> QED
    BY <1>3, <1>6, <2>1 DEF AcceptRead, Steps
<1>7. CASE ShareRead(r)
  <2>1. [DraftQuote EXCEPT !.total = quote.total] \in QuoteRows
    BY <1>1, IdleType DEF QuoteRows
  <2> QED
    BY <1>3, <1>7, <2>1 DEF ShareRead, Steps
<1>8. CASE VoidRead(r)
  <2>1. [DraftQuote EXCEPT !.status = quote.status, !.ref = quote.ref,
           !.paid = quote.paid, !.refunded = quote.refunded,
           !.intent = quote.intent] \in QuoteRows
    BY <1>1, IdleType DEF QuoteRows
  <2> QED
    BY <1>3, <1>8, <2>1 DEF VoidRead, Steps
<1>9. CASE IntentRead(r)
  BY <1>3, <1>9, IdleType DEF IntentRead, Steps
<1>10. ASSUME NEW j \in Jobs, NEW step \in {"completeWrite", "cancelWrite"},
              JobRead(r, j, step)
       PROVE  TypeInv'
  <2>0. jobs[j].quoted \in BOOLEAN
    BY <1>1 DEF TypeOK, JobRows
  <2>1. req' \in [Requests -> RequestStates]
    BY <1>2, <1>10, <2>0, IdleType DEF JobRead, RequestStates, Idle, Steps
  <2>2. ArgumentsPresent'
    BY <1>1, <1>2, <1>10 DEF ArgumentsPresent, JobRead, Idle
  <2> QED
    BY <1>1, <1>10, <2>1, <2>2 DEF JobRead, TypeOK
<1>11. ASSUME NEW j \in Jobs,
              NEW step \in {"finalizeWrite", "deleteWrite", "editInvoiceWrite"},
              InvoiceRead(r, j, step)
       PROVE  TypeInv'
  <2>1. req' \in [Requests -> RequestStates]
    BY <1>2, <1>11, IdleType DEF InvoiceRead, RequestStates, Idle, Steps
  <2>2. ArgumentsPresent'
    BY <1>1, <1>2, <1>11 DEF ArgumentsPresent, InvoiceRead, Idle
  <2> QED
    BY <1>1, <1>11, <2>1, <2>2 DEF InvoiceRead, TypeOK
<1>12. CASE AcceptRead(r) \/ PublicAcceptRead(r)
  BY <1>6, <1>12 DEF PublicAcceptRead
<1> QED
  BY <1>4, <1>5, <1>7, <1>8, <1>9, <1>10, <1>11, <1>12 DEF Arrive

(* A handler that ends, or moves on with the arguments it has. *)
LEMMA EndReq ==
  ASSUME TypeInv, NEW r \in Requests, End(r)
  PROVE  req' \in [Requests -> RequestStates] /\ ArgumentsPresent'
<1>1. req \in [Requests -> RequestStates] /\ ArgumentsPresent
  BY DEF TypeInv, TypeOK
<1> QED
  BY <1>1, EndType DEF End, Idle, ArgumentsPresent

LEMMA GotoReq ==
  ASSUME TypeInv, NEW r \in Requests,
         NEW step \in {"convertCall", "convertStamp", "voidSupplier",
                       "refundCall", "refundStamp", "commitWrite"},
         step = "commitWrite" => At(r, "commitCall"),
         step = "refundCall" => RefundDue(req[r].row),
         Goto(r, step)
  PROVE  req' \in [Requests -> RequestStates] /\ ArgumentsPresent'
<1>1. req \in [Requests -> RequestStates] /\ ArgumentsPresent
  BY DEF TypeInv, TypeOK
<1>2. step \in Steps
  BY DEF Steps
<1>3. req' \in [Requests -> RequestStates]
  BY <1>1, <1>2, GotoType
<1>4. RefundDue(req[r].row) => req[r].row.intent \in Intents
  BY <1>1 DEF RefundDue, RequestStates, QuoteRows
<1>5. ArgumentsPresent'
  BY <1>1, <1>4 DEF Goto, At, ArgumentsPresent, RequestStates
<1> QED
  BY <1>3, <1>5

LEMMA AfterSupplierVoidReq ==
  ASSUME TypeInv, NEW r \in Requests, AfterSupplierVoid(r)
  PROVE  req' \in [Requests -> RequestStates] /\ ArgumentsPresent'
  BY EndReq, GotoReq DEF AfterSupplierVoid

(* The later steps of the handlers. *)
LEMMA ProceedTypeInv ==
  ASSUME TypeInv, NEW r \in Requests, Proceed(r)
  PROVE  TypeInv'
<1>1. /\ quote \in QuoteRows /\ jobs \in [Jobs -> JobRows]
      /\ invoices \in [Jobs -> Invoices] /\ ledger \subseteq LedgerRows
      /\ reserves \in Nat /\ consumed \in [Jobs -> Nat]
      /\ supplier \in [Keys -> SupplierState]
      /\ intents \in [Intents -> IntentState] /\ refunded \subseteq Intents
      /\ req \in [Requests -> RequestStates] /\ req[r] \in RequestStates
  BY DEF TypeInv, TypeOK
<1>2. QuoteKey \in Keys /\ \A t \in Totals \cup {0} : t \in Nat /\ t \in Int
  BY ConstantsAssumption DEF ConstantsAssumption
<1>3. SUFFICES TypeOK' /\ ArgumentsPresent'
  BY DEF TypeInv
<1>4. CASE PriceWrite(r)
  <2>1. quote' \in QuoteRows
    BY <1>1, <1>4 DEF PriceWrite, QuoteRows, QuoteStatus
  <2> QED
    BY <1>1, <1>4, <2>1, EndReq DEF PriceWrite, TypeOK
<1>5. CASE CommitCall(r)
  <2>1. req[r].key \in Keys
    BY <1>5 DEF CommitCall, At, TypeInv, ArgumentsPresent
  <2>2. supplier' \in [Keys -> SupplierState]
    BY <1>1, <1>5, <2>1 DEF CommitCall, SupplierState
  <2> QED
    BY <1>1, <1>5, <2>2, GotoReq DEF CommitCall, TypeOK
<1>6. CASE CommitWrite(r)
  <2>1. req[r].user \in Users /\ req[r].key \in Keys
    BY <1>6 DEF CommitWrite, At, TypeInv, ArgumentsPresent
  <2>2. quote' \in QuoteRows
    BY <1>1, <1>6, <2>1 DEF CommitWrite, QuoteRows, QuoteStatus
  <2>3. req[r].row.total \in Totals \cup {0}
    BY <1>1 DEF RequestStates, QuoteRows
  <2>4. ledger' \subseteq LedgerRows
    BY <1>1, <1>6, <2>1, <2>3, CreditsType DEF CommitWrite
  <2> QED
    BY <1>1, <1>6, <2>2, <2>4, EndReq DEF CommitWrite, TypeOK
<1>7. CASE AcceptWrite(r)
  <2>1. quote' \in QuoteRows /\ jobs' \in [Jobs -> JobRows]
    <3>1. CASE req[r].row.job # None
      <4>1. /\ jobs' = [jobs EXCEPT ![req[r].row.job].quoted = TRUE]
            /\ quote' = [quote EXCEPT !.status = "accepted"]
        BY <1>7, <3>1 DEF AcceptWrite, EnsureJob, LinkJob
      <4>2. req[r].row.job \in Jobs
        BY <1>1, <3>1 DEF RequestStates, QuoteRows
      <4>3. quote' \in QuoteRows
        BY <1>1, <4>1 DEF QuoteRows, QuoteStatus
      <4> QED
        BY <1>1, <4>1, <4>2, <4>3 DEF JobRows
    <3>2. CASE req[r].row.job = None
      <4>1. PICK j \in Jobs :
              /\ jobs' = [jobs EXCEPT ![j] = [status |-> "open", quoted |-> TRUE]]
              /\ quote' = [quote EXCEPT !.status = "accepted", !.job = j]
        BY <1>7, <3>2 DEF AcceptWrite, EnsureJob
      <4> QED
        BY <1>1, <4>1 DEF QuoteRows, QuoteStatus, JobRows, JobStatus
    <3> QED
      BY <3>1, <3>2
  <2>2. reserves' \in Nat
    BY <1>1, <1>7 DEF AcceptWrite, ReserveInventoryForQuote
  <2>3. req' \in [Requests -> RequestStates] /\ ArgumentsPresent'
    BY <1>7, EndReq, GotoReq DEF AcceptWrite
  <2> QED
    BY <1>1, <1>7, <2>1, <2>2, <2>3 DEF AcceptWrite, TypeOK
<1>8. CASE ConvertCall(r)
  <2>1. supplier' \in [Keys -> SupplierState]
    BY <1>1, <1>2, <1>8 DEF ConvertCall, SupplierState
  <2>2. req' \in [Requests -> RequestStates] /\ ArgumentsPresent'
    BY <1>8, EndReq, GotoReq DEF ConvertCall
  <2> QED
    BY <1>1, <1>8, <2>1, <2>2 DEF ConvertCall, TypeOK
<1>9. CASE ConvertStamp(r)
  <2>1. quote' \in QuoteRows
    BY <1>1, <1>9 DEF ConvertStamp, QuoteRows
  <2> QED
    BY <1>1, <1>9, <2>1, EndReq DEF ConvertStamp, TypeOK
<1>10. CASE ShareWrite(r)
  <2>1. req[r].row.total \in Nat
    BY <1>1, <1>2 DEF RequestStates, QuoteRows
  <2>2. quote' \in QuoteRows
    BY <1>1, <1>10, <2>1, DepositType DEF ShareWrite, QuoteRows
  <2> QED
    BY <1>1, <1>10, <2>2, EndReq DEF ShareWrite, TypeOK
<1>11. CASE VoidWrite(r)
  <2>1. quote' \in QuoteRows
    BY <1>1, <1>11 DEF VoidWrite, QuoteRows, QuoteStatus
  <2>2. ledger' \subseteq LedgerRows
    BY <1>1, <1>11, ReversalsType DEF VoidWrite
  <2>3. invoices' \in [Jobs -> Invoices]
    BY <1>1, <1>11 DEF VoidWrite, VoidUnpaidInvoices, Invoices, InvoiceStatus
  <2>4. req' \in [Requests -> RequestStates] /\ ArgumentsPresent'
    BY <1>11, AfterSupplierVoidReq, GotoReq DEF VoidWrite
  <2> QED
    BY <1>1, <1>11, <2>1, <2>2, <2>3, <2>4 DEF VoidWrite, TypeOK
<1>12. CASE VoidSupplier(r)
  <2>1. supplier' \in [Keys -> SupplierState]
    BY <1>1, <1>2, <1>12 DEF VoidSupplier, SupplierState
  <2> QED
    BY <1>1, <1>12, <2>1, AfterSupplierVoidReq DEF VoidSupplier, TypeOK
<1>13. CASE RefundCall(r)
  <2>1. req' \in [Requests -> RequestStates] /\ ArgumentsPresent'
    BY <1>13, EndReq, GotoReq DEF RefundCall
  <2>2. req[r].row.intent \in Intents
    BY <1>13 DEF RefundCall, At, TypeInv, ArgumentsPresent
  <2>3. refunded' \subseteq Intents
    BY <1>1, <1>13, <2>2 DEF RefundCall
  <2> QED
    BY <1>1, <1>13, <2>1, <2>3 DEF RefundCall, TypeOK
<1>14. CASE RefundStamp(r)
  <2>1. quote' \in QuoteRows
    BY <1>1, <1>14 DEF RefundStamp, QuoteRows
  <2> QED
    BY <1>1, <1>14, <2>1, EndReq DEF RefundStamp, TypeOK
<1>15. CASE IntentCreate(r)
  <2>1. PICK p \in Intents :
          /\ intents' = [intents EXCEPT ![p] = "open"]
          /\ req' = [req EXCEPT ![r].step = "intentWrite", ![r].intent = p]
    BY <1>15 DEF IntentCreate
  <2>2. intents' \in [Intents -> IntentState]
    BY <1>1, <2>1 DEF IntentState
  <2>3. req' \in [Requests -> RequestStates]
    BY <1>1, <2>1 DEF RequestStates, Steps
  <2>4. ArgumentsPresent'
    BY <1>1, <2>1 DEF TypeInv, ArgumentsPresent
  <2> QED
    BY <1>1, <1>15, <2>2, <2>3, <2>4 DEF IntentCreate, TypeOK
<1>16. CASE IntentWrite(r)
  <2>1. quote' \in QuoteRows
    BY <1>1, <1>16 DEF IntentWrite, QuoteRows, RequestStates
  <2> QED
    BY <1>1, <1>16, <2>1, EndReq DEF IntentWrite, TypeOK
<1>17. CASE DepositStamp(r)
  <2>1. quote' \in QuoteRows
    BY <1>1, <1>17 DEF DepositStamp, QuoteRows
  <2> QED
    BY <1>1, <1>17, <2>1, EndReq DEF DepositStamp, TypeOK
<1>18. CASE CompleteWrite(r)
  <2>1. PICK j \in Jobs : j = req[r].job
    BY <1>18 DEF CompleteWrite, At, TypeInv, ArgumentsPresent
  <2>2. jobs' \in [Jobs -> JobRows]
    BY <1>1, <1>18, <2>1 DEF CompleteWrite, JobRows, JobStatus
  <2>3. quote.total \in Int /\ quote.deposit \in Nat
    BY <1>1, <1>2 DEF QuoteRows
  <2>4. /\ invoices' = invoices \/ invoices' = GenerateBalanceInvoice(j)
        /\ consumed' = consumed \/ consumed' = ConsumeInventory(j)
    BY <1>18, <2>1 DEF CompleteWrite
  <2>5. GenerateBalanceInvoice(j) \in [Jobs -> Invoices]
    BY <1>1, <2>3 DEF GenerateBalanceInvoice, Invoices, InvoiceStatus
  <2>6. ConsumeInventory(j) \in [Jobs -> Nat]
    BY <1>1 DEF ConsumeInventory
  <2> QED
    BY <1>1, <1>18, <2>2, <2>4, <2>5, <2>6, EndReq DEF CompleteWrite, TypeOK
<1>19. CASE CancelWrite(r)
  <2>1. jobs' \in [Jobs -> JobRows]
    BY <1>1, <1>19 DEF CancelWrite, JobRows, JobStatus
  <2> QED
    BY <1>1, <1>19, <2>1, EndReq DEF CancelWrite, TypeOK
<1>20. CASE FinalizeWrite(r)
  <2>0. PICK j \in Jobs : j = req[r].job
    BY <1>20 DEF FinalizeWrite, At, TypeInv, ArgumentsPresent
  <2> DEFINE status == IF invoices[j].status = "deleted"
                       THEN "deleted" ELSE "open"
  <2>1. invoices' = [invoices EXCEPT ![j].status = status, ![j].intent = TRUE]
    BY <1>20, <2>0 DEF FinalizeWrite
  <2>2. status \in InvoiceStatus
    BY DEF InvoiceStatus
  <2> HIDE DEF status
  <2>3. invoices' \in [Jobs -> Invoices]
    BY <1>1, <2>0, <2>1, <2>2 DEF Invoices
  <2> QED
    BY <1>1, <1>20, <2>3, EndReq DEF FinalizeWrite, TypeOK
<1>21. CASE DeleteWrite(r)
  <2>1. invoices' \in [Jobs -> Invoices]
    BY <1>1, <1>21 DEF DeleteWrite, Invoices, InvoiceStatus
  <2> QED
    BY <1>1, <1>21, <2>1, EndReq DEF DeleteWrite, TypeOK
<1>22. CASE EditInvoiceWrite(r)
  <2>0. PICK j \in Jobs : j = req[r].job
    BY <1>22 DEF EditInvoiceWrite, At, TypeInv, ArgumentsPresent
  <2>1. PICK total \in Totals :
          invoices' = [invoices EXCEPT
            ![j] = [invoices[j] EXCEPT !.total = total, !.credit = 0,
                                       !.edited = TRUE]]
    BY <1>22, <2>0 DEF EditInvoiceWrite
  <2>2. invoices' \in [Jobs -> Invoices]
    <3>1. total \in Int /\ invoices[j] \in Invoices
      BY <1>1, <1>2, <2>0, <2>1
    <3>2. [invoices[j] EXCEPT !.total = total, !.credit = 0, !.edited = TRUE]
            \in Invoices
      BY <3>1 DEF Invoices
    <3> QED
      BY <1>1, <2>0, <2>1, <3>2
  <2> QED
    BY <1>1, <1>22, <2>2, EndReq DEF EditInvoiceWrite, TypeOK
<1> QED
  BY <1>4, <1>5, <1>6, <1>7, <1>8, <1>9, <1>10, <1>11, <1>12, <1>13, <1>14,
     <1>15, <1>16, <1>17, <1>18, <1>19, <1>20, <1>21, <1>22 DEF Proceed

(* The steps of Stripe, the customer and the office, and failures. *)
LEMMA OtherTypeInv ==
  ASSUME TypeInv,
         \/ Environment
         \/ \E r \in Requests : Fail(r) \/ \E p \in Intents : DepositEvent(r, p)
  PROVE  TypeInv'
<1>1. /\ quote \in QuoteRows /\ invoices \in [Jobs -> Invoices]
      /\ intents \in [Intents -> IntentState]
      /\ req \in [Requests -> RequestStates] /\ ArgumentsPresent
  BY DEF TypeInv, TypeOK
<1>2. ASSUME NEW p \in Intents, CustomerPaysDeposit(p)
      PROVE  TypeInv'
  <2>1. intents' \in [Intents -> IntentState]
    BY <1>1, <1>2 DEF CustomerPaysDeposit, IntentState
  <2> QED
    BY <1>2, <2>1 DEF CustomerPaysDeposit, TypeInv, TypeOK, ArgumentsPresent
<1>3. ASSUME NEW j \in Jobs, InvoicePaid(j)
      PROVE  TypeInv'
  <2>1. invoices' \in [Jobs -> Invoices]
    BY <1>1, <1>3 DEF InvoicePaid, Invoices, InvoiceStatus
  <2> QED
    BY <1>3, <2>1 DEF InvoicePaid, TypeInv, TypeOK, ArgumentsPresent
<1>4. ASSUME NEW r \in Requests, NEW p \in Intents, DepositEvent(r, p)
      PROVE  TypeInv'
  <2>1. intents' \in [Intents -> IntentState]
    BY <1>1, <1>4 DEF DepositEvent, IntentState
  <2>2. req' \in [Requests -> RequestStates]
    BY <1>1, <1>4, IdleType DEF DepositEvent, RequestStates, Idle, Steps
  <2>3. ArgumentsPresent'
    BY <1>1, <1>4 DEF DepositEvent, ArgumentsPresent, Idle
  <2> QED
    BY <1>4, <2>1, <2>2, <2>3 DEF DepositEvent, TypeInv, TypeOK
<1>5. ASSUME NEW r \in Requests, Fail(r)
      PROVE  TypeInv'
  <2>1. intents' \in [Intents -> IntentState]
    BY <1>1, <1>5 DEF Fail, IntentState
  <2> QED
    BY <1>5, <2>1, EndReq DEF Fail, TypeInv, TypeOK
<1> QED
  BY <1>2, <1>3, <1>4, <1>5 DEF Environment

(* However requests interleave and fail, every row stays in its table's    *)
(* domain and every handler carries the arguments it needs.                 *)
THEOREM TypeInvariant == Spec => []TypeInv
<1>1. TypeInv /\ [Next]_vars => TypeInv'
  <2>1. TypeInv /\ Next => TypeInv'
    BY ArriveTypeInv, ProceedTypeInv, OtherTypeInv DEF Next
  <2>2. TypeInv /\ UNCHANGED vars => TypeInv'
    BY DEF vars, TypeInv, TypeOK, ArgumentsPresent
  <2> QED
    BY <2>1, <2>2
<1> QED
  BY <1>1, InitTypeInv, PTL DEF Spec

(* The type invariant the runs check. *)
THEOREM TypeCorrect == Spec => []TypeOK
  BY TypeInvariant, PTL DEF TypeInv

-----------------------------------------------------------------------------
(* Who writes what.  The safety properties below each depend on a few       *)
(* columns; these lemmas say which steps can change them, so that each      *)
(* proof considers those steps only.                                        *)

LEMMA ArriveReads ==
  ASSUME NEW r \in Requests, Arrive(r)
  PROVE  UNCHANGED <<quote, jobs, invoices, ledger, reserves, consumed,
                     supplier, intents, refunded>>
  BY DEF Arrive, PriceRead, VoicePriceRead, CommitRead, AcceptRead,
         PublicAcceptRead, ShareRead, VoidRead, IntentRead, JobRead,
         InvoiceRead

LEMMA LedgerWriters ==
  ASSUME Next
  PROVE  UNCHANGED ledger \/ \E r \in Requests : CommitWrite(r) \/ VoidWrite(r)
  BY ArriveReads DEF Next, Proceed, Environment, PriceWrite, CommitCall,
         AcceptWrite, ConvertCall, ConvertStamp, ShareWrite, VoidSupplier,
         RefundCall, RefundStamp, IntentCreate, IntentWrite, DepositStamp,
         CompleteWrite, CancelWrite, CustomerPaysDeposit, FinalizeWrite,
         DeleteWrite, EditInvoiceWrite, InvoicePaid, Fail, DepositEvent

LEMMA InvoiceWriters ==
  ASSUME Next
  PROVE  \/ UNCHANGED invoices
         \/ \E r \in Requests : VoidWrite(r)
         \/ \E r \in Requests : CompleteWrite(r)
         \/ \E r \in Requests : FinalizeWrite(r)
         \/ \E r \in Requests : DeleteWrite(r)
         \/ \E r \in Requests : EditInvoiceWrite(r)
         \/ \E j \in Jobs : InvoicePaid(j)
  BY ArriveReads DEF Next, Proceed, Environment, PriceWrite, CommitCall,
         CommitWrite, AcceptWrite, ConvertCall, ConvertStamp, ShareWrite,
         VoidSupplier, RefundCall, RefundStamp, IntentCreate, IntentWrite,
         DepositStamp, CancelWrite, CustomerPaysDeposit, Fail, DepositEvent

LEMMA StockWriters ==
  ASSUME Next
  PROVE  /\ UNCHANGED reserves \/ \E r \in Requests : AcceptWrite(r)
         /\ UNCHANGED consumed \/ \E r \in Requests : CompleteWrite(r)
  BY ArriveReads DEF Next, Proceed, Environment, PriceWrite, CommitCall,
         CommitWrite, AcceptWrite, ConvertCall, ConvertStamp, ShareWrite,
         VoidWrite, VoidSupplier, RefundCall, RefundStamp, IntentCreate,
         IntentWrite, DepositStamp, CompleteWrite, CancelWrite,
         CustomerPaysDeposit, FinalizeWrite, DeleteWrite, EditInvoiceWrite,
         InvoicePaid, Fail, DepositEvent

-----------------------------------------------------------------------------
(* Which step puts a handler where, and which writes a column of the quote. *)

LEMMA StepOrigins ==
  ASSUME TypeInv, Next, NEW r \in Requests
  PROVE  \/ req'[r] = req[r]
         \/ req'[r].step = "acceptWrite" /\ AcceptRead(r)
         \/ req'[r].step = "commitCall" /\ CommitRead(r)
         \/ req'[r].step = "commitWrite" /\ CommitCall(r)
         \/ req'[r].step = "convertStamp" /\ ConvertCall(r)
         \/ req'[r].step = "refundStamp" /\ RefundCall(r)
         \/ /\ req'[r].step = "depositStamp"
            /\ \E p \in Intents : DepositEvent(r, p)
         \/ /\ req'[r].step = "finalizeWrite"
            /\ \E j \in Jobs : InvoiceRead(r, j, "finalizeWrite")
         \/ req'[r].step \notin {"acceptWrite", "commitCall", "commitWrite",
                                "convertStamp", "refundStamp", "depositStamp",
                                "finalizeWrite"}
<1>1. req \in [Requests -> RequestStates]
  BY DEF TypeInv, TypeOK
<1>2. ASSUME NEW q \in Requests, Arrive(q) \/ Proceed(q) \/ Fail(q)
             \/ \E p \in Intents : DepositEvent(q, p),
             q # r
      PROVE  req'[r] = req[r]
  BY <1>1, <1>2 DEF Arrive, Proceed, Begin, Goto, End,
         PriceRead, VoicePriceRead, CommitRead, AcceptRead,
         PublicAcceptRead, ShareRead, VoidRead, IntentRead,
         JobRead, PriceWrite, CommitCall, CommitWrite, AcceptWrite,
         ConvertCall, ConvertStamp, ShareWrite, VoidWrite, VoidSupplier,
         AfterSupplierVoid, RefundCall, RefundStamp, IntentCreate, IntentWrite,
         DepositStamp, CompleteWrite, CancelWrite, InvoiceRead, FinalizeWrite,
         DeleteWrite, EditInvoiceWrite, Fail, DepositEvent
<1> DEFINE Other == req'[r].step \notin
              {"acceptWrite", "commitCall", "commitWrite", "convertStamp",
               "refundStamp", "depositStamp", "finalizeWrite"}
<1>3. CASE Arrive(r)
  <2>1. AcceptRead(r) \/ PublicAcceptRead(r) =>
          AcceptRead(r) /\ req'[r].step = "acceptWrite"
    BY <1>1 DEF AcceptRead, PublicAcceptRead, Begin, Idle
  <2>2. CommitRead(r) => req'[r].step = "commitCall"
    BY <1>1 DEF CommitRead, Idle
  <2>3. PriceRead(r) \/ VoicePriceRead(r) \/ ShareRead(r) \/ VoidRead(r)
          \/ IntentRead(r) => Other
    BY <1>1 DEF PriceRead, VoicePriceRead, ShareRead, VoidRead, IntentRead,
                Begin, Idle
  <2>4. ASSUME NEW j \in Jobs,
               JobRead(r, j, "completeWrite") \/ JobRead(r, j, "cancelWrite")
        PROVE  Other
    BY <1>1, <2>4 DEF JobRead, Idle
  <2>5. ASSUME NEW j \in Jobs, InvoiceRead(r, j, "finalizeWrite")
        PROVE  req'[r].step = "finalizeWrite"
    BY <1>1, <2>5 DEF InvoiceRead, Idle
  <2>6. ASSUME NEW j \in Jobs, \/ InvoiceRead(r, j, "deleteWrite")
                               \/ InvoiceRead(r, j, "editInvoiceWrite")
        PROVE  Other
    BY <1>1, <2>6 DEF InvoiceRead, Idle
  <2> QED
    BY <1>3, <2>1, <2>2, <2>3, <2>4, <2>5, <2>6 DEF Arrive
<1>4. CASE Proceed(r)
  <2>1. CommitCall(r) => req'[r].step = "commitWrite"
    BY <1>1 DEF CommitCall, Goto, RequestStates
  <2>2. ConvertCall(r) => req'[r].step = "convertStamp" \/ Other
    BY <1>1 DEF ConvertCall, Goto, End, Idle, RequestStates
  <2>3. RefundCall(r) => req'[r].step = "refundStamp" \/ Other
    BY <1>1 DEF RefundCall, Goto, End, Idle, RequestStates
  <2>4. AcceptWrite(r) \/ VoidWrite(r) \/ VoidSupplier(r) => Other
    BY <1>1 DEF AcceptWrite, VoidWrite, VoidSupplier, AfterSupplierVoid,
                Goto, End, Idle, RequestStates
  <2>5. IntentCreate(r) => Other
    BY <1>1 DEF IntentCreate, RequestStates
  <2>6. End(r) => Other
    BY <1>1 DEF End, Idle
  <2> QED
    BY <1>4, <2>1, <2>2, <2>3, <2>4, <2>5, <2>6
       DEF Proceed, PriceWrite, CommitWrite, ConvertStamp, ShareWrite,
           RefundStamp, IntentWrite, DepositStamp, CompleteWrite, CancelWrite,
           FinalizeWrite, DeleteWrite, EditInvoiceWrite
<1>5. CASE Fail(r)
  BY <1>1, <1>5 DEF Fail, End, Idle
<1>6. ASSUME NEW p \in Intents, DepositEvent(r, p)
      PROVE  req'[r] = req[r] \/ req'[r].step = "depositStamp"
  BY <1>1, <1>6 DEF DepositEvent, Idle
<1>7. CASE Environment
  BY <1>7 DEF Environment, CustomerPaysDeposit, InvoicePaid
<1> QED
  BY <1>2, <1>3, <1>4, <1>5, <1>6, <1>7 DEF Next

LEMMA QuoteWriters ==
  ASSUME TypeInv, Next
  PROVE  \/ UNCHANGED <<quote, jobs>>
         \/ UNCHANGED quote /\ \E r \in Requests : CompleteWrite(r) \/ CancelWrite(r)
         \/ \E r \in Requests :
              PriceWrite(r) \/ CommitWrite(r) \/ AcceptWrite(r) \/ VoidWrite(r)
         \/ /\ UNCHANGED jobs
            /\ \E r \in Requests :
                 ShareWrite(r) \/ IntentWrite(r) \/ DepositStamp(r)
                 \/ RefundStamp(r) \/ ConvertStamp(r)
  BY ArriveReads DEF Next, Proceed, Environment, PriceWrite, CommitCall,
         CommitWrite, AcceptWrite, ConvertCall, ConvertStamp, ShareWrite,
         VoidWrite, VoidSupplier, RefundCall, RefundStamp, IntentCreate,
         IntentWrite, DepositStamp, CompleteWrite, CancelWrite,
         CustomerPaysDeposit, FinalizeWrite, DeleteWrite, EditInvoiceWrite,
         InvoicePaid, Fail, DepositEvent

LEMMA SupplierWriters ==
  ASSUME Next
  PROVE  \/ UNCHANGED supplier
         \/ \E r \in Requests :
              CommitCall(r) \/ ConvertCall(r) \/ VoidSupplier(r)
  BY ArriveReads DEF Next, Proceed, Environment, PriceWrite, CommitCall,
         CommitWrite, AcceptWrite, ConvertCall, ConvertStamp, ShareWrite,
         VoidWrite, VoidSupplier, RefundCall, RefundStamp, IntentCreate,
         IntentWrite, DepositStamp, CompleteWrite, CancelWrite,
         CustomerPaysDeposit, FinalizeWrite, DeleteWrite, EditInvoiceWrite,
         InvoicePaid, Fail, DepositEvent

-----------------------------------------------------------------------------
(* The ledger's keys stay distinct and its reversals matched, whatever      *)
(* commits and voids race.  LedgerSound is inductive by itself.             *)
THEOREM LedgerAlwaysSound == Spec => []LedgerSound
<1>1. Init => LedgerSound
  BY DEF Init, LedgerSound, UniqueKeys, ReversalsMatchCredits
<1>2. TypeInv /\ LedgerSound /\ [Next]_vars => LedgerSound'
  <2> SUFFICES ASSUME TypeInv, LedgerSound, Next PROVE LedgerSound'
    BY DEF vars, LedgerSound, UniqueKeys, ReversalsMatchCredits
  <2>1. CASE UNCHANGED ledger
    BY <2>1 DEF LedgerSound, UniqueKeys, ReversalsMatchCredits
  <2>2. ASSUME NEW r \in Requests, CommitWrite(r) PROVE LedgerSound'
    <3> DEFINE user == req[r].user
               total == req[r].row.total
               amounts == Expanded[user][total]
               rows == IF total = 0 THEN {}
                       ELSE CreditRows(user, "quote_committed", QuoteId, amounts)
    <3>1. user \in Users /\ total \in Totals \cup {0}
      BY <2>2 DEF CommitWrite, At, TypeInv, TypeOK, ArgumentsPresent,
                  RequestStates, QuoteRows
    <3>2. UniqueKeys(rows) /\ \A row \in rows : row.kind \in CreditKinds
      <4>1. CASE total = 0
        <5>1. rows = {}
          BY <4>1
        <5> QED
          BY <5>1 DEF UniqueKeys
      <4>2. CASE total # 0
        <5>1. amounts \in Seq(Int \ {0})
          BY <3>1, <4>2, PlanType
        <5>2. amounts \in Seq(Int)
          BY <5>1
        <5>3. UniqueKeys(CreditRows(user, "quote_committed", QuoteId, amounts))
          BY <5>2, CreditRowsKeysUnique
        <5>4. \A row \in CreditRows(user, "quote_committed", QuoteId, amounts) :
                row.kind \in CreditKinds
          BY DEF CreditRows, CreditKinds
        <5>5. rows = CreditRows(user, "quote_committed", QuoteId, amounts)
          BY <4>2
        <5> HIDE DEF rows
        <5> QED
          BY <5>3, <5>4, <5>5
      <4> QED
        BY <4>1, <4>2
    <3>3. ledger' = InsertLedgerRows(ledger, rows)
      BY <2>2 DEF CommitWrite, OnQuoteCommitted
    <3>4. /\ UniqueKeys(InsertLedgerRows(ledger, rows))
          /\ ReversalsMatchCredits(InsertLedgerRows(ledger, rows))
      BY <3>2, InsertKeepsKeysUnique, CreditsKeepReversalsMatched
         DEF LedgerSound
    <3> QED
      BY <3>3, <3>4 DEF LedgerSound, UniqueKeys, ReversalsMatchCredits
  <2>3. ASSUME NEW r \in Requests, VoidWrite(r) PROVE LedgerSound'
    <3>1. \/ ledger' = ledger
          \/ ledger' = WriteReversals(ledger, "quote_committed", QuoteId)
      BY <2>3 DEF VoidWrite, ReverseQuoteCommitted
    <3>2. /\ UniqueKeys(WriteReversals(ledger, "quote_committed", QuoteId))
          /\ ReversalsMatchCredits(
               WriteReversals(ledger, "quote_committed", QuoteId))
      BY WriteReversalsKeysUnique, ReversalsKeepReversalsMatched
         DEF LedgerSound, CreditKinds
    <3> QED
      BY <3>1, <3>2 DEF LedgerSound, UniqueKeys, ReversalsMatchCredits
  <2> QED
    BY <2>1, <2>2, <2>3, LedgerWriters
<1> QED
  BY <1>1, <1>2, TypeInvariant, PTL DEF Spec

(* Completions never leave the quote two live balance invoices.  Not        *)
(* inductive: a finalize writes by id what it read as a draft, so the row   *)
(* must still exist, or the write would bring a second invoice to life.     *)

OneLiveAndFinalizable ==
  /\ OneLiveBalanceInvoice
  /\ \A r \in Requests :
       At(r, "finalizeWrite") => invoices[req[r].job].status # "none"

(* However many jobs of a quote complete and whatever staff do with the     *)
(* drafts, at most one balance invoice is live (balance-invoice).           *)
THEOREM AlwaysOneLiveBalanceInvoice == Spec => []OneLiveBalanceInvoice
<1>1. Init => OneLiveAndFinalizable
  BY DEF Init, OneLiveAndFinalizable, OneLiveBalanceInvoice, Live, NoInvoice,
         At, Idle
<1>2. TypeInv /\ OneLiveAndFinalizable /\ [Next]_vars => OneLiveAndFinalizable'
  <2>0. CASE UNCHANGED vars
    <3>1. OneLiveBalanceInvoice => OneLiveBalanceInvoice'
      BY <2>0 DEF vars, OneLiveBalanceInvoice, Live
    <3> QED
      BY <2>0, <3>1 DEF vars, OneLiveAndFinalizable, At
  <2> SUFFICES ASSUME TypeInv, OneLiveAndFinalizable, Next
               PROVE  OneLiveAndFinalizable'
    BY <2>0
  <2>1. /\ invoices \in [Jobs -> Invoices]
        /\ req \in [Requests -> RequestStates]
        /\ ArgumentsPresent /\ OneLiveBalanceInvoice
    BY DEF TypeInv, TypeOK, OneLiveAndFinalizable
  <2>2. ASSUME \A j \in Jobs : Live(invoices'[j]) => Live(invoices[j])
        PROVE  OneLiveBalanceInvoice'
    BY <2>1, <2>2 DEF OneLiveBalanceInvoice, Live
  <2>3. ASSUME UNCHANGED invoices
        PROVE  OneLiveBalanceInvoice'
    BY <2>1, <2>3 DEF OneLiveBalanceInvoice, Live
  <2>4. ASSUME NEW r \in Requests, VoidWrite(r)
        PROVE  OneLiveBalanceInvoice'
    BY <2>1, <2>2, <2>4 DEF VoidWrite, VoidUnpaidInvoices
  <2>5. ASSUME NEW r \in Requests, CompleteWrite(r)
        PROVE  OneLiveBalanceInvoice'
    BY <2>1, <2>5
       DEF CompleteWrite, GenerateBalanceInvoice, OneLiveBalanceInvoice, Live
  <2>6. ASSUME NEW r \in Requests, FinalizeWrite(r)
        PROVE  OneLiveBalanceInvoice'
    <3>1. req[r].job \in Jobs /\ invoices[req[r].job].status # "none"
      BY <2>1, <2>6 DEF FinalizeWrite, At, ArgumentsPresent,
                        OneLiveAndFinalizable
    <3> QED
      BY <2>1, <2>2, <2>6, <3>1 DEF FinalizeWrite, Live, Invoices
  <2>7. ASSUME NEW r \in Requests, DeleteWrite(r)
        PROVE  OneLiveBalanceInvoice'
    BY <2>1, <2>2, <2>7 DEF DeleteWrite, Live, Invoices
  <2>8. ASSUME NEW j \in Jobs, InvoicePaid(j)
        PROVE  OneLiveBalanceInvoice'
    BY <2>1, <2>2, <2>8 DEF InvoicePaid, Live, Invoices
  <2>8a. ASSUME NEW r \in Requests, EditInvoiceWrite(r)
         PROVE  OneLiveBalanceInvoice'
    BY <2>1, <2>2, <2>8a DEF EditInvoiceWrite, Live, Invoices
  <2>9. OneLiveBalanceInvoice'
    BY <2>3, <2>4, <2>5, <2>6, <2>7, <2>8, <2>8a, InvoiceWriters
  <2>10. \A j \in Jobs : invoices[j].status # "none" =>
                          invoices'[j].status # "none"
    <3> SUFFICES ASSUME NEW j \in Jobs, invoices[j].status # "none"
                 PROVE  invoices'[j].status # "none"
      OBVIOUS
    <3>1. ASSUME NEW r \in Requests, VoidWrite(r)
          PROVE  invoices'[j].status # "none"
      BY <2>1, <3>1 DEF VoidWrite, VoidUnpaidInvoices, Invoices
    <3>2. ASSUME NEW r \in Requests, CompleteWrite(r)
          PROVE  invoices'[j].status # "none"
      BY <2>1, <3>2 DEF CompleteWrite, GenerateBalanceInvoice, Invoices
    <3>3. ASSUME NEW r \in Requests, FinalizeWrite(r)
          PROVE  invoices'[j].status # "none"
      BY <2>1, <3>3 DEF FinalizeWrite, Invoices
    <3>4. ASSUME NEW r \in Requests, DeleteWrite(r)
          PROVE  invoices'[j].status # "none"
      BY <2>1, <3>4 DEF DeleteWrite, Invoices
    <3>5. ASSUME NEW i \in Jobs, InvoicePaid(i)
          PROVE  invoices'[j].status # "none"
      BY <2>1, <3>5 DEF InvoicePaid, Invoices
    <3>6. ASSUME NEW r \in Requests, EditInvoiceWrite(r)
          PROVE  invoices'[j].status # "none"
      BY <2>1, <3>6 DEF EditInvoiceWrite, Invoices
    <3> QED
      BY <3>1, <3>2, <3>3, <3>4, <3>5, <3>6, InvoiceWriters
  <2>11. ASSUME NEW r \in Requests, At(r, "finalizeWrite")'
         PROVE  invoices'[req'[r].job].status # "none"
    <3>1. CASE req'[r] = req[r]
      <4>1. At(r, "finalizeWrite") /\ req[r].job \in Jobs
        BY <2>1, <2>11, <3>1 DEF At, ArgumentsPresent
      <4> QED
        BY <2>10, <3>1, <4>1 DEF OneLiveAndFinalizable
    <3>2. CASE req'[r] # req[r]
      <4>1. PICK j \in Jobs : InvoiceRead(r, j, "finalizeWrite")
        BY <2>11, <3>2, StepOrigins DEF At
      <4>2. req'[r].job = j
        BY <2>1, <4>1 DEF InvoiceRead, Idle
      <4> QED
        BY <4>1, <4>2 DEF InvoiceRead
    <3> QED
      BY <3>1, <3>2
  <2> QED
    BY <2>9, <2>11 DEF OneLiveAndFinalizable
<1>3. OneLiveAndFinalizable => OneLiveBalanceInvoice
  BY DEF OneLiveAndFinalizable
<1> QED
  BY <1>1, <1>2, <1>3, TypeInvariant, PTL DEF Spec

(* Stock is reserved once for the quote and consumed once by each job.      *)
THEOREM StockAlwaysMovedOnce == Spec => []StockMovedOnce
<1>1. Init => StockMovedOnce
  BY DEF Init, StockMovedOnce
<1>2. TypeInv /\ StockMovedOnce /\ [Next]_vars => StockMovedOnce'
  <2> SUFFICES ASSUME TypeInv, StockMovedOnce, Next PROVE StockMovedOnce'
    BY DEF vars, StockMovedOnce
  <2>1. reserves \in Nat /\ consumed \in [Jobs -> Nat]
    BY DEF TypeInv, TypeOK
  <2>2. reserves' <= 1
    BY <2>1, StockWriters
       DEF StockMovedOnce, AcceptWrite, ReserveInventoryForQuote
  <2>3. \A j \in Jobs : consumed'[j] <= 1
    <3>1. CASE UNCHANGED consumed
      BY <3>1 DEF StockMovedOnce
    <3>2. ASSUME NEW r \in Requests, CompleteWrite(r)
          PROVE  \A j \in Jobs : consumed'[j] <= 1
      BY <2>1, <3>2 DEF StockMovedOnce, CompleteWrite, ConsumeInventory
    <3> QED
      BY <3>1, <3>2, StockWriters
  <2> QED
    BY <2>2, <2>3 DEF StockMovedOnce
<1> QED
  BY <1>1, <1>2, TypeInvariant, PTL DEF Spec

-----------------------------------------------------------------------------
(* An accepted quote has a job and its stock.  Not inductive: a raced       *)
(* acceptance links the job its read saw, which must be the quote's job       *)
(* still, unless that is linked already.                                    *)

JobLinked ==
  /\ AcceptedHasJob
  /\ \A r \in Requests :
       At(r, "acceptWrite") /\ req[r].row.job # None =>
         /\ quote.job # None
         /\ quote.job = req[r].row.job \/ jobs[quote.job].quoted

(* An accepted quote names a job that names it back and has its stock       *)
(* reserved, however acceptances race (ensureJobForAcceptedQuote).          *)
THEOREM AcceptedAlwaysHasJob == Spec => []AcceptedHasJob
<1>1. Init => JobLinked
  BY DEF Init, JobLinked, AcceptedHasJob, DraftQuote, Idle, At
<1>2. TypeInv /\ StockMovedOnce /\ JobLinked /\ [Next]_vars => JobLinked'
  <2> SUFFICES ASSUME TypeInv, StockMovedOnce, JobLinked, Next
               PROVE  JobLinked'
    BY DEF vars, JobLinked, AcceptedHasJob, At
  <2>1. /\ quote \in QuoteRows /\ jobs \in [Jobs -> JobRows]
        /\ reserves \in Nat /\ req \in [Requests -> RequestStates]
        /\ None \notin Jobs
    BY ConstantsAssumption DEF TypeInv, TypeOK, ConstantsAssumption
  <2>2. ASSUME NEW r \in Requests, AcceptWrite(r)
        PROVE  /\ quote'.job # None /\ jobs'[quote'.job].quoted
               /\ reserves' = 1
    <3>1. reserves' = 1
      BY <2>1, <2>2 DEF AcceptWrite, ReserveInventoryForQuote, StockMovedOnce
    <3>2. CASE req[r].row.job # None
      <4>1. /\ quote.job \in Jobs
            /\ quote.job = req[r].row.job \/ jobs[quote.job].quoted
        BY <2>1, <2>2, <3>2 DEF AcceptWrite, JobLinked, QuoteRows
      <4>2. /\ jobs' = [jobs EXCEPT ![req[r].row.job].quoted = TRUE]
            /\ quote' = [quote EXCEPT !.status = "accepted"]
        BY <2>2, <3>2 DEF AcceptWrite, EnsureJob, LinkJob
      <4>3. quote'.job = quote.job
        BY <2>1, <4>2 DEF QuoteRows
      <4>4. jobs'[quote.job].quoted
        BY <2>1, <4>1, <4>2 DEF JobRows
      <4> QED
        BY <2>1, <3>1, <4>1, <4>3, <4>4
    <3>3. CASE req[r].row.job = None
      <4>1. PICK j \in Jobs :
              /\ jobs' = [jobs EXCEPT ![j] = [status |-> "open", quoted |-> TRUE]]
              /\ quote' = [quote EXCEPT !.status = "accepted", !.job = j]
        BY <2>2, <3>3 DEF AcceptWrite, EnsureJob
      <4> QED
        BY <2>1, <3>1, <4>1 DEF QuoteRows
    <3> QED
      BY <3>2, <3>3
  <2>3. CASE \E r \in Requests : AcceptWrite(r)
    <3>1. /\ quote'.job # None /\ jobs'[quote'.job].quoted
          /\ reserves' = 1
      BY <2>2, <2>3
    <3> QED
      BY <3>1 DEF JobLinked, AcceptedHasJob
  <2>4. CASE ~ \E r \in Requests : AcceptWrite(r)
    <3>1. /\ quote'.job = quote.job
          /\ quote'.status = "accepted" => quote.status = "accepted"
      BY <2>1, <2>4, QuoteWriters
         DEF PriceWrite, CommitWrite, VoidWrite, ShareWrite, IntentWrite,
             DepositStamp, RefundStamp, ConvertStamp, QuoteRows
    <3>2. \A j \in Jobs : jobs'[j].quoted = jobs[j].quoted
      <4>1. ASSUME NEW r \in Requests, CompleteWrite(r) \/ CancelWrite(r)
            PROVE  \A j \in Jobs : jobs'[j].quoted = jobs[j].quoted
        BY <2>1, <4>1 DEF CompleteWrite, CancelWrite, JobRows
      <4> QED
        BY <2>4, <4>1, QuoteWriters DEF PriceWrite, CommitWrite, VoidWrite
    <3>3. reserves' = reserves
      BY <2>4, StockWriters
    <3>4. quote.job # None => quote.job \in Jobs
      BY <2>1 DEF QuoteRows
    <3>5. ASSUME NEW r \in Requests, At(r, "acceptWrite")',
                 req'[r].row.job # None
          PROVE  /\ quote'.job # None
                 /\ quote'.job = req'[r].row.job \/ jobs'[quote'.job].quoted
      <4>1. CASE req'[r] = req[r]
        BY <3>1, <3>2, <3>4, <3>5, <4>1 DEF JobLinked, At
      <4>2. CASE AcceptRead(r)
        BY <2>1, <3>1, <3>5, <4>2, IdleType
           DEF AcceptRead, Begin, Idle, QuoteRows
      <4> QED
        BY <3>5, <4>1, <4>2, StepOrigins DEF At
    <3> QED
      BY <3>1, <3>2, <3>3, <3>4, <3>5 DEF JobLinked, AcceptedHasJob
  <2> QED
    BY <2>3, <2>4
<1>3. JobLinked => AcceptedHasJob
  BY DEF JobLinked
<1> QED
  BY <1>1, <1>2, <1>3, TypeInvariant, StockAlwaysMovedOnce, PTL DEF Spec

-----------------------------------------------------------------------------
(* What is committed here is committed at the supplier.  Not inductive: a  *)
(* commit stores the key of a call made earlier, and an acceptance relies   *)
(* on the reference that the quote had when it was read.                    *)

SupplierKnows ==
  /\ quote.ref # None => supplier[quote.ref] # "none"
  /\ quote.status \in {"committed", "accepted"} => quote.ref # None
  /\ \A r \in Requests :
       /\ At(r, "commitWrite") => supplier[req[r].key] # "none"
       /\ At(r, "acceptWrite") => quote.ref # None

(* A committed or accepted quote exists at the supplier under the reference *)
(* on its row, whichever commits, prices and voids overlap.                 *)
THEOREM CommittedAlwaysAtSupplier == Spec => []CommittedAtSupplier
<1>1. Init => SupplierKnows
  BY DEF Init, SupplierKnows, DraftQuote, Idle, At
<1>2. TypeInv /\ SupplierKnows /\ [Next]_vars => SupplierKnows'
  <2> SUFFICES ASSUME TypeInv, SupplierKnows, Next PROVE SupplierKnows'
    BY DEF vars, SupplierKnows, At
  <2>1. /\ quote \in QuoteRows /\ supplier \in [Keys -> SupplierState]
        /\ req \in [Requests -> RequestStates]
        /\ QuoteKey \in Keys /\ None \notin Keys
    BY ConstantsAssumption DEF TypeInv, TypeOK, ConstantsAssumption
  <2>2. \A k \in Keys : supplier[k] # "none" => supplier'[k] # "none"
    BY <2>1, SupplierWriters DEF CommitCall, ConvertCall, VoidSupplier
  <2>3. ASSUME NEW r \in Requests, CommitWrite(r)
        PROVE  /\ quote'.ref # None /\ supplier'[quote'.ref] # "none"
    <3>1. req[r].key \in Keys /\ supplier[req[r].key] # "none"
      BY <2>3 DEF CommitWrite, At, TypeInv, ArgumentsPresent, SupplierKnows
    <3>2. quote'.ref = req[r].key
      BY <2>1, <2>3 DEF CommitWrite, QuoteRows
    <3> QED
      BY <2>1, <2>2, <3>1, <3>2
  <2>4. ASSUME ~ \E r \in Requests : CommitWrite(r)
        PROVE  /\ quote'.ref = quote.ref
               /\ quote'.status \in {"committed", "accepted"} =>
                    \/ quote.status \in {"committed", "accepted"}
                    \/ \E r \in Requests : At(r, "acceptWrite")
    <3>1. ASSUME NEW r \in Requests, AcceptWrite(r)
          PROVE  quote'.ref = quote.ref /\ At(r, "acceptWrite")
      BY <2>1, <3>1 DEF AcceptWrite, EnsureJob, LinkJob, QuoteRows
    <3>2. CASE ~ \E r \in Requests : AcceptWrite(r)
      BY <2>1, <2>4, <3>2, QuoteWriters
         DEF PriceWrite, VoidWrite, ShareWrite, IntentWrite,
             DepositStamp, RefundStamp, ConvertStamp, QuoteRows
    <3> QED
      BY <3>1, <3>2
  <2>5. quote.ref # None => quote'.ref # None
    BY <2>3, <2>4
  <2>6. quote'.ref # None => supplier'[quote'.ref] # "none"
    BY <2>1, <2>2, <2>3, <2>4 DEF SupplierKnows, QuoteRows
  <2>7. quote'.status \in {"committed", "accepted"} => quote'.ref # None
    BY <2>3, <2>4 DEF SupplierKnows
  <2>8. ASSUME NEW r \in Requests, At(r, "commitWrite")'
        PROVE  supplier'[req'[r].key] # "none"
    <3>1. CASE req'[r] = req[r]
      BY <2>2, <2>8, <3>1 DEF At, SupplierKnows, TypeInv, ArgumentsPresent
    <3>2. CASE CommitCall(r)
      <4>1. req[r].key \in Keys
        BY <3>2 DEF CommitCall, At, TypeInv, ArgumentsPresent
      <4>2. req'[r].key = req[r].key
        BY <2>1, <3>2 DEF CommitCall, Goto, RequestStates
      <4> QED
        BY <2>1, <3>2, <4>1, <4>2 DEF CommitCall
    <3> QED
      BY <2>8, <3>1, <3>2, StepOrigins DEF At
  <2>9. ASSUME NEW r \in Requests, At(r, "acceptWrite")'
        PROVE  quote'.ref # None
    <3>1. CASE req'[r] = req[r]
      BY <2>5, <2>9, <3>1 DEF At, SupplierKnows
    <3>2. CASE AcceptRead(r)
      BY <2>1, <3>2
         DEF AcceptRead, CanTransition, Matrix, SupplierKnows, QuoteRows,
             QuoteStatus
    <3> QED
      BY <2>9, <3>1, <3>2, StepOrigins DEF At
  <2> QED
    BY <2>6, <2>7, <2>8, <2>9 DEF SupplierKnows
<1>3. SupplierKnows => CommittedAtSupplier
  BY DEF SupplierKnows, CommittedAtSupplier
<1> QED
  BY <1>1, <1>2, <1>3, TypeInvariant, PTL DEF Spec

-----------------------------------------------------------------------------
(* The closer on record has been credited.  Not inductive: a commit credits *)
(* the total it read, which must be one that pricing produced, and an       *)
(* acceptance relies on the closer the quote had when it was read.          *)

AlwaysPaid(user) == \A t \in Totals : Expanded[user][t] # <<>>

Credited(rows, user) ==
  \E row \in OriginalRows(rows, "quote_committed", QuoteId) : row.user = user

CloserOnRecord ==
  /\ quote.status = "priced" => quote.total \in Totals
  /\ quote.status \in {"committed", "accepted"} => quote.closer # None
  /\ quote.closer # None /\ AlwaysPaid(quote.closer) =>
       Credited(ledger, quote.closer)
  /\ \A r \in Requests :
       /\ req[r].step \in {"commitCall", "commitWrite"} =>
            req[r].row.total \in Totals
       /\ At(r, "acceptWrite") => quote.closer # None

(* A commit on a total that pays the closer leaves the closer credited. *)
LEMMA CommitCredits ==
  ASSUME TypeInv, CloserOnRecord, NEW r \in Requests, CommitWrite(r),
         AlwaysPaid(req[r].user)
  PROVE  Credited(ledger', req[r].user)
<1> DEFINE user == req[r].user
           total == req[r].row.total
           amounts == Expanded[user][total]
           first == [user   |-> user,
                     kind   |-> "quote_committed",
                     source |-> <<QuoteId, IF Len(amounts) = 1 THEN 0 ELSE 1>>,
                     amount |-> amounts[1]]
<1>1. user \in Users /\ total \in Totals
  BY DEF CommitWrite, At, TypeInv, ArgumentsPresent, CloserOnRecord
<1>2. amounts \in Seq(Int \ {0}) /\ amounts # <<>> /\ total # 0
  BY <1>1, PlanType DEF AlwaysPaid
<1>3. 1 \in 1..Len(amounts)
  BY <1>2
<1>4. first \in CreditRows(user, "quote_committed", QuoteId, amounts)
  BY <1>3 DEF CreditRows
<1>5. ledger' = InsertLedgerRows(ledger,
                  CreditRows(user, "quote_committed", QuoteId, amounts))
  BY <1>2 DEF CommitWrite, OnQuoteCommitted
<1>6. PICK other \in ledger' : SameKey(other, first)
  BY <1>4, <1>5, InsertCoversKeys
<1>7. /\ other.kind = "quote_committed" /\ other.source[1] = QuoteId
      /\ other.user = user
  BY <1>6 DEF SameKey
<1> QED
  BY <1>6, <1>7 DEF Credited, OriginalRows

(* Whoever the row names as closer has a commission row for the quote,      *)
(* whichever commits race.                                                  *)
THEOREM CloserAlwaysCredited == Spec => []CloserCredited
<1>1. Init => CloserOnRecord
  BY DEF Init, CloserOnRecord, DraftQuote, Idle, At
<1>2. TypeInv /\ CloserOnRecord /\ [Next]_vars => CloserOnRecord'
  <2> SUFFICES ASSUME TypeInv, CloserOnRecord, Next PROVE CloserOnRecord'
    BY DEF vars, CloserOnRecord, Credited, OriginalRows, At
  <2>1. /\ quote \in QuoteRows /\ req \in [Requests -> RequestStates]
        /\ None \notin Users
    BY ConstantsAssumption DEF TypeInv, TypeOK, ConstantsAssumption
  <2>2. ASSUME NEW r \in Requests, CommitWrite(r)
        PROVE  /\ quote'.closer # None /\ quote'.status = "committed"
               /\ AlwaysPaid(quote'.closer) => Credited(ledger', quote'.closer)
    <3>1. req[r].user \in Users
      BY <2>2 DEF CommitWrite, At, TypeInv, ArgumentsPresent
    <3>2. quote'.closer = req[r].user /\ quote'.status = "committed"
      BY <2>1, <2>2 DEF CommitWrite, QuoteRows
    <3> QED
      BY <2>1, <2>2, <3>1, <3>2, CommitCredits
  <2>3. ASSUME ~ \E r \in Requests : CommitWrite(r)
        PROVE  /\ quote'.closer = quote.closer
               /\ quote'.status \in {"committed", "accepted"} =>
                    \/ quote.status \in {"committed", "accepted"}
                    \/ \E r \in Requests : At(r, "acceptWrite")
               /\ quote'.status = "priced" => quote'.total \in Totals
    <3>1. ASSUME NEW r \in Requests, AcceptWrite(r)
          PROVE  /\ quote'.closer = quote.closer /\ At(r, "acceptWrite")
                 /\ quote'.status = "accepted"
      BY <2>1, <3>1 DEF AcceptWrite, EnsureJob, LinkJob, QuoteRows
    <3>2. CASE ~ \E r \in Requests : AcceptWrite(r)
      BY <2>1, <2>3, <3>2, QuoteWriters
         DEF PriceWrite, VoidWrite, ShareWrite, IntentWrite, CloserOnRecord,
             DepositStamp, RefundStamp, ConvertStamp, QuoteRows
    <3> QED
      BY <3>1, <3>2
  <2>4. quote.closer # None => quote'.closer # None
    BY <2>2, <2>3
  <2>5. quote'.status = "priced" => quote'.total \in Totals
    BY <2>2, <2>3
  <2>6. quote'.status \in {"committed", "accepted"} => quote'.closer # None
    BY <2>2, <2>3 DEF CloserOnRecord
  <2>7. ledger \subseteq ledger'
    <3>1. ASSUME NEW r \in Requests, CommitWrite(r)
          PROVE  ledger \subseteq ledger'
      BY <3>1, InsertKeepsRows DEF CommitWrite, OnQuoteCommitted
    <3>2. ASSUME NEW r \in Requests, VoidWrite(r)
          PROVE  ledger \subseteq ledger'
      BY <3>2, InsertKeepsRows
         DEF VoidWrite, ReverseQuoteCommitted, WriteReversals
    <3> QED
      BY <3>1, <3>2, LedgerWriters
  <2>8. quote'.closer # None /\ AlwaysPaid(quote'.closer) =>
          Credited(ledger', quote'.closer)
    BY <2>2, <2>3, <2>7 DEF CloserOnRecord, Credited, OriginalRows
  <2>9. ASSUME NEW r \in Requests,
               req'[r].step \in {"commitCall", "commitWrite"}
        PROVE  req'[r].row.total \in Totals
    <3>1. CASE req'[r] = req[r]
      BY <2>9, <3>1 DEF CloserOnRecord
    <3>2. CASE CommitRead(r)
      <4>1. quote.status = "priced"
        BY <2>1, <3>2
           DEF CommitRead, CanTransition, Matrix, QuoteRows, QuoteStatus
      <4>2. req'[r].row.total = quote.total
        BY <2>1, <3>2, IdleType DEF CommitRead, Idle, QuoteRows
      <4> QED
        BY <4>1, <4>2 DEF CloserOnRecord
    <3>3. CASE CommitCall(r)
      BY <2>1, <3>3 DEF CommitCall, At, Goto, CloserOnRecord, RequestStates
    <3> QED
      BY <2>9, <3>1, <3>2, <3>3, StepOrigins
  <2>10. ASSUME NEW r \in Requests, At(r, "acceptWrite")'
         PROVE  quote'.closer # None
    <3>1. CASE req'[r] = req[r]
      BY <2>4, <2>10, <3>1 DEF At, CloserOnRecord
    <3>2. CASE AcceptRead(r)
      BY <2>1, <3>2
         DEF AcceptRead, CanTransition, Matrix, CloserOnRecord, QuoteRows,
             QuoteStatus
    <3> QED
      BY <2>10, <3>1, <3>2, StepOrigins DEF At
  <2> QED
    BY <2>5, <2>6, <2>8, <2>9, <2>10
       DEF CloserOnRecord, AlwaysPaid, Credited, OriginalRows
<1>3. CloserOnRecord => CloserCredited
  BY DEF CloserOnRecord, CloserCredited, AlwaysPaid, Credited
<1> QED
  BY <1>1, <1>2, <1>3, TypeInvariant, PTL DEF Spec

-----------------------------------------------------------------------------
(* Stamps never get ahead of the supplier and Stripe.  Not inductive: each *)
(* stamp is written after, and apart from, the call that justifies it.      *)

StampsJustified ==
  /\ StampsAreTrue
  /\ \A r \in Requests :
       /\ At(r, "convertStamp") => supplier[QuoteKey] = "ordered"
       /\ At(r, "depositStamp") => intents[req[r].intent] \in {"paid", "seen"}
       /\ At(r, "refundStamp") => refunded # {}

LEMMA IntentsStayPaid ==
  ASSUME TypeInv, Next, NEW p \in Intents, intents[p] \in {"paid", "seen"}
  PROVE  intents'[p] \in {"paid", "seen"}
<1>1. intents \in [Intents -> IntentState]
  BY DEF TypeInv, TypeOK
<1>2. \/ UNCHANGED intents
      \/ \E q \in Intents : CustomerPaysDeposit(q)
      \/ \E r \in Requests : IntentCreate(r) \/ Fail(r)
           \/ \E q \in Intents : DepositEvent(r, q)
  BY ArriveReads DEF Next, Proceed, Environment, PriceWrite, CommitCall,
         CommitWrite, AcceptWrite, ConvertCall, ConvertStamp, ShareWrite,
         VoidWrite, VoidSupplier, RefundCall, RefundStamp, IntentWrite,
         DepositStamp, CompleteWrite, CancelWrite, FinalizeWrite, DeleteWrite,
         EditInvoiceWrite, InvoicePaid
<1>3. ASSUME NEW r \in Requests, Fail(r)
      PROVE  intents'[p] \in {"paid", "seen"}
  BY <1>1, <1>3 DEF Fail
<1>4. ASSUME NEW r \in Requests, IntentCreate(r)
      PROVE  intents'[p] \in {"paid", "seen"}
  BY <1>1, <1>4 DEF IntentCreate
<1>5. ASSUME NEW r \in Requests, NEW q \in Intents, DepositEvent(r, q)
      PROVE  intents'[p] \in {"paid", "seen"}
  BY <1>1, <1>5 DEF DepositEvent
<1> QED
  BY <1>1, <1>2, <1>3, <1>4, <1>5 DEF CustomerPaysDeposit

LEMMA OrderAndRefundStay ==
  ASSUME TypeInv, Next
  PROVE  /\ supplier[QuoteKey] = "ordered" => supplier'[QuoteKey] = "ordered"
         /\ refunded \subseteq refunded'
<1>1. supplier \in [Keys -> SupplierState] /\ QuoteKey \in Keys
  BY ConstantsAssumption DEF TypeInv, TypeOK, ConstantsAssumption
<1>2. supplier[QuoteKey] = "ordered" => supplier'[QuoteKey] = "ordered"
  BY <1>1, SupplierWriters DEF CommitCall, ConvertCall, VoidSupplier
<1>3. refunded' = refunded \/ \E r \in Requests : RefundCall(r)
  BY ArriveReads DEF Next, Proceed, Environment, PriceWrite, CommitCall,
         CommitWrite, AcceptWrite, ConvertCall, ConvertStamp, ShareWrite,
         VoidWrite, VoidSupplier, RefundStamp, IntentCreate, IntentWrite,
         DepositStamp, CompleteWrite, CancelWrite, CustomerPaysDeposit,
         FinalizeWrite, DeleteWrite, EditInvoiceWrite, InvoicePaid, Fail,
         DepositEvent
<1>4. ASSUME NEW r \in Requests, RefundCall(r)
      PROVE  refunded \subseteq refunded'
  BY <1>4 DEF RefundCall
<1> QED
  BY <1>2, <1>3, <1>4

(* Order, deposit and refund stamps never precede what they record,         *)
(* wherever a handler fails.                                                *)
THEOREM StampsAlwaysTrue == Spec => []StampsAreTrue
<1>1. Init => StampsJustified
  BY DEF Init, StampsJustified, StampsAreTrue, DraftQuote, Idle, At
<1>2. TypeInv /\ StampsJustified /\ [Next]_vars => StampsJustified'
  <2> SUFFICES ASSUME TypeInv, StampsJustified, Next PROVE StampsJustified'
    BY DEF vars, StampsJustified, StampsAreTrue, At
  <2>1. /\ quote \in QuoteRows /\ req \in [Requests -> RequestStates]
        /\ supplier \in [Keys -> SupplierState] /\ QuoteKey \in Keys
        /\ intents \in [Intents -> IntentState]
    BY ConstantsAssumption DEF TypeInv, TypeOK, ConstantsAssumption
  <2>2. /\ quote'.ordered =>
             quote.ordered \/ \E r \in Requests : At(r, "convertStamp")
        /\ quote'.paid =>
             quote.paid \/ \E r \in Requests : At(r, "depositStamp")
        /\ quote'.refunded =>
             quote.refunded \/ \E r \in Requests : At(r, "refundStamp")
    <3>1. ASSUME NEW r \in Requests, AcceptWrite(r)
          PROVE  /\ quote'.ordered = quote.ordered
                 /\ quote'.paid = quote.paid
                 /\ quote'.refunded = quote.refunded
      BY <2>1, <3>1 DEF AcceptWrite, EnsureJob, LinkJob, QuoteRows
    <3>2. CASE ~ \E r \in Requests : AcceptWrite(r)
      BY <2>1, <3>2, QuoteWriters
         DEF PriceWrite, CommitWrite, VoidWrite, ShareWrite, IntentWrite,
             DepositStamp, RefundStamp, ConvertStamp, QuoteRows
    <3> QED
      BY <3>1, <3>2
  <2>3. quote'.ordered => supplier'[QuoteKey] = "ordered"
    BY <2>2, OrderAndRefundStay DEF StampsJustified, StampsAreTrue
  <2>4. quote'.paid => \E p \in Intents : intents'[p] \in {"paid", "seen"}
    <3>1. ASSUME NEW r \in Requests, At(r, "depositStamp")
          PROVE  \E p \in Intents : intents[p] \in {"paid", "seen"}
      BY <3>1 DEF At, StampsJustified, TypeInv, ArgumentsPresent
    <3>2. ASSUME quote'.paid
          PROVE  \E p \in Intents : intents[p] \in {"paid", "seen"}
      BY <2>2, <3>1, <3>2 DEF StampsJustified, StampsAreTrue
    <3> QED
      BY <3>2, IntentsStayPaid
  <2>5. quote'.refunded => refunded' # {}
    BY <2>2, OrderAndRefundStay DEF StampsJustified, StampsAreTrue
  <2>6. ASSUME NEW r \in Requests, At(r, "convertStamp")'
        PROVE  supplier'[QuoteKey] = "ordered"
    <3>1. CASE req'[r] = req[r]
      BY <2>6, <3>1, OrderAndRefundStay DEF At, StampsJustified
    <3>2. CASE ConvertCall(r)
      BY <2>1, <2>6, <3>2 DEF ConvertCall, At, End, Idle
    <3> QED
      BY <2>6, <3>1, <3>2, StepOrigins DEF At
  <2>7. ASSUME NEW r \in Requests, At(r, "depositStamp")'
        PROVE  intents'[req'[r].intent] \in {"paid", "seen"}
    <3>1. CASE req'[r] = req[r]
      BY <2>7, <3>1, IntentsStayPaid
         DEF At, StampsJustified, TypeInv, ArgumentsPresent
    <3>2. ASSUME req'[r] # req[r], NEW p \in Intents, DepositEvent(r, p)
          PROVE  intents'[req'[r].intent] \in {"paid", "seen"}
      BY <2>1, <2>7, <3>2 DEF DepositEvent, At, Idle
    <3> QED
      BY <2>7, <3>1, <3>2, StepOrigins DEF At
  <2>8. ASSUME NEW r \in Requests, At(r, "refundStamp")'
        PROVE  refunded' # {}
    <3>1. CASE req'[r] = req[r]
      BY <2>8, <3>1, OrderAndRefundStay DEF At, StampsJustified
    <3>2. CASE RefundCall(r)
      BY <2>1, <2>8, <3>2 DEF RefundCall, At, End, Idle
    <3> QED
      BY <2>8, <3>1, <3>2, StepOrigins DEF At
  <2>9. StampsAreTrue'
    BY <2>3, <2>4, <2>5 DEF StampsAreTrue
  <2> QED
    BY <2>6, <2>7, <2>8, <2>9 DEF StampsJustified
<1>3. StampsJustified => StampsAreTrue
  BY DEF StampsJustified
<1> QED
  BY <1>1, <1>2, <1>3, TypeInvariant, PTL DEF Spec

-----------------------------------------------------------------------------
(* When handlers take turns, and no voice call may price a quote that is    *)
(* committed.  Each handler still finds what it read when it writes.        *)

OneRequest == \A a, b \in Requests : a = b

(* What the handler q read still holds. *)
InTurn(q) ==
  /\ q.step = "priceWrite" => quote.status \in {"draft", "priced"}
  /\ q.step \in {"commitCall", "commitWrite"} => quote.status = "priced"
  /\ q.step = "acceptWrite" =>
       quote.status = "committed" /\ q.row.job = quote.job
  /\ q.step = "shareWrite" => quote.status = "committed"
  /\ q.step = "voidWrite" =>
       q.row.status = quote.status /\ quote.status # "void"
  /\ q.step = "completeWrite" =>
       jobs[q.job].status = "open" /\ q.quoted = jobs[q.job].quoted
  /\ q.step = "cancelWrite" => jobs[q.job].status = "open"
  /\ q.step \in {"finalizeWrite", "deleteWrite", "editInvoiceWrite"} =>
       invoices[q.job].status # "none"

TurnsKept == \A r \in Requests : InTurn(req[r])

(* The steps a handler goes on to. *)
LaterSteps == {"idle", "convertCall", "convertStamp", "voidSupplier",
               "refundCall", "refundStamp", "intentWrite", "depositStamp"}

LEMMA ProceedGoesOn ==
  ASSUME TypeInv, NEW r \in Requests, Proceed(r)
  PROVE  req'[r].step \in LaterSteps \/ CommitCall(r)
<1>1. req \in [Requests -> RequestStates]
  BY DEF TypeInv, TypeOK
<1>2. End(r) => req'[r].step \in LaterSteps
  BY <1>1 DEF End, Idle, LaterSteps
<1>3. \A step \in LaterSteps : Goto(r, step) => req'[r].step \in LaterSteps
  BY <1>1 DEF Goto, RequestStates
<1>4. AfterSupplierVoid(r) => req'[r].step \in LaterSteps
  BY <1>2, <1>3 DEF AfterSupplierVoid, LaterSteps
<1>5. IntentCreate(r) => req'[r].step \in LaterSteps
  BY <1>1 DEF IntentCreate, RequestStates, LaterSteps
<1>6. AcceptWrite(r) \/ ConvertCall(r) \/ VoidWrite(r) \/ VoidSupplier(r)
        \/ RefundCall(r) => req'[r].step \in LaterSteps
  BY <1>2, <1>3, <1>4 DEF AcceptWrite, ConvertCall, VoidWrite, VoidSupplier,
     RefundCall, LaterSteps
<1> QED
  BY <1>2, <1>5, <1>6
     DEF Proceed, PriceWrite, CommitWrite, ConvertStamp, ShareWrite,
         RefundStamp, IntentWrite, DepositStamp, CompleteWrite, CancelWrite,
         FinalizeWrite, DeleteWrite, EditInvoiceWrite

(* What a handler reads holds when it starts. *)
LEMMA ArriveInTurn ==
  ASSUME TypeInv, ~VoiceCall, NEW r \in Requests, Arrive(r)
  PROVE  InTurn(req'[r])
<1>1. /\ req \in [Requests -> RequestStates] /\ quote \in QuoteRows
      /\ jobs \in [Jobs -> JobRows]
  BY DEF TypeInv, TypeOK
<1>2. quote.status \in QuoteStatus
  BY <1>1 DEF QuoteRows
<1>3. PriceRead(r) => InTurn(req'[r])
  BY <1>1, <1>2
     DEF PriceRead, CanTransition, Matrix, QuoteStatus, Begin, InTurn, Idle
<1>4. ~VoicePriceRead(r)
  BY DEF VoicePriceRead
<1>5. CommitRead(r) => InTurn(req'[r])
  BY <1>1, <1>2
     DEF CommitRead, CanTransition, Matrix, QuoteStatus, InTurn, Idle
<1>6. AcceptRead(r) \/ PublicAcceptRead(r) => InTurn(req'[r])
  <2> SUFFICES ASSUME AcceptRead(r) PROVE InTurn(req'[r])
    BY DEF PublicAcceptRead
  <2>1. quote.status = "committed"
    BY <1>2 DEF AcceptRead, CanTransition, Matrix, QuoteStatus
  <2>2. req'[r].step = "acceptWrite" /\ req'[r].row.job = quote.job
    BY <1>1 DEF AcceptRead, Begin, Idle, DraftQuote
  <2> QED
    BY <2>1, <2>2 DEF InTurn
<1>7. ShareRead(r) \/ IntentRead(r) => InTurn(req'[r])
  <2>1. ShareRead(r) => req'[r].step = "shareWrite"
    BY <1>1 DEF ShareRead, Begin, Idle
  <2>2. IntentRead(r) => req'[r].step = "intentCreate"
    BY <1>1 DEF IntentRead, Begin, Idle
  <2> QED
    BY <2>1, <2>2 DEF InTurn, ShareRead
<1>8. VoidRead(r) => InTurn(req'[r])
  BY <1>1, <1>2
     DEF VoidRead, CanTransition, Matrix, QuoteStatus, Begin, InTurn, Idle,
         DraftQuote
<1>9. ASSUME NEW j \in Jobs,
             JobRead(r, j, "completeWrite") \/ JobRead(r, j, "cancelWrite")
      PROVE  InTurn(req'[r])
  BY <1>1, <1>9 DEF JobRead, InTurn, Idle
<1>10. ASSUME NEW j \in Jobs, InvoiceRead(r, j, "finalizeWrite")
                              \/ InvoiceRead(r, j, "deleteWrite")
                              \/ InvoiceRead(r, j, "editInvoiceWrite")
       PROVE  InTurn(req'[r])
  BY <1>1, <1>10 DEF InvoiceRead, InTurn, Idle
<1> QED
  BY <1>3, <1>4, <1>5, <1>6, <1>7, <1>8, <1>9, <1>10 DEF Arrive

(* With one handler at a time, nobody writes what it read before it does.   *)
LEMMA TurnsStayKept ==
  ASSUME OneRequest, ~VoiceCall, TypeInv, TurnsKept, Next
  PROVE  TurnsKept'
<1>1. /\ req \in [Requests -> RequestStates]
      /\ invoices \in [Jobs -> Invoices] /\ ArgumentsPresent
  BY DEF TypeInv, TypeOK
<1>2. ASSUME NEW r \in Requests, Arrive(r)
      PROVE  TurnsKept'
  <2>1. InTurn(req'[r])
    BY <1>2, ArriveInTurn
  <2>2. InTurn(req[r])'
    BY <1>2, <2>1, ArriveReads DEF InTurn
  <2> QED
    BY <2>2 DEF TurnsKept, OneRequest
<1>3. ASSUME NEW r \in Requests, Proceed(r)
      PROVE  TurnsKept'
  <2>1. InTurn(req[r])'
    <3>1. CASE CommitCall(r)
      <4>1. quote.status = "priced" /\ UNCHANGED quote
        BY <3>1 DEF CommitCall, At, TurnsKept, InTurn
      <4>2. req'[r].step = "commitWrite"
        BY <1>1, <3>1 DEF CommitCall, Goto, RequestStates
      <4> QED
        BY <4>1, <4>2 DEF InTurn
    <3>2. CASE req'[r].step \in LaterSteps
      BY <3>2 DEF InTurn, LaterSteps
    <3> QED
      BY <1>3, <3>1, <3>2, ProceedGoesOn
  <2> QED
    BY <2>1 DEF TurnsKept, OneRequest
<1>4. ASSUME NEW r \in Requests, Fail(r)
      PROVE  TurnsKept'
  <2>1. req'[r] = Idle
    BY <1>1, <1>4 DEF Fail, End
  <2>2. InTurn(req[r])'
    BY <2>1 DEF InTurn, Idle
  <2> QED
    BY <2>2 DEF TurnsKept, OneRequest
<1>5. ASSUME NEW r \in Requests, NEW p \in Intents, DepositEvent(r, p)
      PROVE  TurnsKept'
  <2>1. req'[r].step \in {"idle", "depositStamp"}
    BY <1>1, <1>5 DEF DepositEvent, Idle
  <2>2. InTurn(req[r])'
    BY <2>1 DEF InTurn
  <2> QED
    BY <2>2 DEF TurnsKept, OneRequest
<1>6. ASSUME NEW p \in Intents, CustomerPaysDeposit(p)
      PROVE  TurnsKept'
  BY <1>6 DEF CustomerPaysDeposit, TurnsKept, InTurn
<1>7. ASSUME NEW j \in Jobs, InvoicePaid(j)
      PROVE  TurnsKept'
  <2>1. \A i \in Jobs : invoices[i].status # "none" =>
                        invoices'[i].status # "none"
    BY <1>1, <1>7 DEF InvoicePaid, Invoices
  <2>2. UNCHANGED <<quote, jobs, req>>
    BY <1>7 DEF InvoicePaid
  <2>3. ASSUME NEW r \in Requests
        PROVE  InTurn(req[r])'
    <3>1. InTurn(req[r])
      BY DEF TurnsKept
    <3>2. req[r].step \in {"finalizeWrite", "deleteWrite",
                           "editInvoiceWrite"} =>
            req[r].job \in Jobs
      BY <1>1 DEF ArgumentsPresent
    <3> QED
      BY <2>1, <2>2, <3>1, <3>2 DEF InTurn
  <2> QED
    BY <2>3 DEF TurnsKept
<1> QED
  BY <1>2, <1>3, <1>4, <1>5, <1>6, <1>7 DEF Next, Environment

-----------------------------------------------------------------------------
(* What a quote owes, and to which job it led, follows its status.          *)

(* Credits are outstanding while the quote is committed or accepted only.   *)
CreditsFollowStatus ==
  ~EarnedCommission(quote.status) =>
    OutstandingCredits(ledger, "quote_committed", QuoteId) = {}

(* The quote's job is linked by its acceptance, and no other job is. *)
JobFollowsStatus ==
  \A j \in Jobs : jobs[j].quoted =>
    quote.status \in {"accepted", "void"} /\ j = quote.job

(* Steps that move the status, and from where. *)
LEMMA StatusMoves ==
  ASSUME TypeInv, TurnsKept, Next
  PROVE  \/ quote'.status = quote.status
         \/ /\ \E r \in Requests : PriceWrite(r)
            /\ quote.status \in {"draft", "priced"} /\ quote'.status = "priced"
         \/ /\ \E r \in Requests : CommitWrite(r)
            /\ quote.status = "priced" /\ quote'.status = "committed"
         \/ /\ \E r \in Requests : AcceptWrite(r)
            /\ quote.status = "committed" /\ quote'.status = "accepted"
         \/ /\ \E r \in Requests : VoidWrite(r)
            /\ quote.status # "void" /\ quote'.status = "void"
<1>1. quote \in QuoteRows
  BY DEF TypeInv, TypeOK
<1>2. ASSUME NEW r \in Requests, PriceWrite(r)
      PROVE  quote.status \in {"draft", "priced"} /\ quote'.status = "priced"
  BY <1>1, <1>2 DEF PriceWrite, At, TurnsKept, InTurn, QuoteRows
<1>3. ASSUME NEW r \in Requests, CommitWrite(r)
      PROVE  quote.status = "priced" /\ quote'.status = "committed"
  BY <1>1, <1>3 DEF CommitWrite, At, TurnsKept, InTurn, QuoteRows
<1>4. ASSUME NEW r \in Requests, AcceptWrite(r)
      PROVE  quote.status = "committed" /\ quote'.status = "accepted"
  BY <1>1, <1>4 DEF AcceptWrite, EnsureJob, LinkJob, At, TurnsKept, InTurn,
                    QuoteRows
<1>5. ASSUME NEW r \in Requests, VoidWrite(r)
      PROVE  quote.status # "void" /\ quote'.status = "void"
  BY <1>1, <1>5 DEF VoidWrite, At, TurnsKept, InTurn, QuoteRows
<1>6. ASSUME NEW r \in Requests,
             ShareWrite(r) \/ IntentWrite(r) \/ DepositStamp(r)
               \/ RefundStamp(r) \/ ConvertStamp(r)
      PROVE  quote'.status = quote.status
  BY <1>1, <1>6 DEF ShareWrite, IntentWrite, DepositStamp, RefundStamp,
                    ConvertStamp, QuoteRows
<1> QED
  BY <1>2, <1>3, <1>4, <1>5, <1>6, QuoteWriters

(* A void reverses whatever the quote had earned. *)
LEMMA CreditsStayWithStatus ==
  ASSUME TypeInv, LedgerSound, TurnsKept, CreditsFollowStatus, Next
  PROVE  CreditsFollowStatus'
<1>1. CASE UNCHANGED ledger
  <2>1. ASSUME NEW r \in Requests, VoidWrite(r),
               EarnedCommission(quote.status)
        PROVE  OutstandingCredits(ledger, "quote_committed", QuoteId) = {}
    <3>1. EarnedCommission(req[r].row.status)
      BY <2>1 DEF VoidWrite, At, TurnsKept, InTurn
    <3>2. ledger = WriteReversals(ledger, "quote_committed", QuoteId)
      BY <1>1, <2>1, <3>1 DEF VoidWrite, ReverseQuoteCommitted
    <3> QED
      BY <3>2, ReversalsSettleCredits DEF LedgerSound, CreditKinds
  <2>2. ~EarnedCommission(quote'.status) =>
          OutstandingCredits(ledger, "quote_committed", QuoteId) = {}
    BY <2>1, StatusMoves DEF CreditsFollowStatus, EarnedCommission
  <2> QED
    BY <1>1, <2>2 DEF CreditsFollowStatus, OutstandingCredits, OriginalRows
<1>2. ASSUME NEW r \in Requests, CommitWrite(r)
      PROVE  CreditsFollowStatus'
  <2>1. quote'.status = "committed"
    BY <1>2 DEF CommitWrite, TypeInv, TypeOK, QuoteRows
  <2> QED
    BY <2>1 DEF CreditsFollowStatus, EarnedCommission
<1>3. ASSUME NEW r \in Requests, VoidWrite(r), ledger' # ledger
      PROVE  CreditsFollowStatus'
  <2>1. ledger' = WriteReversals(ledger, "quote_committed", QuoteId)
    BY <1>3 DEF VoidWrite, ReverseQuoteCommitted
  <2>2. OutstandingCredits(ledger', "quote_committed", QuoteId) = {}
    BY <2>1, ReversalsSettleCredits DEF LedgerSound, CreditKinds
  <2> QED
    BY <2>2 DEF CreditsFollowStatus, OutstandingCredits, OriginalRows
<1> QED
  BY <1>1, <1>2, <1>3, LedgerWriters

(* Who changes a job. *)
LEMMA JobChanges ==
  ASSUME TypeInv, Next
  PROVE  \/ UNCHANGED jobs
         \/ /\ \A j \in Jobs : jobs'[j].quoted = jobs[j].quoted
            /\ \E r \in Requests : CompleteWrite(r) \/ CancelWrite(r)
         \/ \E r \in Requests : AcceptWrite(r)
<1>1. jobs \in [Jobs -> JobRows]
  BY DEF TypeInv, TypeOK
<1>2. ASSUME NEW r \in Requests, CompleteWrite(r) \/ CancelWrite(r)
      PROVE  \A j \in Jobs : jobs'[j].quoted = jobs[j].quoted
  BY <1>1, <1>2 DEF CompleteWrite, CancelWrite, JobRows
<1>3. ASSUME NEW r \in Requests,
             PriceWrite(r) \/ CommitWrite(r) \/ VoidWrite(r)
      PROVE  UNCHANGED jobs
  BY <1>3 DEF PriceWrite, CommitWrite, VoidWrite
<1> QED
  BY <1>2, <1>3, QuoteWriters

(* An acceptance links one job: the quote's, or the one it creates. *)
LEMMA AcceptLinks ==
  ASSUME TypeInv, TurnsKept, JobFollowsStatus, NEW r \in Requests,
         AcceptWrite(r)
  PROVE  \E j \in Jobs :
           /\ quote'.job = j /\ quote'.status = "accepted"
           /\ quote' = [quote EXCEPT !.status = "accepted", !.job = j]
           /\ jobs'[j].quoted /\ jobs'[j].status \in {jobs[j].status, "open"}
           /\ \A i \in Jobs : ~jobs[i].quoted
           /\ \A i \in Jobs : i # j => jobs'[i] = jobs[i]
<1>1. /\ quote \in QuoteRows /\ jobs \in [Jobs -> JobRows]
      /\ None \notin Jobs
  BY ConstantsAssumption DEF TypeInv, TypeOK, ConstantsAssumption
<1>2. /\ quote.status = "committed" /\ req[r].row.job = quote.job
      /\ EnsureJob(req[r].row)
  BY DEF AcceptWrite, At, TurnsKept, InTurn
<1>3. \A i \in Jobs : ~jobs[i].quoted
  BY <1>2 DEF JobFollowsStatus
<1>4. CASE req[r].row.job # None
  <2>1. PICK j \in Jobs : j = quote.job
    BY <1>1, <1>2, <1>4 DEF QuoteRows
  <2>2. /\ jobs' = [jobs EXCEPT ![j].quoted = TRUE]
        /\ quote' = [quote EXCEPT !.status = "accepted"]
    BY <1>2, <1>4, <2>1 DEF EnsureJob, LinkJob
  <2>3. quote' = [quote EXCEPT !.status = "accepted", !.job = j]
    BY <1>1, <2>1, <2>2 DEF QuoteRows
  <2>4. quote'.job = j /\ quote'.status = "accepted"
    BY <1>1, <2>3 DEF QuoteRows
  <2>5. /\ jobs'[j].quoted /\ jobs'[j].status = jobs[j].status
        /\ \A i \in Jobs : i # j => jobs'[i] = jobs[i]
    BY <1>1, <2>2 DEF JobRows
  <2> QED
    BY <1>3, <2>3, <2>4, <2>5
<1>5. CASE req[r].row.job = None
  <2>1. PICK j \in Jobs :
          /\ jobs' = [jobs EXCEPT ![j] = [status |-> "open", quoted |-> TRUE]]
          /\ quote' = [quote EXCEPT !.status = "accepted", !.job = j]
    BY <1>2, <1>5 DEF EnsureJob
  <2>2. quote'.job = j /\ quote'.status = "accepted"
    BY <1>1, <2>1 DEF QuoteRows
  <2>3. /\ jobs'[j].quoted /\ jobs'[j].status = "open"
        /\ \A i \in Jobs : i # j => jobs'[i] = jobs[i]
    BY <1>1, <2>1
  <2> QED
    BY <1>3, <2>1, <2>2, <2>3
<1> QED
  BY <1>4, <1>5

LEMMA JobStaysWithStatus ==
  ASSUME TypeInv, TurnsKept, JobFollowsStatus, Next
  PROVE  JobFollowsStatus'
<1>1. quote \in QuoteRows
  BY DEF TypeInv, TypeOK
<1>2. ASSUME NEW r \in Requests, AcceptWrite(r)
      PROVE  JobFollowsStatus'
  <2>1. PICK j \in Jobs :
          /\ quote'.job = j /\ quote'.status = "accepted"
          /\ \A i \in Jobs : ~jobs[i].quoted
          /\ \A i \in Jobs : i # j => jobs'[i] = jobs[i]
    BY <1>2, AcceptLinks
  <2> QED
    BY <2>1 DEF JobFollowsStatus
<1>3. CASE ~ \E r \in Requests : AcceptWrite(r)
  <2>1. \A j \in Jobs : jobs'[j].quoted = jobs[j].quoted
    BY <1>3, JobChanges
  <2>2. quote'.job = quote.job
    BY <1>1, <1>3, QuoteWriters
       DEF PriceWrite, CommitWrite, VoidWrite, ShareWrite, IntentWrite,
           DepositStamp, RefundStamp, ConvertStamp, QuoteRows
  <2>3. quote.status \in {"accepted", "void"} =>
          quote'.status \in {"accepted", "void"}
    BY StatusMoves
  <2> QED
    BY <2>1, <2>2, <2>3 DEF JobFollowsStatus
<1> QED
  BY <1>2, <1>3

-----------------------------------------------------------------------------
(* The completion of the quote's job consumes its parts and bills it.  A    *)
(* completion of another job of the quote would find it billed and consume  *)
(* its parts all the same: the quote must have one job.                     *)

LEMMA CompletionWrites ==
  ASSUME TypeInv, StockMovedOnce, TurnsKept, JobFollowsStatus,
         CompletionConsumes, NEW r \in Requests, CompleteWrite(r),
         NEW j, j = req[r].job
  PROVE  /\ j \in Jobs /\ jobs[j].status = "open"
         /\ jobs' = [jobs EXCEPT ![j].status = "completed"]
         /\ consumed[j] # 1 /\ invoices[j].status = "none"
         /\ jobs[j].quoted =>
              /\ consumed' = [consumed EXCEPT ![j] = 1]
              /\ invoices' = [invoices EXCEPT ![j] =
                   [status |-> "draft",
                    total  |-> quote.total
                                 - (IF quote.paid THEN quote.deposit ELSE 0),
                    credit |-> IF quote.paid THEN quote.deposit ELSE 0,
                    intent |-> FALSE, edited |-> FALSE]]
         /\ ~jobs[j].quoted => UNCHANGED <<invoices, consumed>>
<1>1. /\ jobs \in [Jobs -> JobRows] /\ consumed \in [Jobs -> Nat]
      /\ req \in [Requests -> RequestStates]
  BY DEF TypeInv, TypeOK
<1>2. j \in Jobs
  BY DEF CompleteWrite, At, TypeInv, ArgumentsPresent
<1>3. jobs[j].status = "open" /\ req[r].quoted = jobs[j].quoted
  BY DEF CompleteWrite, At, TurnsKept, InTurn
<1>4. consumed[j] # 1 /\ invoices[j].status = "none"
  BY <1>2, <1>3 DEF CompletionConsumes
<1>5. consumed[j] = 0
  BY <1>1, <1>2, <1>4 DEF StockMovedOnce
<1>6. jobs[j].quoted => \A i \in Jobs : ~Live(invoices[i])
  BY <1>2, <1>4 DEF JobFollowsStatus, CompletionConsumes, Live
<1>7. jobs' = [jobs EXCEPT ![j].status = "completed"]
  BY DEF CompleteWrite
<1>8. CASE jobs[j].quoted
  <2>1. /\ invoices' = GenerateBalanceInvoice(j)
        /\ consumed' = ConsumeInventory(j)
    BY <1>3, <1>8 DEF CompleteWrite
  <2>2. consumed' = [consumed EXCEPT ![j] = 1]
    BY <1>1, <1>5, <2>1 DEF ConsumeInventory
  <2>3. invoices' = [invoices EXCEPT ![j] =
                   [status |-> "draft",
                    total  |-> quote.total
                                 - (IF quote.paid THEN quote.deposit ELSE 0),
                    credit |-> IF quote.paid THEN quote.deposit ELSE 0,
                    intent |-> FALSE, edited |-> FALSE]]
    BY <1>6, <1>8, <2>1 DEF GenerateBalanceInvoice
  <2> QED
    BY <1>2, <1>3, <1>4, <1>7, <1>8, <2>2, <2>3
<1>9. CASE ~jobs[j].quoted
  <2>1. UNCHANGED <<invoices, consumed>>
    BY <1>3, <1>9 DEF CompleteWrite
  <2> QED
    BY <1>2, <1>3, <1>4, <1>7, <1>9, <2>1
<1> QED
  BY <1>8, <1>9

(* Any other step on an invoice is on one that was drafted, and leaves its  *)
(* amounts or marks it edited.                                              *)
LEMMA InvoiceKept ==
  ASSUME TypeInv, TurnsKept, Next, ~ \E r \in Requests : CompleteWrite(r),
         NEW j \in Jobs
  PROVE  /\ invoices'[j].status # "none" <=> invoices[j].status # "none"
         /\ Live(invoices'[j]) => Live(invoices[j])
         /\ ~invoices'[j].edited =>
              /\ ~invoices[j].edited
              /\ invoices'[j].total = invoices[j].total
              /\ invoices'[j].credit = invoices[j].credit
<1>1. /\ invoices \in [Jobs -> Invoices] /\ invoices[j] \in Invoices
      /\ req \in [Requests -> RequestStates]
  BY DEF TypeInv, TypeOK
<1> DEFINE Kept == /\ invoices'[j].status # "none" <=>
                        invoices[j].status # "none"
                   /\ Live(invoices'[j]) => Live(invoices[j])
                   /\ ~invoices'[j].edited =>
                        /\ ~invoices[j].edited
                        /\ invoices'[j].total = invoices[j].total
                        /\ invoices'[j].credit = invoices[j].credit
<1>2. ASSUME NEW r \in Requests, VoidWrite(r)
      PROVE  Kept
  BY <1>1, <1>2 DEF VoidWrite, VoidUnpaidInvoices, Invoices, Live
<1>3. ASSUME NEW r \in Requests, FinalizeWrite(r)
      PROVE  Kept
  <2>1. PICK i \in Jobs : i = req[r].job /\ invoices[i].status # "none"
    BY <1>3 DEF FinalizeWrite, At, TypeInv, ArgumentsPresent, TurnsKept, InTurn
  <2> QED
    BY <1>1, <1>3, <2>1 DEF FinalizeWrite, Invoices, Live
<1>4. ASSUME NEW r \in Requests, DeleteWrite(r)
      PROVE  Kept
  <2>1. PICK i \in Jobs : i = req[r].job /\ invoices[i].status # "none"
    BY <1>4 DEF DeleteWrite, At, TypeInv, ArgumentsPresent, TurnsKept, InTurn
  <2> QED
    BY <1>1, <1>4, <2>1 DEF DeleteWrite, Invoices, Live
<1>5. ASSUME NEW i \in Jobs, InvoicePaid(i)
      PROVE  Kept
  BY <1>1, <1>5 DEF InvoicePaid, Invoices, Live
<1>6. CASE UNCHANGED invoices
  BY <1>6 DEF Live
<1>6a. ASSUME NEW r \in Requests, EditInvoiceWrite(r)
       PROVE  Kept
  <2>1. PICK i \in Jobs : i = req[r].job /\ invoices[i].status # "none"
    BY <1>6a DEF EditInvoiceWrite, At, TypeInv, ArgumentsPresent, TurnsKept,
                 InTurn
  <2> QED
    BY <1>1, <1>6a, <2>1 DEF EditInvoiceWrite, Invoices, Live
<1>7. Kept
  BY <1>2, <1>3, <1>4, <1>5, <1>6, <1>6a, InvoiceWriters
<1> QED
  BY <1>7 DEF Kept

LEMMA CompletionStays ==
  ASSUME TypeInv, StockMovedOnce, TurnsKept, JobFollowsStatus,
         CompletionConsumes, Next
  PROVE  CompletionConsumes'
<1>1. /\ jobs \in [Jobs -> JobRows] /\ consumed \in [Jobs -> Nat]
      /\ invoices \in [Jobs -> Invoices]
      /\ req \in [Requests -> RequestStates]
  BY DEF TypeInv, TypeOK
<1>2. ASSUME NEW r \in Requests, CompleteWrite(r)
      PROVE  CompletionConsumes'
  <2>1. PICK j : j = req[r].job
    OBVIOUS
  <2>2. /\ j \in Jobs
        /\ jobs' = [jobs EXCEPT ![j].status = "completed"]
        /\ consumed[j] # 1 /\ invoices[j].status = "none"
        /\ jobs[j].quoted =>
             /\ consumed' = [consumed EXCEPT ![j] = 1]
             /\ invoices' = [invoices EXCEPT ![j] =
                   [status |-> "draft",
                    total  |-> quote.total
                                 - (IF quote.paid THEN quote.deposit ELSE 0),
                    credit |-> IF quote.paid THEN quote.deposit ELSE 0,
                    intent |-> FALSE, edited |-> FALSE]]
        /\ ~jobs[j].quoted => UNCHANGED <<invoices, consumed>>
    BY <1>2, <2>1, CompletionWrites
  <2>3. ASSUME NEW i \in Jobs, i # j
        PROVE  /\ jobs'[i] = jobs[i] /\ consumed'[i] = consumed[i]
               /\ invoices'[i].status = invoices[i].status
    BY <1>1, <2>2, <2>3
  <2>4. /\ consumed'[j] = 1 => jobs'[j] = [status |-> "completed",
                                           quoted |-> TRUE]
        /\ consumed'[j] = 1 <=> invoices'[j].status # "none"
    <3>1. CASE jobs[j].quoted
      <4>1. jobs'[j] = [status |-> "completed", quoted |-> TRUE]
        BY <1>1, <2>2, <3>1 DEF JobRows
      <4>2. consumed'[j] = 1 /\ invoices'[j].status = "draft"
        BY <1>1, <2>2, <3>1
      <4> QED
        BY <4>1, <4>2
    <3>2. CASE ~jobs[j].quoted
      BY <1>1, <2>2, <3>2
    <3> QED
      BY <3>1, <3>2
  <2> QED
    BY <2>3, <2>4 DEF CompletionConsumes
<1>3. CASE ~ \E r \in Requests : CompleteWrite(r)
  <2>1. UNCHANGED consumed
    BY <1>3, StockWriters
  <2>2. \A j \in Jobs : invoices'[j].status # "none" <=>
                        invoices[j].status # "none"
    BY <1>3, InvoiceKept
  <2>3. ASSUME NEW j \in Jobs, consumed[j] = 1
        PROVE  jobs'[j] = jobs[j]
    <3>1. jobs[j].quoted /\ jobs[j].status = "completed"
      BY <2>3 DEF CompletionConsumes
    <3>2. ~ \E r \in Requests : AcceptWrite(r)
      <4>1. ASSUME NEW r \in Requests, AcceptWrite(r)
            PROVE  FALSE
        BY <3>1, <4>1, AcceptLinks
      <4> QED
        BY <4>1
    <3>3. ASSUME NEW r \in Requests, CancelWrite(r)
          PROVE  jobs'[j] = jobs[j]
      <4>1. req[r].job \in Jobs /\ jobs[req[r].job].status = "open"
        BY <3>3 DEF CancelWrite, At, TypeInv, ArgumentsPresent, TurnsKept,
                    InTurn
      <4> QED
        BY <1>1, <3>1, <3>3, <4>1 DEF CancelWrite
    <3> QED
      BY <1>3, <3>2, <3>3, JobChanges
  <2> QED
    BY <2>1, <2>2, <2>3 DEF CompletionConsumes
<1> QED
  BY <1>2, <1>3

(* A quote that is billed is not priced or shared any more. *)
LEMMA BilledQuoteKept ==
  ASSUME TypeInv, TurnsKept, JobFollowsStatus, CompletionConsumes, Next,
         NEW j \in Jobs, invoices[j].status # "none"
  PROVE  /\ quote'.total = quote.total /\ quote'.deposit = quote.deposit
         /\ quote.paid => quote'.paid
<1>1. quote \in QuoteRows
  BY DEF TypeInv, TypeOK
<1>2. quote.status \in {"accepted", "void"}
  BY DEF CompletionConsumes, JobFollowsStatus
<1>3. ASSUME NEW r \in Requests,
             PriceWrite(r) \/ ShareWrite(r)
      PROVE  FALSE
  BY <1>2, <1>3 DEF PriceWrite, ShareWrite, At, TurnsKept, InTurn
<1>4. ASSUME NEW r \in Requests, AcceptWrite(r)
      PROVE  /\ quote'.total = quote.total /\ quote'.deposit = quote.deposit
             /\ quote.paid => quote'.paid
  BY <1>1, <1>4 DEF AcceptWrite, EnsureJob, LinkJob, QuoteRows
<1>5. ASSUME NEW r \in Requests,
             \/ CommitWrite(r) \/ VoidWrite(r) \/ IntentWrite(r)
             \/ DepositStamp(r) \/ RefundStamp(r) \/ ConvertStamp(r)
      PROVE  /\ quote'.total = quote.total /\ quote'.deposit = quote.deposit
             /\ quote.paid => quote'.paid
  BY <1>1, <1>5 DEF CommitWrite, VoidWrite, IntentWrite, DepositStamp,
                    RefundStamp, ConvertStamp, QuoteRows
<1> QED
  BY <1>3, <1>4, <1>5, QuoteWriters

LEMMA BalanceStays ==
  ASSUME TypeInv, StockMovedOnce, TurnsKept, JobFollowsStatus,
         CompletionConsumes, BalanceAddsUp, Next
  PROVE  BalanceAddsUp'
<1>1. /\ invoices \in [Jobs -> Invoices] /\ quote \in QuoteRows
      /\ \A t \in Totals : t \in Int
  BY ConstantsAssumption DEF TypeInv, TypeOK, ConstantsAssumption
<1>2. quote.total \in Int /\ quote.deposit \in Nat /\ quote.paid \in BOOLEAN
  BY <1>1 DEF QuoteRows
<1> DEFINE Adds(i) ==
             /\ invoices[i].total + invoices[i].credit = quote.total
             /\ invoices[i].credit \in {0, quote.deposit}
             /\ invoices[i].credit # 0 => quote.paid
<1>3. SUFFICES ASSUME NEW i \in Jobs, Live(invoices'[i]), ~invoices'[i].edited
               PROVE  Adds(i)'
  BY DEF BalanceAddsUp, Live
<1>4. ASSUME NEW r \in Requests, CompleteWrite(r), i = req[r].job,
             jobs[i].quoted
      PROVE  Adds(i)'
  <2> DEFINE credit == IF quote.paid THEN quote.deposit ELSE 0
  <2>1. invoices' = [invoices EXCEPT ![i] =
                       [status |-> "draft", total |-> quote.total - credit,
                        credit |-> credit, intent |-> FALSE,
                        edited |-> FALSE]]
    BY <1>4, CompletionWrites
  <2>2. UNCHANGED quote
    BY <1>4 DEF CompleteWrite
  <2>3. credit \in Int /\ credit \in {0, quote.deposit}
        /\ (credit # 0 => quote.paid)
    BY <1>2
  <2> HIDE DEF credit
  <2>4. invoices'[i].total = quote.total - credit /\ invoices'[i].credit = credit
    BY <1>1, <2>1
  <2> QED
    BY <1>2, <2>2, <2>3, <2>4
<1>5. ASSUME Live(invoices[i]), ~invoices[i].edited,
             invoices'[i].total = invoices[i].total,
             invoices'[i].credit = invoices[i].credit
      PROVE  Adds(i)'
  <2>1. Adds(i)
    BY <1>5 DEF BalanceAddsUp
  <2>2. /\ quote'.total = quote.total /\ quote'.deposit = quote.deposit
        /\ quote.paid => quote'.paid
    BY <1>5, BilledQuoteKept DEF Live
  <2> QED
    BY <1>5, <2>1, <2>2
<1>6. ASSUME NEW r \in Requests, CompleteWrite(r),
             ~(i = req[r].job /\ jobs[i].quoted)
      PROVE  Adds(i)'
  <2>1. PICK j : j = req[r].job
    OBVIOUS
  <2>2. j # i \/ ~jobs[j].quoted
    BY <1>6, <2>1
  <2>3. invoices'[i] = invoices[i]
    <3>1. CASE jobs[j].quoted
      <4>1. invoices' = [invoices EXCEPT ![j] = invoices'[j]]
        BY <1>1, <1>6, <2>1, <3>1, CompletionWrites
      <4> QED
        BY <1>1, <2>2, <3>1, <4>1
    <3>2. CASE ~jobs[j].quoted
      BY <1>6, <2>1, <3>2, CompletionWrites
    <3> QED
      BY <3>1, <3>2
  <2>4. Live(invoices[i])
    BY <1>3, <2>3 DEF Live
  <2> QED
    BY <1>3, <1>5, <2>3, <2>4
<1>7. CASE ~ \E r \in Requests : CompleteWrite(r)
  BY <1>3, <1>5, <1>7, InvoiceKept
<1> QED
  BY <1>4, <1>6, <1>7

-----------------------------------------------------------------------------
(* The inductive invariant of requests that take turns.  What is billed     *)
(* follows from which job the quote led to, that from the status, and the   *)
(* status and the ledger from each handler's finding what it read.          *)

TurnsInv ==
  /\ TurnsKept
  /\ CreditsFollowStatus
  /\ JobFollowsStatus
  /\ CompletionConsumes
  /\ BalanceAddsUp

LEMMA InitTurnsInv == Init => TurnsInv
<1> SUFFICES ASSUME Init PROVE TurnsInv
  OBVIOUS
<1>1. TurnsKept
  BY DEF Init, TurnsKept, InTurn, Idle
<1>2. CreditsFollowStatus
  BY DEF Init, CreditsFollowStatus, OutstandingCredits, OriginalRows
<1>3. \A j \in Jobs : ~jobs[j].quoted
  BY DEF Init, NoJob
<1>4. JobFollowsStatus
  BY <1>3 DEF JobFollowsStatus
<1>5. CompletionConsumes /\ BalanceAddsUp
  BY DEF Init, CompletionConsumes, BalanceAddsUp, Live, NoInvoice
<1> QED
  BY <1>1, <1>2, <1>4, <1>5 DEF TurnsInv

LEMMA UnchangedTurnsInv ==
  ASSUME TurnsInv, UNCHANGED vars
  PROVE  TurnsInv'
<1> USE DEF vars, TurnsInv
<1>1. TurnsKept'
  BY DEF TurnsKept, InTurn
<1>2. CreditsFollowStatus'
  BY DEF CreditsFollowStatus, OutstandingCredits, OriginalRows
<1>3. JobFollowsStatus'
  BY DEF JobFollowsStatus
<1>4. CompletionConsumes' /\ BalanceAddsUp'
  BY DEF CompletionConsumes, BalanceAddsUp, Live
<1> QED
  BY <1>1, <1>2, <1>3, <1>4

LEMMA TurnsInvAlways ==
  ASSUME OneRequest, ~VoiceCall
  PROVE  Spec => []TurnsInv
<1>1. TypeInv /\ LedgerSound /\ StockMovedOnce /\ TurnsInv /\ [Next]_vars
        => TurnsInv'
  <2> SUFFICES ASSUME TypeInv, LedgerSound, StockMovedOnce, TurnsInv, Next
               PROVE  TurnsInv'
    BY UnchangedTurnsInv
  <2> USE DEF TurnsInv
  <2>1. TurnsKept'
    BY TurnsStayKept
  <2>2. CreditsFollowStatus'
    BY CreditsStayWithStatus
  <2>3. JobFollowsStatus'
    BY JobStaysWithStatus
  <2>4. CompletionConsumes'
    BY CompletionStays
  <2>5. BalanceAddsUp'
    BY BalanceStays
  <2> QED
    BY <2>1, <2>2, <2>3, <2>4, <2>5
<1> QED
  BY <1>1, InitTurnsInv, TypeInvariant, LedgerAlwaysSound,
     StockAlwaysMovedOnce, PTL DEF Spec

(* Requests that take turns leave no commission owed on a void quote: the   *)
(* void sees the status the quote has, and reverses all it had earned.      *)
THEOREM VoidAlwaysUnwinds ==
  ASSUME OneRequest, ~VoiceCall
  PROVE  Spec => []VoidUnwindsCommission
<1>1. TurnsInv => VoidUnwindsCommission
  BY DEF TurnsInv, CreditsFollowStatus, VoidUnwindsCommission,
         EarnedCommission
<1> QED
  BY <1>1, TurnsInvAlways, PTL

(* Requests that take turns never give a quote a second job. *)
THEOREM AlwaysOneJobPerQuote ==
  ASSUME OneRequest, ~VoiceCall
  PROVE  Spec => []OneJobPerQuote
<1>1. TurnsInv => OneJobPerQuote
  BY DEF TurnsInv, JobFollowsStatus, OneJobPerQuote
<1> QED
  BY <1>1, TurnsInvAlways, PTL

(* Requests that take turns consume the quote's parts exactly when they     *)
(* bill it, and on completed jobs of the quote only.                        *)
THEOREM CompletionAlwaysConsumes ==
  ASSUME OneRequest, ~VoiceCall
  PROVE  Spec => []CompletionConsumes
<1>1. TurnsInv => CompletionConsumes
  BY DEF TurnsInv
<1> QED
  BY <1>1, TurnsInvAlways, PTL

(* Requests that take turns never reprice or re-share a quote they billed:  *)
(* its balance and its credit stay those of the quote.                      *)
THEOREM BalanceAlwaysAddsUp ==
  ASSUME OneRequest, ~VoiceCall
  PROVE  Spec => []BalanceAddsUp
<1>1. TurnsInv => BalanceAddsUp
  BY DEF TurnsInv
<1> QED
  BY <1>1, TurnsInvAlways, PTL

-----------------------------------------------------------------------------
(* Requests that take turns implement the atomic contract.                  *)

owed == OutstandingCredits(ledger, "quote_committed", QuoteId) # {}
linked == {j \in Jobs : jobs[j].quoted}

LEMMA InitContract == Init => Contract!Init
<1> SUFFICES ASSUME Init PROVE Contract!Init
  OBVIOUS
<1>1. quote.status = "draft"
  BY DEF Init, DraftQuote
<1>2. OutstandingCredits(ledger, "quote_committed", QuoteId) = {}
  BY DEF Init, OutstandingCredits, OriginalRows
<1>3. {j \in Jobs : jobs[j].quoted} = {}
  BY DEF Init, NoJob
<1> QED
  BY <1>1, <1>2, <1>3, FS_EmptySet DEF Contract!Init

(* Only an acceptance changes which jobs are linked, from none to one. *)
LEMMA LinkedJobs ==
  ASSUME TypeInv, TurnsInv, Next
  PROVE  /\ ~ (\E r \in Requests : AcceptWrite(r)) =>
               Cardinality(linked)' = Cardinality(linked)
         /\ (\E r \in Requests : AcceptWrite(r)) =>
               Cardinality(linked)' = Cardinality(linked) + 1
<1>1. CASE ~ \E r \in Requests : AcceptWrite(r)
  <2>1. \A j \in Jobs : jobs'[j].quoted = jobs[j].quoted
    BY <1>1, JobChanges
  <2>2. linked' = linked
    BY <2>1 DEF linked
  <2> QED
    BY <1>1, <2>2
<1>2. ASSUME NEW r \in Requests, AcceptWrite(r)
      PROVE  Cardinality(linked)' = Cardinality(linked) + 1
  <2>1. PICK j \in Jobs : /\ jobs'[j].quoted
                          /\ \A i \in Jobs : ~jobs[i].quoted
                          /\ \A i \in Jobs : i # j => jobs'[i] = jobs[i]
    BY <1>2, AcceptLinks DEF TurnsInv
  <2>2. linked = {} /\ linked' = {j}
    BY <2>1 DEF linked
  <2>3. Cardinality({}) = 0 /\ Cardinality({j}) = 1
    BY FS_EmptySet, FS_Singleton
  <2> QED
    BY <2>2, <2>3
<1> QED
  BY <1>1, <1>2

(* A step that does not commit or void leaves what is owed. *)
LEMMA OwedKept ==
  ASSUME TypeInv, TurnsInv, TurnsInv', Next,
         ~ \E r \in Requests : CommitWrite(r), quote'.status # "void"
  PROVE  owed' = owed
<1>1. ASSUME NEW r \in Requests, VoidWrite(r)
      PROVE  FALSE
  BY <1>1 DEF VoidWrite, TypeInv, TypeOK, QuoteRows
<1>2. UNCHANGED ledger
  BY <1>1, LedgerWriters
<1> QED
  BY <1>2 DEF owed, OutstandingCredits, OriginalRows


(* Every step is the contract's step that moves the status alike. *)
LEMMA StepContract ==
  ASSUME TypeInv, TurnsInv, TurnsInv', Next
  PROVE  [Contract!Next]_<<quote.status, owed, Cardinality(linked)>>
<1>1. TurnsKept /\ CreditsFollowStatus /\ CreditsFollowStatus'
  BY DEF TurnsInv
<1>2. owed \in BOOLEAN /\ owed' \in BOOLEAN
  BY DEF owed
<1>3. ~EarnedCommission(quote.status) => ~owed
  BY <1>1 DEF CreditsFollowStatus, owed
<1>4. quote'.status = "void" => owed' = FALSE
  BY <1>1 DEF CreditsFollowStatus, EarnedCommission, owed, OutstandingCredits,
              OriginalRows
<1>5. quote \in QuoteRows
  BY DEF TypeInv, TypeOK
<1>6. ASSUME NEW r \in Requests, AcceptWrite(r)
      PROVE  quote.status = "committed" /\ quote'.status = "accepted"
  BY <1>1, <1>5, <1>6
     DEF AcceptWrite, EnsureJob, LinkJob, At, TurnsKept, InTurn, QuoteRows
<1>7. ASSUME NEW r \in Requests, CommitWrite(r)
      PROVE  quote.status = "priced" /\ quote'.status = "committed"
  BY <1>1, <1>5, <1>7 DEF CommitWrite, At, TurnsKept, InTurn, QuoteRows
<1>8. CASE quote'.status = quote.status
  <2>1. ~ \E r \in Requests : AcceptWrite(r) \/ CommitWrite(r)
    BY <1>6, <1>7, <1>8
  <2>2. Cardinality(linked)' = Cardinality(linked)
    BY <2>1, LinkedJobs
  <2>3. owed' = owed
    <3>1. CASE quote'.status = "void"
      BY <1>2, <1>3, <1>4, <1>8, <3>1 DEF EarnedCommission
    <3>2. CASE quote'.status # "void"
      BY <2>1, <3>2, OwedKept
    <3> QED
      BY <3>1, <3>2
  <2> QED
    BY <1>8, <2>2, <2>3
<1>9. CASE /\ quote.status \in {"draft", "priced"}
           /\ quote'.status = "priced"
  <2>1. ~ \E r \in Requests : AcceptWrite(r) \/ CommitWrite(r)
    BY <1>6, <1>7, <1>9
  <2>2. Cardinality(linked)' = Cardinality(linked) /\ owed' = owed
    BY <1>9, <2>1, LinkedJobs, OwedKept
  <2> QED
    BY <1>9, <2>2 DEF Contract!Next, Contract!Price, owed, linked
<1>10. CASE quote.status = "priced" /\ quote'.status = "committed"
  <2>1. ~ \E r \in Requests : AcceptWrite(r)
    BY <1>6, <1>10
  <2>2. Cardinality(linked)' = Cardinality(linked)
    BY <2>1, LinkedJobs
  <2> QED
    BY <1>2, <1>10, <2>2 DEF Contract!Next, Contract!Commit, owed, linked
<1>11. ASSUME NEW r \in Requests, AcceptWrite(r)
       PROVE  Contract!Next
  <2>1. quote.status = "committed" /\ quote'.status = "accepted"
    BY <1>6, <1>11
  <2>2. Cardinality(linked)' = Cardinality(linked) + 1
    BY <1>11, LinkedJobs
  <2>3. owed' = owed
    BY <1>7, <2>1, OwedKept
  <2> QED
    BY <2>1, <2>2, <2>3 DEF Contract!Next, Contract!Accept, owed, linked
<1>12. CASE quote.status # "void" /\ quote'.status = "void"
  <2>1. ~ \E r \in Requests : AcceptWrite(r)
    BY <1>6, <1>12
  <2>2. Cardinality(linked)' = Cardinality(linked)
    BY <2>1, LinkedJobs
  <2> QED
    BY <1>4, <1>12, <2>2 DEF Contract!Next, Contract!Void, owed, linked
<1> QED
  BY <1>1, <1>8, <1>9, <1>10, <1>11, <1>12, StatusMoves

(* Requests that take turns implement the contract, failures included: the  *)
(* status moves along its matrix, an acceptance adds exactly one job, and   *)
(* commission is owed from a commit until the void at most.                 *)
THEOREM ContractImplemented ==
  ASSUME OneRequest, ~VoiceCall
  PROVE  Spec => ImplementsContract
<1>1. TypeInv /\ TurnsInv /\ TurnsInv' /\ [Next]_vars
        => [Contract!Next]_<<quote.status, owed, Cardinality(linked)>>
  <2>1. ASSUME UNCHANGED vars
        PROVE  UNCHANGED <<quote.status, owed, Cardinality(linked)>>
    BY <2>1 DEF vars, owed, linked, OutstandingCredits, OriginalRows
  <2> QED
    BY <2>1, StepContract
<1>2. TypeInv /\ TurnsInv /\ TurnsInv' /\ [Next]_vars
        => [Contract!Next]_<<quote.status,
              OutstandingCredits(ledger, "quote_committed", QuoteId) # {},
              Cardinality({j \in Jobs : jobs[j].quoted})>>
  BY <1>1 DEF owed, linked
<1> QED
  BY <1>2, InitContract, TurnsInvAlways, TypeInvariant, PTL
     DEF Spec, ImplementsContract, Contract!Spec
=============================================================================
