------------------------- MODULE CommissionLedger -------------------------
(***************************************************************************)
(* The commission_ledger table and the three ways the commission engine     *)
(* (src/apps/api/src/commission-engine.ts) writes it.  A ledger is a set of *)
(* rows; the table is append-only, and every insert goes through ON         *)
(* CONFLICT DO NOTHING on the unique index (user_id, source_kind,           *)
(* source_id).                                                              *)
(*                                                                         *)
(* A reversal row has source_kind manual_adjustment and the source_id       *)
(* "reverse:<kind>:<source id>".  The prefix is carried here by the kind    *)
(* ("reverse_<kind>"), so a source id is always a pair <<id, rule>>; rule 0 *)
(* is the bare id that a plan with one firing rule uses.                    *)
(***************************************************************************)
EXTENDS Integers, Sequences

CreditKinds   == {"invoice_paid", "quote_committed"}
ReversalKinds == {"reverse_invoice_paid", "reverse_quote_committed"}

ReversalOf(kind) ==
  IF kind = "invoice_paid" THEN "reverse_invoice_paid"
                           ELSE "reverse_quote_committed"

(* Mutant: the index leaves out user_id. *)
Mutant_SameSource(a, b) == a.kind = b.kind /\ a.source = b.source

(* The key of the unique index commission_ledger_source_unique. *)
SameKey(a, b) ==
  a.user = b.user /\ a.kind = b.kind /\ a.source = b.source

(* Mutant: a plain insert. *)
Mutant_InsertAlways(ledger, rows) == ledger \cup rows

(* insertLedgerRow for each of rows: a row whose key exists is dropped. *)
InsertLedgerRows(ledger, rows) ==
  ledger \cup {row \in rows : \A old \in ledger : ~SameKey(old, row)}

(* One row per rule that fires.  amounts are the non-zero commissions the  *)
(* user's active plan yields for the event; <<>> when there is no plan.     *)
CreditRows(user, kind, id, amounts) ==
  {[user   |-> user,
    kind   |-> kind,
    source |-> <<id, IF Len(amounts) = 1 THEN 0 ELSE i>>,
    amount |-> amounts[i]] : i \in 1..Len(amounts)}

(* The rows writeReversals selects: the id itself or id:rule-%. *)
OriginalRows(ledger, kind, id) ==
  {row \in ledger : row.kind = kind /\ row.source[1] = id}

ReversalRow(row) ==
  [user   |-> row.user,
   kind   |-> ReversalOf(row.kind),
   source |-> row.source,
   amount |-> -row.amount]

WriteReversals(ledger, kind, id) ==
  InsertLedgerRows(ledger,
                   {ReversalRow(row) : row \in OriginalRows(ledger, kind, id)})

(* Credits that no reversal row balances: what the user is still owed. *)
OutstandingCredits(ledger, kind, id) ==
  {row \in OriginalRows(ledger, kind, id) : ReversalRow(row) \notin ledger}

-----------------------------------------------------------------------------

(* No two rows share the key of the unique index. *)
UniqueKeys(ledger) ==
  \A a, b \in ledger : SameKey(a, b) => a = b

(* Every reversal row negates a credit row of the same user and source. *)
ReversalsMatchCredits(ledger) ==
  \A rev \in ledger :
    rev.kind \in ReversalKinds =>
      \E row \in ledger : row.kind \in CreditKinds /\ rev = ReversalRow(row)
=============================================================================
