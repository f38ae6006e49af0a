---------------------- MODULE CommissionLedger_proofs ----------------------
(***************************************************************************)
(* What the writes of the commission engine preserve, for any ledger, user  *)
(* and plan.                                                                *)
(***************************************************************************)
EXTENDS CommissionLedger, TLAPS

(* The guarded insert of rows with distinct keys keeps keys distinct. *)
LEMMA InsertKeepsKeysUnique ==
  ASSUME NEW ledger, NEW rows, UniqueKeys(ledger), UniqueKeys(rows)
  PROVE  UniqueKeys(InsertLedgerRows(ledger, rows))
  BY DEF UniqueKeys, InsertLedgerRows, SameKey

(* The insert never removes a row. *)
LEMMA InsertKeepsRows ==
  ASSUME NEW ledger, NEW rows
  PROVE  ledger \subseteq InsertLedgerRows(ledger, rows)
  BY DEF InsertLedgerRows

(* The insert adds nothing but the rows it is given. *)
LEMMA InsertAddsOnlyRows ==
  ASSUME NEW ledger, NEW rows
  PROVE  InsertLedgerRows(ledger, rows) \subseteq ledger \cup rows
  BY DEF InsertLedgerRows

(* After an insert every given row's key is present: the row itself or the *)
(* older row that it gave way to.                                           *)
LEMMA InsertCoversKeys ==
  ASSUME NEW ledger, NEW rows, NEW row \in rows
  PROVE  \E other \in InsertLedgerRows(ledger, rows) : SameKey(other, row)
  BY DEF InsertLedgerRows, SameKey

(* The rows one event credits have distinct keys: a rule index each, or the *)
(* bare id when a single rule fires.                                        *)
LEMMA CreditRowsKeysUnique ==
  ASSUME NEW user, NEW kind, NEW id, NEW amounts \in Seq(Int)
  PROVE  UniqueKeys(CreditRows(user, kind, id, amounts))
<1> DEFINE Row(i) == [user   |-> user,
                      kind   |-> kind,
                      source |-> <<id, IF Len(amounts) = 1 THEN 0 ELSE i>>,
                      amount |-> amounts[i]]
<1>1. SUFFICES ASSUME NEW i \in 1..Len(amounts), NEW j \in 1..Len(amounts),
                      SameKey(Row(i), Row(j))
               PROVE  Row(i) = Row(j)
  BY DEF UniqueKeys, CreditRows
<1>2. Len(amounts) \in Nat
  OBVIOUS
<1>3. i = j
  <2>1. CASE Len(amounts) = 1
    BY <1>2, <2>1
  <2>2. CASE Len(amounts) # 1
    BY <1>1, <1>2, <2>2 DEF SameKey
  <2> QED
    BY <2>1, <2>2
<1> QED
  BY <1>3

(* Reversing the rows of a source keeps keys distinct. *)
LEMMA WriteReversalsKeysUnique ==
  ASSUME NEW ledger, NEW kind, NEW id, UniqueKeys(ledger)
  PROVE  UniqueKeys(WriteReversals(ledger, kind, id))
<1> DEFINE reversals ==
      {ReversalRow(row) : row \in OriginalRows(ledger, kind, id)}
<1>1. UniqueKeys(reversals)
  BY DEF UniqueKeys, OriginalRows, ReversalRow, SameKey
<1> QED
  BY <1>1, InsertKeepsKeysUnique DEF WriteReversals

(* A credit needs no match of its own, so crediting keeps every reversal   *)
(* matched.                                                                 *)
LEMMA CreditsKeepReversalsMatched ==
  ASSUME NEW ledger, ReversalsMatchCredits(ledger),
         NEW rows, \A row \in rows : row.kind \in CreditKinds
  PROVE  ReversalsMatchCredits(InsertLedgerRows(ledger, rows))
  BY DEF ReversalsMatchCredits, InsertLedgerRows, CreditKinds, ReversalKinds

(* A reversal is computed from a credit that stays in the ledger. *)
LEMMA ReversalsKeepReversalsMatched ==
  ASSUME NEW ledger, ReversalsMatchCredits(ledger),
         NEW kind \in CreditKinds, NEW id
  PROVE  ReversalsMatchCredits(WriteReversals(ledger, kind, id))
<1> DEFINE reversals ==
      {ReversalRow(row) : row \in OriginalRows(ledger, kind, id)}
<1>1. ledger \subseteq WriteReversals(ledger, kind, id)
  BY DEF WriteReversals, InsertLedgerRows
<1>2. \A rev \in WriteReversals(ledger, kind, id) :
        rev \in ledger \/ rev \in reversals
  BY DEF WriteReversals, InsertLedgerRows
<1>3. SUFFICES ASSUME NEW rev \in WriteReversals(ledger, kind, id),
                      rev.kind \in ReversalKinds
               PROVE  \E row \in ledger :
                        row.kind \in CreditKinds /\ rev = ReversalRow(row)
  BY <1>1, <1>3 DEF ReversalsMatchCredits
<1>4. CASE rev \in ledger
  BY <1>3, <1>4 DEF ReversalsMatchCredits
<1>5. CASE rev \in reversals
  BY <1>5 DEF OriginalRows
<1> QED
  BY <1>2, <1>4, <1>5

-----------------------------------------------------------------------------
(* In a ledger whose rows have distinct keys and whose reversals all match, *)
(* reversing a source leaves nothing of it owed: a reversal is dropped only *)
(* where the same one was written before.                                   *)
LEMMA ReversalsSettleCredits ==
  ASSUME NEW ledger, UniqueKeys(ledger), ReversalsMatchCredits(ledger),
         NEW kind \in CreditKinds, NEW id
  PROVE  OutstandingCredits(WriteReversals(ledger, kind, id), kind, id) = {}
<1> DEFINE after == WriteReversals(ledger, kind, id)
<1>1. SUFFICES ASSUME NEW row \in after, row.kind = kind, row.source[1] = id
               PROVE  ReversalRow(row) \in after
  BY DEF OutstandingCredits, OriginalRows
<1>2. row \in ledger
  BY <1>1 DEF WriteReversals, InsertLedgerRows, OriginalRows, ReversalRow,
              ReversalOf, CreditKinds
<1>3. row \in OriginalRows(ledger, kind, id)
  BY <1>1, <1>2 DEF OriginalRows
<1>4. CASE \A old \in ledger : ~SameKey(old, ReversalRow(row))
  BY <1>3, <1>4 DEF WriteReversals, InsertLedgerRows
<1>5. ASSUME NEW old \in ledger, SameKey(old, ReversalRow(row))
      PROVE  ReversalRow(row) \in after
  <2>1. /\ old.user = row.user /\ old.source = row.source
        /\ old.kind = ReversalOf(kind)
    BY <1>1, <1>5 DEF SameKey, ReversalRow
  <2>2. old.kind \in ReversalKinds
    BY <2>1 DEF ReversalOf, ReversalKinds
  <2>3. PICK credit \in ledger :
          credit.kind \in CreditKinds /\ old = ReversalRow(credit)
    BY <2>2 DEF ReversalsMatchCredits
  <2>4. /\ credit.user = old.user /\ credit.source = old.source
        /\ ReversalOf(credit.kind) = old.kind
    BY <2>3 DEF ReversalRow
  <2>5. credit.kind = kind
    BY <2>1, <2>3, <2>4 DEF ReversalOf, CreditKinds
  <2>6. credit = row
    BY <1>1, <1>2, <2>1, <2>4, <2>5 DEF UniqueKeys, SameKey
  <2> QED
    BY <2>3, <2>6 DEF WriteReversals, InsertLedgerRows
<1> QED
  BY <1>4, <1>5
=============================================================================
