----------------------- MODULE MCInvoiceSettlement -----------------------
(* Instances of InvoiceSettlement for TLC. *)
EXTENDS InvoiceSettlement, TLC

(* The two managers' plans differ: one rule, or two. *)
CONSTANT TwoRules

MCExpanded ==
  [u \in Users |-> [t \in Totals |->
     IF t = 0 THEN <<>>
     ELSE IF u \in TwoRules THEN <<t \div 10, t \div 20>> ELSE <<t \div 10>>]]

Symmetry == Permutations(Desk) \cup Permutations(Hooks)
            \cup Permutations(Intents) \cup Permutations(RefundIds)
=============================================================================
