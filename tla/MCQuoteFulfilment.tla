------------------------ MODULE MCQuoteFulfilment ------------------------
(* Instances of QuoteFulfilment for TLC. *)
EXTENDS QuoteFulfilment, TLC

(* Each total pays a closer's rules: one rule, or two. *)
MCExpanded ==
  [u \in Users |-> [t \in Totals |-> IF t < 200 THEN <<t \div 10>>
                                     ELSE <<t \div 10, t \div 20>>]]

Symmetry == Permutations(Requests) \cup Permutations(Users)
            \cup Permutations(Jobs) \cup Permutations(Intents)

RequestSymmetry == Permutations(Requests)
=============================================================================
