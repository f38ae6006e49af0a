---------------------------- MODULE MCInventory ----------------------------
(* Instances of Inventory for TLC. *)
EXTENDS Inventory, TLC

CONSTANTS home, away, spring, panel, j1, j2

(* Orders and jobs belong to the home branch. *)
MCOrderBranch == [o \in Orders |-> home]
MCJobBranch == [j \in Jobs |-> home]

(* One job uses both parts, another one of them. *)
MCParts ==
  [j \in Jobs |-> IF j = j1 THEN <<[sku |-> spring, qty |-> 2],
                                   [sku |-> panel, qty |-> 1]>>
                            ELSE <<[sku |-> spring, qty |-> 1]>>]

Symmetry == Permutations(Requests)
=============================================================================
