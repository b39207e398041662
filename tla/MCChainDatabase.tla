--------------------------- MODULE MCChainDatabase ---------------------------
(***************************************************************************)
(* Instances of ChainDatabase.  The block tree has two forks after A2 that *)
(* grow past each other, a third that leaves the second, and one that      *)
(* begins at block 1.                                                      *)
(*                                                                         *)
(*     A1 - A2 - A3 - A4                                                   *)
(*             \ B3 - B4 - B5                                              *)
(*                  \ C4                                                   *)
(*     B1 - B2                                                             *)
(***************************************************************************)
EXTENDS ChainDatabase

CONSTANTS A1, A2, A3, A4, B1, B2, B3, B4, B5, C4, t1, t2

TreeParent == [b \in Blocks |->
    CASE b \in {A1, B1} -> None
      [] b = A2 -> A1
      [] b \in {A3, B3} -> A2
      [] b = A4 -> A3
      [] b = B2 -> B1
      [] b \in {B4, C4} -> B3
      [] b = B5 -> B4]

TreeNum == [b \in Blocks \cup {None} |->
    CASE b = None -> 0
      [] b \in {A1, B1} -> 1
      [] b \in {A2, B2} -> 2
      [] b \in {A3, B3} -> 3
      [] b \in {A4, B4, C4} -> 4
      [] b = B5 -> 5]

(* On the first fork the last irreversible block is the one before the     *)
(* head; on the longer, second one too few miners confirm any.             *)
TreeLib == [b \in Blocks \cup {None} |->
    CASE b = A3 -> 2
      [] b = A4 -> 3
      [] OTHER -> 0]

(* t1 is in both forks, at different heights; t2 only in the first. *)
TreeTxs == [b \in Blocks |->
    CASE b \in {A3, B4} -> {t1} \cap Txs
      [] b = A4 -> {t2} \cap Txs
      [] OTHER -> {}]

KeyTxs == [b \in Bought |-> t2]
=============================================================================
