---------------------------- MODULE MCBlockSync ----------------------------
EXTENDS BlockSync, TLC

CONSTANTS n1, n2, n3, B1, B2, B3, F2, F3

LineBlocks == {B1, B2, B3}
ForkBlocks == {B1, B2, F2, F3}
LineParent == (B1 :> None) @@ (B2 :> B1) @@ (B3 :> B2)
ForkParent == (B1 :> None) @@ (B2 :> B1) @@ (F2 :> B1) @@ (F3 :> F2)
LineNum == (None :> 0) @@ (B1 :> 1) @@ (B2 :> 2) @@ (B3 :> 3)
ForkNum == (None :> 0) @@ (B1 :> 1) @@ (B2 :> 2) @@ (F2 :> 2) @@ (F3 :> 3)
LineLib == [x \in Blocks \cup {None} |-> 0]
ForkLib == [x \in Blocks \cup {None} |-> IF Num[x] > 2 THEN 1 ELSE 0]
NoTxs == [x \in Blocks |-> {}]
LinksTwo == {<<n1, n2>>}
LinksThree == {<<n1, n2>>, <<n1, n3>>}
ConnectsOnce == [l \in Links |-> 1]
ConnectsTwice == (<<n1, n2>> :> 1) @@ (<<n1, n3>> :> 2)
StartsTwo == (n1 :> B2) @@ (n2 :> F2)
StartsThree == (n1 :> None) @@ (n2 :> B2) @@ (n3 :> B2)

(* The hypothesis of the proofs holds of both trees. *)
ASSUME FinalTreeAssumption == FinalTree
=============================================================================
