-------------------------- MODULE MCContentTrading --------------------------
(***************************************************************************)
(* Instances of ContentTrading: an author, a co-author, consumers and      *)
(* seeders.  10 split at 3333 basis points does not come out even.         *)
(***************************************************************************)
EXTENDS ContentTrading, TLC

CONSTANTS alice, bob, carol, dan, s1, s2, u1, u2

NoCoAuthors == [a \in {} |-> 0]

(* A co-author besides the author, and with the author's share given. *)
Splits == {bob :> 3333, (alice :> 6667) @@ (bob :> 3333)}
NoSplits == {NoCoAuthors}

(* Seeders that are asked for the same content at the same price differ in *)
(* nothing.                                                                *)
SeederSymmetry == Permutations(Seeders)
=============================================================================
