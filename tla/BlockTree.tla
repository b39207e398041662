----------------------------- MODULE BlockTree -----------------------------
(***************************************************************************)
(* The blocks a node may see: block ids, the previous id and the number    *)
(* each id carries (num_from_id), and what deciding about a block needs of *)
(* its contents.  None is block_id_type(), the previous id of block 1.     *)
(***************************************************************************)
EXTENDS Integers, Sequences, FiniteSets

CONSTANTS Blocks,       \* block ids
          None,         \* block_id_type()
          Parent,       \* block -> previous block id
          Num,          \* block -> block number
          Lib,          \* block -> last irreversible block number after it
          Bad,          \* blocks that fail to apply
          Txs,          \* transaction ids
          BlockTxs      \* block -> the transactions in it

ASSUME TreeAssumption ==
    /\ None \notin Blocks
    /\ Parent \in [Blocks -> Blocks \cup {None}]
    /\ Num \in [Blocks \cup {None} -> Nat]
    /\ Num[None] = 0
    /\ \A b \in Blocks : Num[b] = Num[Parent[b]] + 1

(* update_last_irreversible_block only raises the number, and the miners   *)
(* confirmed no block beyond the head.                                     *)
ASSUME LibAssumption ==
    /\ Lib \in [Blocks \cup {None} -> Nat]
    /\ \A b \in Blocks : Lib[Parent[b]] <= Lib[b] /\ Lib[b] <= Num[b]
    /\ Lib[None] = 0

ASSUME BlockContentsAssumption ==
    /\ Bad \subseteq Blocks
    /\ BlockTxs \in [Blocks -> SUBSET Txs]

BlockIds == Blocks \cup {None}

(* The blocks from the first one up to b. *)
PathTo[b \in BlockIds] == IF b = None THEN << >> ELSE Append(PathTo[Parent[b]], b)

OnPath(b) == {PathTo[b][n] : n \in 1 .. Len(PathTo[b])}

Larger(m, n) == IF m > n THEN m ELSE n
Smaller(m, n) == IF m < n THEN m ELSE n
=============================================================================
