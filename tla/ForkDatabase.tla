---------------------------- MODULE ForkDatabase ----------------------------
(***************************************************************************)
(* fork_database: the recent blocks of every fork, as operators on a       *)
(* record f of                                                             *)
(*   index     the ids in _index                                           *)
(*   stale     the ids whose weak pointer to the previous item has expired *)
(*             (or was never set)                                          *)
(*   head      _head, None when it is null                                 *)
(*   max_size  _max_size                                                   *)
(* _unlinked_index is always empty: push_block throws before it inserts.   *)
(***************************************************************************)
EXTENDS BlockTree

CONSTANT DefaultMaxSize     \* the initial _max_size

ForkState == [index : SUBSET Blocks, stale : SUBSET Blocks,
              head : BlockIds, max_size : Nat]

ForkEmpty == [index |-> {}, stale |-> {}, head |-> None, max_size |-> DefaultMaxSize]

reset(f) == [f EXCEPT !.index = {}, !.stale = {}, !.head = None]

(* prev.lock() of item b. *)
PrevLocks(f, b) == Parent[b] \in f.index /\ b \notin f.stale

(* Erasing items from the index expires the weak pointers to them. *)
Erase(f, ids) ==
    [f EXCEPT !.index = @ \ ids,
              !.stale = (@ \ ids) \cup {b \in f.index \ ids : Parent[b] \in ids}]

EraseBelow(f, n) == Erase(f, {b \in f.index : Num[b] < n})

(* Mutation: the block is not indexed. *)
start_block_head_only(f, b) == [f EXCEPT !.head = b]
start_block(f, b) ==
    [f EXCEPT !.index = @ \cup {b}, !.stale = @ \cup {b}, !.head = b]

TooOld(f, b) ==
    f.head # None /\ Num[b] <= Larger(0, Num[f.head] - f.max_size)

Unlinkable(f, b) ==
    f.head # None /\ Parent[b] # None /\ Parent[b] \notin f.index

(* A block of an id that is known already leaves the index as it is. *)
Inserted(f, b) ==
    IF b \in f.index THEN f
    ELSE [f EXCEPT !.index = @ \cup {b},
                   !.stale = IF Parent[b] \in f.index THEN @ ELSE @ \cup {b}]

(* Mutation: a block must be two higher to become the head. *)
push_block_off_by_one(f, b) ==
    LET g == Inserted(f, b)
    IN  IF f.head = None THEN [g EXCEPT !.head = b]
        ELSE IF Num[b] > Num[f.head] + 1
             THEN EraseBelow([g EXCEPT !.head = b], Num[b] - Smaller(f.max_size, Num[b]))
             ELSE g

push_block(f, b) ==
    LET g == Inserted(f, b)
    IN  IF f.head = None THEN [g EXCEPT !.head = b]
        ELSE IF Num[b] > Num[f.head]
             THEN EraseBelow([g EXCEPT !.head = b], Num[b] - Smaller(f.max_size, Num[b]))
             ELSE g

CanPop(f) == f.head # None /\ PrevLocks(f, f.head)
pop_block(f) == [f EXCEPT !.head = Parent[f.head]]

set_max_size(f, n) ==
    IF f.head = None THEN [f EXCEPT !.max_size = n]
    ELSE EraseBelow([f EXCEPT !.max_size = n], Larger(0, Num[f.head] - n))

set_head(f, b) == [f EXCEPT !.head = b]

remove(f, b) == Erase(f, {b})

(* fetch_branch_from walks both branches back until their items have the   *)
(* same previous id; it throws when an item on the way is missing.  The    *)
(* two branches are given oldest block first.                              *)
ForkPoint(first, second) ==
    LET p == PathTo[first]
        q == PathTo[second]
        m == Smaller(Len(p), Len(q))
    IN  CHOOSE c \in 0 .. m - 1 :
          /\ SubSeq(p, 1, c) = SubSeq(q, 1, c)
          /\ \A k \in c + 1 .. m - 1 : SubSeq(p, 1, k) # SubSeq(q, 1, k)

BranchAfter(b, c) == SubSeq(PathTo[b], c + 1, Num[b])

BranchReachable(f, branch) ==
    \A n \in 2 .. Len(branch) : PrevLocks(f, branch[n])

CanFetchBranches(f, first, second) ==
    /\ first \in f.index
    /\ second \in f.index
    /\ LET c == ForkPoint(first, second)
       IN  /\ BranchReachable(f, BranchAfter(first, c))
           /\ BranchReachable(f, BranchAfter(second, c))
=============================================================================
