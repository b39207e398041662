--------------------------- MODULE SnapshotStack ---------------------------
(***************************************************************************)
(* What undo_database (libraries/db) promises to the chain: a stack of     *)
(* complete copies of the object database.  Opening a session saves a      *)
(* copy; undoing it brings the newest copy back; merging it forgets the    *)
(* newest copy; committing it keeps the copy as history that pop_commit    *)
(* may bring back later.  Old copies may be forgotten when a session is    *)
(* opened, but never a copy that an open session still needs.              *)
(* UndoDatabase implements this with per-session differences.              *)
(***************************************************************************)
EXTENDS Integers, Sequences

CONSTANTS States,       \* the values an object database can have
          MaxNested     \* the largest number of sessions open at once

VARIABLES current,      \* the object database
          saved,        \* the saved copies, oldest first
          open          \* how many sessions are open

vars == <<current, saved, open>>

Front(s) == SubSeq(s, 1, Len(s) - 1)

(* A change outside every session still needs something to go back to.     *)
Change ==
    /\ current' \in States
    /\ saved' = IF saved = << >> THEN <<current>> ELSE saved
    /\ UNCHANGED open

Start ==
    /\ open < MaxNested
    /\ \E k \in 0 .. Len(saved) :
          /\ Len(saved) - k >= open
          /\ saved' = Append(SubSeq(saved, k + 1, Len(saved)), current)
    /\ open' = open + 1
    /\ UNCHANGED current

Undo ==
    /\ open > 0
    /\ current' = saved[Len(saved)]
    /\ saved' = IF Len(saved) = 1 THEN <<current'>> ELSE Front(saved)
    /\ open' = open - 1

Merge ==
    /\ open > 0
    /\ Len(saved) >= 2
    /\ saved' = Front(saved)
    /\ open' = open - 1
    /\ UNCHANGED current

Commit ==
    /\ open = 1
    /\ open' = 0
    /\ UNCHANGED <<current, saved>>

PopCommit ==
    /\ open = 0
    /\ saved # << >>
    /\ current' = saved[Len(saved)]
    /\ saved' = Front(saved)
    /\ UNCHANGED open

Init == current \in States /\ saved = << >> /\ open = 0

Next == Change \/ Start \/ Undo \/ Merge \/ Commit \/ PopCommit

Spec == Init /\ [][Next]_vars
=============================================================================
