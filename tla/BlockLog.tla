------------------------------ MODULE BlockLog ------------------------------
(***************************************************************************)
(* block_database: the blocks on disk.  The index file has one entry per   *)
(* block number, with the id it was stored under, the block written for it *)
(* and whether its size is not zero; entries beyond the end of the file    *)
(* and entries never written are not live and have no id.                  *)
(***************************************************************************)
EXTENDS BlockTree

CONSTANT MaxNum         \* bound: the highest block number

Entry == [id : BlockIds, data : BlockIds, live : BOOLEAN]
EmptyLog == [n \in 1 .. MaxNum |-> [id |-> None, data |-> None, live |-> FALSE]]

store(log, id, b) == [log EXCEPT ![Num[id]] = [id |-> id, data |-> b, live |-> TRUE]]

remove(log, id) ==
    IF log[Num[id]].id = id THEN [log EXCEPT ![Num[id]].live = FALSE] ELSE log

contains(log, id) == log[Num[id]].live /\ log[Num[id]].id = id

(* fetch_optional by id and fetch_by_number both check that the block read *)
(* has the id of its entry.                                                *)
CanFetch(log, id) ==
    LET e == log[Num[id]] IN e.live /\ e.id = id /\ e.data = id
CanFetchNumber(log, n) == log[n].live /\ log[n].data = log[n].id

Live(log) == {n \in 1 .. MaxNum : log[n].live}

(* last() returns the block of the last entry of non-zero size, whatever   *)
(* the id of that entry.                                                   *)
LastNum(log) == IF Live(log) = {} THEN 0
                ELSE CHOOSE n \in Live(log) : \A m \in Live(log) : m <= n
(* Mutation: the last entry counts even when it was removed. *)
last_removed(log) ==
    LET used == {n \in 1 .. MaxNum : log[n].id # None}
    IN  IF used = {} THEN None ELSE log[CHOOSE n \in used : \A m \in used : m <= n].data
last(log) == IF Live(log) = {} THEN None ELSE log[LastNum(log)].data

(* reindex() replays up to the first entry it cannot fetch and removes the *)
(* live entries above it.                                                  *)
Replayable(log) ==
    LET good == {n \in 0 .. MaxNum : \A m \in 1 .. n : CanFetchNumber(log, m)}
    IN  CHOOSE n \in good : \A m \in good : m <= n

DropAbove(log, n) ==
    [m \in 1 .. MaxNum |-> IF m > n THEN [log[m] EXCEPT !.live = FALSE] ELSE log[m]]
=============================================================================
