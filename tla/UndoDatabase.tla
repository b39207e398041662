---------------------------- MODULE UndoDatabase ----------------------------
(***************************************************************************)
(* The object database and its undo history (libraries/db): generic_index  *)
(* and primary_index create, modify and remove objects, and undo_database  *)
(* records, per open session, the difference needed to take the database   *)
(* back to where it was when the session was opened.                       *)
(*                                                                         *)
(* Objects live in indexes; an object's id is its index and a number drawn *)
(* from the index's next_id.  An object carries a key on which its index   *)
(* has a unique secondary order, and a payload.  The chain never changes a *)
(* unique key of an existing object, so modify changes the payload only.   *)
(*                                                                         *)
(* Undo tracking is enabled: the disabled mode of init_genesis and reindex *)
(* is not modelled here.  Sessions nest as the chain nests them (pending   *)
(* session, the session of one transaction, the session of a proposal that *)
(* the transaction executes) and only an outermost session is committed.   *)
(***************************************************************************)
EXTENDS Integers, Sequences

CONSTANTS Indexes,      \* the object types
          Numbers,      \* bound: the instance numbers an id may have
          Keys,         \* values of the unique secondary key
          Payloads,     \* the rest of an object
          None,         \* no object, no recorded value
          MaxSizes,     \* the limits set_max_size is called with
          MaxNested     \* the deepest nesting of sessions

(* db_update.cpp sets the limit to head - last_irreversible + 1, and the   *)
(* head is always beyond the last irreversible block of its parent: the    *)
(* limit is at least 2, so three nested sessions fit.                      *)
ASSUME NumbersAssumption == Numbers \subseteq Nat
ASSUME NestingAssumption ==
    /\ MaxNested \in Nat
    /\ MaxSizes \subseteq Nat
    /\ MaxSizes # {}
    /\ \A n \in MaxSizes : MaxNested <= n + 1

ObjectIds == Indexes \X Numbers
Objects == [key : Keys, payload : Payloads]
ASSUME NoneAssumption == None \notin Objects /\ None \notin Nat

VARIABLES objects,          \* id -> object, None where there is none
          next_id,          \* index -> the number its next object gets
          stack,            \* undo_database::_stack, oldest first
          active_sessions,
          max_size,
          snapshots         \* auxiliary: the database as it was when each
                            \* element of stack was pushed

vars == <<objects, next_id, stack, active_sessions, max_size, snapshots>>

MaybeObject == Objects \cup {None}
ObjectMap == [ObjectIds -> MaybeObject]
NextIds == [Indexes -> Nat]

UndoState == [old_values : ObjectMap,
              old_index_next_ids : [Indexes -> Nat \cup {None}],
              new_ids : SUBSET ObjectIds,
              removed : ObjectMap]

EmptyState == [old_values |-> [id \in ObjectIds |-> None],
               old_index_next_ids |-> [i \in Indexes |-> None],
               new_ids |-> {},
               removed |-> [id \in ObjectIds |-> None]]

Database == [objects : ObjectMap, next_id : NextIds]
Current == [objects |-> objects, next_id |-> next_id]

Exists(id) == objects[id] # None
SameKey(x, y) == x # None /\ y # None /\ x.key = y.key
Front(s) == SubSeq(s, 1, Len(s) - 1)
Top(s) == s[Len(s)]

-----------------------------------------------------------------------------
(* The hooks: what the newest state of the stack remembers of a change.    *)

(* The state a hook writes to: with an empty stack it pushes one first.    *)
Recording == IF stack = << >> THEN EmptyState ELSE Top(stack)
Record(s) ==
    /\ stack' = IF stack = << >> THEN <<s>> ELSE [stack EXCEPT ![Len(stack)] = s]
    /\ snapshots' = IF stack = << >> THEN <<Current>> ELSE snapshots

on_create(s, id) ==
    [s EXCEPT !.old_index_next_ids[id[1]] = IF @ = None THEN id[2] ELSE @,
              !.new_ids = @ \cup {id}]

on_modify(s, id) ==
    IF id \in s.new_ids \/ s.old_values[id] # None THEN s
    ELSE [s EXCEPT !.old_values[id] = objects[id]]

(* Mutation: removing an object created in this state leaves it in new_ids. *)
on_remove_keeps_new(s, id) ==
    IF id \in s.new_ids THEN s
    ELSE IF s.old_values[id] # None
         THEN [s EXCEPT !.removed[id] = s.old_values[id], !.old_values[id] = None]
         ELSE [s EXCEPT !.removed[id] = objects[id]]

on_remove(s, id) ==
    IF id \in s.new_ids THEN [s EXCEPT !.new_ids = @ \ {id}]
    ELSE IF s.old_values[id] # None
         THEN [s EXCEPT !.removed[id] = s.old_values[id],
                        !.old_values[id] = None]
         ELSE IF s.removed[id] # None THEN s
              ELSE [s EXCEPT !.removed[id] = objects[id]]

-----------------------------------------------------------------------------
(* Going back over one state: modify every object of old_values, remove    *)
(* every object of new_ids, reset the next ids, insert every object of     *)
(* removed, in this order.                                                 *)

ModifiedBack(d, s) ==
    [id \in ObjectIds |-> IF s.old_values[id] # None THEN s.old_values[id] ELSE d[id]]

NewErased(d, s) ==
    [id \in ObjectIds |-> IF id \in s.new_ids THEN None ELSE d[id]]

Reinserted(d, s) ==
    [id \in ObjectIds |-> IF s.removed[id] # None THEN s.removed[id] ELSE d[id]]

BeforeReinsert(d, s) == NewErased(ModifiedBack(d, s), s)

(* Mutation: the next ids of the indexes stay where they are. *)
RestoredWithoutNextIds(db, s) ==
    [objects |-> Reinserted(BeforeReinsert(db.objects, s), s), next_id |-> db.next_id]

Restored(db, s) ==
    [objects |-> Reinserted(BeforeReinsert(db.objects, s), s),
     next_id |-> [i \in Indexes |->
                    IF s.old_index_next_ids[i] # None THEN s.old_index_next_ids[i]
                    ELSE db.next_id[i]]]

(* The assertions on the way: get_object finds what it modifies or removes *)
(* and no modify or insert meets another object with the same unique key,  *)
(* in whatever order the unordered containers are walked.                  *)
RestoreCannotThrow(db, s) ==
    LET bare == BeforeReinsert(db.objects, s)
    IN  \A id \in ObjectIds :
          /\ s.old_values[id] # None =>
               /\ db.objects[id] # None
               /\ \A other \in ObjectIds \ {id} : other[1] = id[1] =>
                     /\ ~SameKey(s.old_values[id], db.objects[other])
                     /\ ~SameKey(s.old_values[id], s.old_values[other])
          /\ id \in s.new_ids => db.objects[id] # None
          /\ s.removed[id] # None =>
               /\ bare[id] = None
               /\ \A other \in ObjectIds \ {id} : other[1] = id[1] =>
                     /\ ~SameKey(s.removed[id], bare[other])
                     /\ ~SameKey(s.removed[id], s.removed[other])

(* Mutation: upd(was=X) + del(was=Y) becomes del(was=Y). *)
MergedKeepsNewerValue(a, b) ==
    LET new == a.new_ids \cup b.new_ids
        gone == {id \in ObjectIds : b.removed[id] # None}
    IN  [old_values |-> [id \in ObjectIds |->
                           IF id \in gone /\ id \notin new THEN None
                           ELSE IF id \notin a.new_ids /\ a.old_values[id] = None
                                THEN b.old_values[id] ELSE a.old_values[id]],
         old_index_next_ids |-> [i \in Indexes |->
                           IF a.old_index_next_ids[i] = None THEN b.old_index_next_ids[i]
                           ELSE a.old_index_next_ids[i]],
         new_ids |-> new \ gone,
         removed |-> [id \in ObjectIds |->
                        IF id \in gone /\ id \notin new THEN b.removed[id] ELSE a.removed[id]]]

(* merge(): the state b of a session folded into the state a below it.     *)
Merged(a, b) ==
    LET old == [id \in ObjectIds |->
                  IF b.old_values[id] # None /\ id \notin a.new_ids /\ a.old_values[id] = None
                  THEN b.old_values[id] ELSE a.old_values[id]]
        new == a.new_ids \cup b.new_ids
        gone == {id \in ObjectIds : b.removed[id] # None}
    IN  [old_values |-> [id \in ObjectIds |->
                           IF id \in gone /\ id \notin new THEN None ELSE old[id]],
         old_index_next_ids |-> [i \in Indexes |->
                           IF a.old_index_next_ids[i] = None THEN b.old_index_next_ids[i]
                           ELSE a.old_index_next_ids[i]],
         new_ids |-> new \ gone,
         removed |-> [id \in ObjectIds |->
                        IF id \in gone /\ id \notin new
                        THEN IF old[id] # None THEN old[id] ELSE b.removed[id]
                        ELSE a.removed[id]]]

-----------------------------------------------------------------------------
(* Changes of the object database.                                         *)

Create(i, key, payload) ==
    LET id == <<i, next_id[i]>>
        obj == [key |-> key, payload |-> payload]
    IN  /\ next_id[i] \in Numbers
        /\ \A other \in ObjectIds : other[1] = i => ~SameKey(obj, objects[other])
        /\ objects' = [objects EXCEPT ![id] = obj]
        /\ next_id' = [next_id EXCEPT ![i] = @ + 1]
        /\ Record(on_create(Recording, id))
        /\ UNCHANGED <<active_sessions, max_size>>

Modify(id, payload) ==
    /\ Exists(id)
    /\ objects' = [objects EXCEPT ![id].payload = payload]
    /\ Record(on_modify(Recording, id))
    /\ UNCHANGED <<next_id, active_sessions, max_size>>

Remove(id) ==
    /\ Exists(id)
    /\ objects' = [objects EXCEPT ![id] = None]
    /\ Record(on_remove(Recording, id))
    /\ UNCHANGED <<next_id, active_sessions, max_size>>

-----------------------------------------------------------------------------
(* Sessions.                                                               *)

(* Mutation: one state too many is dropped. *)
TrimmedTooFar(s) ==
    IF Len(s) >= max_size THEN SubSeq(s, Len(s) - max_size + 2, Len(s)) ELSE s

(* start_undo_session drops the oldest states while there are more than    *)
(* max_size of them.                                                       *)
Trimmed(s) ==
    IF Len(s) > max_size THEN SubSeq(s, Len(s) - max_size + 1, Len(s)) ELSE s

StartUndoSession ==
    /\ active_sessions < MaxNested
    /\ stack' = Append(Trimmed(stack), EmptyState)
    /\ snapshots' = Append(Trimmed(snapshots), Current)
    /\ active_sessions' = active_sessions + 1
    /\ UNCHANGED <<objects, next_id, max_size>>

Undo ==
    LET back == Restored(Current, Top(stack))
    IN  /\ active_sessions > 0
        /\ objects' = back.objects
        /\ next_id' = back.next_id
        /\ stack' = IF Len(stack) = 1 THEN <<EmptyState>> ELSE Front(stack)
        /\ snapshots' = IF Len(stack) = 1 THEN <<back>> ELSE Front(snapshots)
        /\ active_sessions' = active_sessions - 1
        /\ UNCHANGED max_size

Merge ==
    LET n == Len(stack)
    IN  /\ active_sessions > 0
        /\ n >= 2
        /\ stack' = [Front(stack) EXCEPT ![n - 1] = Merged(stack[n - 1], stack[n])]
        /\ snapshots' = Front(snapshots)
        /\ active_sessions' = active_sessions - 1
        /\ UNCHANGED <<objects, next_id, max_size>>

Commit ==
    /\ active_sessions = 1
    /\ active_sessions' = 0
    /\ UNCHANGED <<objects, next_id, stack, max_size, snapshots>>

PopCommit ==
    LET back == Restored(Current, Top(stack))
    IN  /\ active_sessions = 0
        /\ stack # << >>
        /\ objects' = back.objects
        /\ next_id' = back.next_id
        /\ stack' = Front(stack)
        /\ snapshots' = Front(snapshots)
        /\ UNCHANGED <<active_sessions, max_size>>

SetMaxSize(n) ==
    /\ max_size' = n
    /\ UNCHANGED <<objects, next_id, stack, active_sessions, snapshots>>

-----------------------------------------------------------------------------
Init ==
    /\ objects = [id \in ObjectIds |-> None]
    /\ next_id = [i \in Indexes |-> 0]
    /\ stack = << >>
    /\ active_sessions = 0
    /\ max_size \in MaxSizes
    /\ snapshots = << >>

Next ==
    \/ \E i \in Indexes, key \in Keys, payload \in Payloads : Create(i, key, payload)
    \/ \E id \in ObjectIds, payload \in Payloads : Modify(id, payload)
    \/ \E id \in ObjectIds : Remove(id)
    \/ StartUndoSession
    \/ Undo
    \/ Merge
    \/ Commit
    \/ PopCommit
    \/ \E n \in MaxSizes : SetMaxSize(n)

Spec == Init /\ [][Next]_vars

-----------------------------------------------------------------------------
(* Types of the variables of undo_database and of the indexes it guards.   *)
TypeOK ==
    /\ objects \in ObjectMap
    /\ next_id \in NextIds
    /\ stack \in Seq(UndoState)
    /\ active_sessions \in 0 .. MaxNested
    /\ max_size \in MaxSizes
    /\ snapshots \in Seq(Database)
    /\ Len(snapshots) = Len(stack)

(* The database after the k-th state of the stack was completed: what the  *)
(* session above it started from, or the present database.                 *)
After(k) == IF k = Len(stack) THEN Current ELSE snapshots[k + 1]

(* Whatever was created, modified and removed in a session, and in the     *)
(* sessions merged into it, undo() and pop_commit() bring back exactly the *)
(* objects and the next ids of the moment the session was opened.          *)
UndoRestoresSnapshot ==
    \A k \in 1 .. Len(stack) : Restored(After(k), stack[k]) = snapshots[k]

(* Walking back over a state never trips one of the assertions in undo()   *)
(* and pop_commit(): an exception half way would leave the database partly *)
(* restored and undo disabled.                                             *)
UndoCannotThrow ==
    \A k \in 1 .. Len(stack) : RestoreCannotThrow(After(k), stack[k])

(* Trimming the history in start_undo_session never discards the state of  *)
(* a session that is still open, although sessions nest: undo() and        *)
(* merge() of every open session find their state.                         *)
OpenSessionsKeepState == Len(stack) >= active_sessions

(* The unique secondary order of an index never holds two objects with one *)
(* key, whatever is undone.                                                *)
UniqueKeys ==
    \A a, b \in ObjectIds :
        a # b /\ a[1] = b[1] => ~SameKey(objects[a], objects[b])

(* The differences implement the stack of complete copies.                 *)
Abstract == INSTANCE SnapshotStack
    WITH States <- Database, current <- Current, saved <- snapshots, open <- active_sessions
AbstractSpec == Abstract!Spec
=============================================================================
