------------------------- MODULE UndoDatabaseProofs -------------------------
(***************************************************************************)
(* Proofs about UndoDatabase, for every set of indexes, ids, keys and      *)
(* payloads and every sequence of limits.                                  *)
(*                                                                         *)
(* The invariants of UndoDatabase are not inductive: that the newest state *)
(* restores its snapshot says nothing of where a change leaves it.  The    *)
(* strengthening, LevelOK, says object by object how a recorded state      *)
(* relates the database before and after it.                               *)
(***************************************************************************)
EXTENDS UndoDatabase, TLAPS

(* How one object may be recorded in a state that leads from b to d.       *)
ObjectOK(b, d, s, id) ==
    /\ id \in s.new_ids =>
         /\ d[id] # None
         /\ b[id] = None
         /\ s.old_values[id] = None
         /\ s.removed[id] = None
    /\ s.old_values[id] # None =>
         /\ d[id] # None
         /\ b[id] = s.old_values[id]
         /\ s.removed[id] = None
    /\ s.removed[id] # None =>
         /\ d[id] = None
         /\ b[id] = s.removed[id]
    /\ id \notin s.new_ids /\ s.old_values[id] = None /\ s.removed[id] = None =>
         b[id] = d[id]
    /\ b[id] # None /\ d[id] # None => b[id].key = d[id].key

(* How the next id of one index may be recorded.                           *)
NextIdOK(b, d, s, i) ==
    /\ b[i] = IF s.old_index_next_ids[i] = None THEN d[i] ELSE s.old_index_next_ids[i]
    /\ b[i] <= d[i]

LevelOK(b, d, s) ==
    /\ \A id \in ObjectIds : ObjectOK(b.objects, d.objects, s, id)
    /\ \A i \in Indexes : NextIdOK(b.next_id, d.next_id, s, i)
    /\ \A id \in s.new_ids : b.next_id[id[1]] <= id[2]

(* Ids in use are below next_id, and keys are unique in their index.       *)
DatabaseOK(d) ==
    /\ \A id \in ObjectIds : d.objects[id] # None => id[2] < d.next_id[id[1]]
    /\ \A a, b \in ObjectIds :
          a # b /\ a[1] = b[1] => ~SameKey(d.objects[a], d.objects[b])

LevelsOK ==
    \A k \in 1 .. Len(stack) :
        /\ DatabaseOK(snapshots[k])
        /\ LevelOK(snapshots[k], After(k), stack[k])

Inv ==
    /\ TypeOK
    /\ OpenSessionsKeepState
    /\ DatabaseOK(Current)
    /\ LevelsOK

-----------------------------------------------------------------------------
(* A state that records nothing relates a database to itself.              *)
LEMMA EmptyLevel ==
    ASSUME NEW d \in Database
    PROVE  EmptyState \in UndoState /\ LevelOK(d, d, EmptyState)
<1>1. EmptyState \in UndoState
  BY DEF EmptyState, UndoState, ObjectMap, MaybeObject
<1>2. \A id \in ObjectIds : ObjectOK(d.objects, d.objects, EmptyState, id)
  BY DEF EmptyState, ObjectOK
<1>3. \A i \in Indexes : NextIdOK(d.next_id, d.next_id, EmptyState, i)
  BY DEF EmptyState, NextIdOK, Database, NextIds
<1> QED BY <1>1, <1>2, <1>3 DEF LevelOK, EmptyState

(* Walking back over a state recorded from b to d arrives at b.            *)
LEMMA RestoredIsBase ==
    ASSUME NEW b \in Database, NEW d \in Database, NEW s \in UndoState, LevelOK(b, d, s)
    PROVE  Restored(d, s) = b
<1> DEFINE r == Restored(d, s)
<1>1. \A id \in ObjectIds : r.objects[id] = b.objects[id]
  BY DEF LevelOK, ObjectOK, Restored, Reinserted, BeforeReinsert, NewErased,
         ModifiedBack
<1>2. \A i \in Indexes : r.next_id[i] = b.next_id[i]
  BY DEF LevelOK, NextIdOK, Restored
<1>3. r.objects = b.objects
  <2>1. b.objects \in ObjectMap  BY DEF Database
  <2>2. r.objects = [id \in ObjectIds |-> r.objects[id]]
    BY DEF Restored, Reinserted
  <2> QED BY <1>1, <2>1, <2>2 DEF ObjectMap
<1>4. r.next_id = b.next_id
  <2>1. b.next_id \in NextIds  BY DEF Database
  <2>2. r.next_id = [i \in Indexes |-> r.next_id[i]]
    BY DEF Restored
  <2> QED BY <1>2, <2>1, <2>2 DEF NextIds
<1>5. r = [objects |-> r.objects, next_id |-> r.next_id]
  BY DEF Restored
<1> QED BY <1>3, <1>4, <1>5 DEF Database

(* ... and meets no failing assertion on the way.                          *)
LEMMA LevelCannotThrow ==
    ASSUME NEW b \in Database, NEW d \in Database, NEW s \in UndoState,
           LevelOK(b, d, s), DatabaseOK(b), DatabaseOK(d)
    PROVE  RestoreCannotThrow(d, s)
<1> DEFINE bare == BeforeReinsert(d.objects, s)
<1> SUFFICES ASSUME NEW id \in ObjectIds
             PROVE /\ s.old_values[id] # None =>
                        /\ d.objects[id] # None
                        /\ \A other \in ObjectIds \ {id} : other[1] = id[1] =>
                             /\ ~SameKey(s.old_values[id], d.objects[other])
                             /\ ~SameKey(s.old_values[id], s.old_values[other])
                   /\ id \in s.new_ids => d.objects[id] # None
                   /\ s.removed[id] # None =>
                        /\ bare[id] = None
                        /\ \A other \in ObjectIds \ {id} : other[1] = id[1] =>
                             /\ ~SameKey(s.removed[id], bare[other])
                             /\ ~SameKey(s.removed[id], s.removed[other])
  BY DEF RestoreCannotThrow
<1>0. \A x \in ObjectIds : ObjectOK(b.objects, d.objects, s, x)
  BY DEF LevelOK
<1>1. \A x \in ObjectIds : bare[x] = IF x \in s.new_ids THEN None
                                    ELSE IF s.old_values[x] # None THEN s.old_values[x]
                                    ELSE d.objects[x]
  BY DEF BeforeReinsert, NewErased, ModifiedBack
<1>2. \A x \in ObjectIds : bare[x] = None \/ bare[x] = b.objects[x]
  BY <1>0, <1>1 DEF ObjectOK
<1>3. s.removed[id] # None => bare[id] = None
  BY <1>0, <1>1 DEF ObjectOK
<1>4. ASSUME NEW other \in ObjectIds \ {id}, other[1] = id[1]
      PROVE  /\ s.old_values[id] # None =>
                  /\ ~SameKey(s.old_values[id], d.objects[other])
                  /\ ~SameKey(s.old_values[id], s.old_values[other])
             /\ s.removed[id] # None =>
                  /\ ~SameKey(s.removed[id], bare[other])
                  /\ ~SameKey(s.removed[id], s.removed[other])
  <2>1. ~SameKey(b.objects[id], b.objects[other]) /\ ~SameKey(d.objects[id], d.objects[other])
    BY <1>4 DEF DatabaseOK
  <2>2. ObjectOK(b.objects, d.objects, s, id) /\ ObjectOK(b.objects, d.objects, s, other)
    BY <1>0, <1>4
  <2>3. bare[other] = None \/ bare[other] = b.objects[other]
    BY <1>2, <1>4
  <2> QED BY <2>1, <2>2, <2>3 DEF ObjectOK, SameKey
<1> QED BY <1>0, <1>3, <1>4 DEF ObjectOK

-----------------------------------------------------------------------------
(* What the hooks record of a change keeps the state related to its base.  *)

(* on_create keeps a state a difference from b to the database it guards.  *)
LEMMA CreateLevel ==
    ASSUME NEW b \in Database, NEW d \in Database, NEW s \in UndoState,
           LevelOK(b, d, s), DatabaseOK(b), DatabaseOK(d),
           NEW i \in Indexes, d.next_id[i] \in Numbers, NEW obj \in Objects,
           NEW e \in Database,
           e.objects = [d.objects EXCEPT ![<<i, d.next_id[i]>>] = obj],
           e.next_id = [d.next_id EXCEPT ![i] = @ + 1]
    PROVE  /\ on_create(s, <<i, d.next_id[i]>>) \in UndoState
           /\ LevelOK(b, e, on_create(s, <<i, d.next_id[i]>>))
<1> DEFINE id == <<i, d.next_id[i]>>
           t == on_create(s, id)
<1>0. id \in ObjectIds /\ id[1] = i /\ id[2] = d.next_id[i]
  BY DEF ObjectIds
<1>1. t \in UndoState
  BY <1>0, NumbersAssumption DEF on_create, UndoState
<1>2. d.objects[id] = None
  BY <1>0, NumbersAssumption DEF DatabaseOK
<1>3. b.objects[id] = None
  <2>1. b.next_id[i] <= d.next_id[i] /\ b.next_id[i] \in Nat
    BY DEF LevelOK, NextIdOK, Database, NextIds
  <2>2. b.objects[id] # None => d.next_id[i] < b.next_id[i]
    BY <1>0 DEF DatabaseOK
  <2>3. d.next_id[i] \in Nat
    BY NumbersAssumption
  <2> QED BY <2>1, <2>2, <2>3
<1>4. ASSUME NEW x \in ObjectIds PROVE ObjectOK(b.objects, e.objects, t, x)
  <2>1. ObjectOK(b.objects, d.objects, s, x)
    BY DEF LevelOK
  <2>2. obj # None
    BY NoneAssumption
  <2>3. /\ t.old_values = s.old_values
        /\ t.removed = s.removed
        /\ t.new_ids = s.new_ids \cup {id}
    BY DEF on_create, UndoState
  <2>4. CASE x = id
    BY <1>0, <1>2, <1>3, <2>1, <2>2, <2>3, <2>4 DEF ObjectOK, Database, ObjectMap
  <2>5. CASE x # id
    <3>1. e.objects[x] = d.objects[x]
      BY <1>0, <2>5 DEF Database, ObjectMap
    <3> QED BY <2>1, <2>3, <2>5, <3>1 DEF ObjectOK
  <2> QED BY <2>4, <2>5
<1>5. ASSUME NEW j \in Indexes PROVE NextIdOK(b.next_id, e.next_id, t, j)
  <2>1. NextIdOK(b.next_id, d.next_id, s, j)
    BY DEF LevelOK
  <2>2. d.next_id \in [Indexes -> Nat] /\ b.next_id \in [Indexes -> Nat]
    BY DEF Database, NextIds
  <2>3. s.old_index_next_ids \in [Indexes -> Nat \cup {None}]
    BY DEF UndoState
  <2>4. t.old_index_next_ids =
          [s.old_index_next_ids EXCEPT ![i] = IF @ = None THEN d.next_id[i] ELSE @]
    BY <1>0 DEF on_create, UndoState
  <2>5. CASE j = i
    <3>1. e.next_id[j] = d.next_id[j] + 1
      BY <2>2, <2>5
    <3>2. t.old_index_next_ids[j] = IF s.old_index_next_ids[j] = None THEN d.next_id[j]
                                    ELSE s.old_index_next_ids[j]
      BY <2>3, <2>4, <2>5
    <3>3. d.next_id[j] # None /\ d.next_id[j] \in Nat /\ b.next_id[j] \in Nat
      BY <2>2, NoneAssumption
    <3> QED BY <2>1, <3>1, <3>2, <3>3 DEF NextIdOK
  <2>6. CASE j # i
    <3>1. e.next_id[j] = d.next_id[j] /\ t.old_index_next_ids[j] = s.old_index_next_ids[j]
      BY <2>2, <2>3, <2>4, <2>6
    <3> QED BY <2>1, <3>1 DEF NextIdOK
  <2> QED BY <2>5, <2>6
<1>6. \A x \in t.new_ids : b.next_id[x[1]] <= x[2]
  <2>1. t.new_ids = s.new_ids \cup {id}
    BY DEF on_create, UndoState
  <2>2. b.next_id[i] <= d.next_id[i]
    BY DEF LevelOK, NextIdOK
  <2> QED BY <1>0, <2>1, <2>2 DEF LevelOK
<1> QED BY <1>1, <1>4, <1>5, <1>6 DEF LevelOK

(* ... and so does on_modify, which keeps the oldest value of an object.   *)
LEMMA ModifyLevel ==
    ASSUME NEW b \in Database, NEW s \in UndoState, Current \in Database,
           LevelOK(b, Current, s),
           NEW id \in ObjectIds, Exists(id),
           NEW obj \in Objects, obj.key = objects[id].key,
           NEW e \in Database,
           e.objects = [objects EXCEPT ![id] = obj],
           e.next_id = next_id
    PROVE  /\ on_modify(s, id) \in UndoState
           /\ LevelOK(b, e, on_modify(s, id))
<1> DEFINE t == on_modify(s, id)
<1>0. objects \in ObjectMap
  BY DEF Current, Database
<1>1. t \in UndoState
  BY <1>0 DEF on_modify, UndoState, ObjectMap
<1>2. ASSUME NEW x \in ObjectIds PROVE ObjectOK(b.objects, e.objects, t, x)
  <2>1. ObjectOK(b.objects, objects, s, x)
    BY DEF LevelOK, Current
  <2>2. obj # None
    BY NoneAssumption
  <2>3. t.removed = s.removed /\ t.new_ids = s.new_ids
    BY DEF on_modify, UndoState
  <2>4. CASE x = id
    <3>1. e.objects[x] = obj
      BY <1>0, <2>4 DEF ObjectMap
    <3>2. t.old_values[x] = IF x \in s.new_ids \/ s.old_values[x] # None
                            THEN s.old_values[x] ELSE objects[x]
      BY <2>4 DEF on_modify, UndoState, ObjectMap
    <3> QED BY <2>1, <2>2, <2>3, <2>4, <3>1, <3>2 DEF ObjectOK, Exists
  <2>5. CASE x # id
    <3>1. e.objects[x] = objects[x]
      BY <1>0, <2>5 DEF ObjectMap
    <3>2. t.old_values[x] = s.old_values[x]
      BY <2>5 DEF on_modify, UndoState, ObjectMap
    <3> QED BY <2>1, <2>3, <3>1, <3>2 DEF ObjectOK
  <2> QED BY <2>4, <2>5
<1>3. ASSUME NEW j \in Indexes PROVE NextIdOK(b.next_id, e.next_id, t, j)
  BY DEF LevelOK, NextIdOK, Current, on_modify, UndoState
<1>4. t.new_ids = s.new_ids
  BY DEF on_modify, UndoState
<1> QED BY <1>1, <1>2, <1>3, <1>4 DEF LevelOK

(* ... and so does on_remove, for new, modified and untouched objects.     *)
LEMMA RemoveLevel ==
    ASSUME NEW b \in Database, NEW s \in UndoState, Current \in Database,
           LevelOK(b, Current, s),
           NEW id \in ObjectIds, Exists(id),
           NEW e \in Database,
           e.objects = [objects EXCEPT ![id] = None],
           e.next_id = next_id
    PROVE  /\ on_remove(s, id) \in UndoState
           /\ LevelOK(b, e, on_remove(s, id))
<1> DEFINE t == on_remove(s, id)
<1>0. objects \in ObjectMap
  BY DEF Current, Database
<1>a. /\ s.old_values \in ObjectMap
      /\ s.removed \in ObjectMap
      /\ s.new_ids \subseteq ObjectIds
      /\ s.old_index_next_ids \in [Indexes -> Nat \cup {None}]
  BY DEF UndoState
<1>1. t \in UndoState
  <2>1. CASE id \in s.new_ids
    BY <2>1 DEF on_remove, UndoState
  <2>2. CASE id \notin s.new_ids /\ s.old_values[id] # None
    BY <2>2, <1>a DEF on_remove, UndoState, ObjectMap, MaybeObject
  <2>3. CASE id \notin s.new_ids /\ s.old_values[id] = None
    BY <2>3, <1>0, <1>a DEF on_remove, UndoState, ObjectMap, MaybeObject
  <2> QED BY <2>1, <2>2, <2>3
<1>2. ASSUME NEW x \in ObjectIds PROVE ObjectOK(b.objects, e.objects, t, x)
  <2>1. ObjectOK(b.objects, objects, s, x)
    BY DEF LevelOK, Current
  <2>4. CASE x = id
    <3>1. e.objects[x] = None /\ objects[x] # None
      BY <1>0, <2>4 DEF ObjectMap, Exists
    <3>2. CASE x \in s.new_ids
      <4>1. t.new_ids = s.new_ids \ {x} /\ t.old_values = s.old_values /\ t.removed = s.removed
        BY <2>4, <3>2 DEF on_remove, UndoState
      <4> QED BY <2>1, <3>1, <3>2, <4>1 DEF ObjectOK
    <3>3. CASE x \notin s.new_ids /\ s.old_values[x] # None
      <4>1. t.new_ids = s.new_ids /\ t.old_values[x] = None /\ t.removed[x] = s.old_values[x]
        BY <1>a, <2>4, <3>3 DEF on_remove, UndoState, ObjectMap
      <4> QED BY <2>1, <3>1, <3>3, <4>1 DEF ObjectOK
    <3>4. CASE x \notin s.new_ids /\ s.old_values[x] = None
      <4>1. s.removed[x] = None
        BY <2>1, <3>1, <3>4 DEF ObjectOK
      <4>2. t.new_ids = s.new_ids /\ t.old_values[x] = None /\ t.removed[x] = objects[x]
        BY <1>a, <2>4, <3>4, <4>1 DEF on_remove, UndoState, ObjectMap
      <4> QED BY <2>1, <3>1, <3>4, <4>1, <4>2 DEF ObjectOK
    <3> QED BY <3>2, <3>3, <3>4
  <2>5. CASE x # id
    <3>1. e.objects[x] = objects[x]
      BY <1>0, <2>5 DEF ObjectMap
    <3>2. /\ t.old_values[x] = s.old_values[x]
          /\ t.removed[x] = s.removed[x]
          /\ x \in t.new_ids <=> x \in s.new_ids
      BY <1>a, <2>5 DEF on_remove, UndoState, ObjectMap
    <3> QED BY <2>1, <3>1, <3>2 DEF ObjectOK
  <2> QED BY <2>4, <2>5
<1>3. ASSUME NEW j \in Indexes PROVE NextIdOK(b.next_id, e.next_id, t, j)
  <2>1. t.old_index_next_ids = s.old_index_next_ids
    BY DEF on_remove, UndoState
  <2> QED BY <2>1 DEF LevelOK, NextIdOK, Current
<1>4. t.new_ids \subseteq s.new_ids
  BY DEF on_remove, UndoState
<1> QED BY <1>1, <1>2, <1>3, <1>4 DEF LevelOK

(* Merging composes: a leads from b to c and t from c to d, so their merge *)
(* leads from b to d.                                                      *)
LEMMA MergedLevel ==
    ASSUME NEW b \in Database, NEW c \in Database, NEW d \in Database,
           NEW a \in UndoState, NEW t \in UndoState,
           LevelOK(b, c, a), LevelOK(c, d, t), DatabaseOK(b), DatabaseOK(c)
    PROVE  Merged(a, t) \in UndoState /\ LevelOK(b, d, Merged(a, t))
<1> DEFINE m == Merged(a, t)
<1>0. /\ a.old_values \in ObjectMap /\ t.old_values \in ObjectMap
      /\ a.removed \in ObjectMap /\ t.removed \in ObjectMap
      /\ a.new_ids \subseteq ObjectIds /\ t.new_ids \subseteq ObjectIds
      /\ a.old_index_next_ids \in [Indexes -> Nat \cup {None}]
      /\ t.old_index_next_ids \in [Indexes -> Nat \cup {None}]
  BY DEF UndoState
<1>n. /\ b.next_id \in [Indexes -> Nat]
      /\ c.next_id \in [Indexes -> Nat]
      /\ d.next_id \in [Indexes -> Nat]
  BY DEF Database, NextIds
<1>1. m \in UndoState
  <2>1. m.old_values \in ObjectMap
    BY <1>0 DEF Merged, ObjectMap, MaybeObject
  <2>2. m.removed \in ObjectMap
    BY <1>0 DEF Merged, ObjectMap, MaybeObject
  <2>3. m.new_ids \subseteq ObjectIds
    BY <1>0 DEF Merged
  <2>4. m.old_index_next_ids \in [Indexes -> Nat \cup {None}]
    BY <1>0 DEF Merged
  <2>5. m = [old_values |-> m.old_values, old_index_next_ids |-> m.old_index_next_ids,
             new_ids |-> m.new_ids, removed |-> m.removed]
    BY DEF Merged
  <2> QED BY <2>1, <2>2, <2>3, <2>4, <2>5 DEF UndoState
<1>2. ASSUME NEW x \in ObjectIds PROVE ObjectOK(b.objects, d.objects, m, x)
  <2>1. ObjectOK(b.objects, c.objects, a, x) /\ ObjectOK(c.objects, d.objects, t, x)
    BY DEF LevelOK
  <2> DEFINE old == IF t.old_values[x] # None /\ x \notin a.new_ids /\ a.old_values[x] = None
                    THEN t.old_values[x] ELSE a.old_values[x]
             new == x \in a.new_ids \/ x \in t.new_ids
             gone == t.removed[x] # None
  <2>2. /\ m.old_values[x] = IF gone /\ ~new THEN None ELSE old
        /\ m.removed[x] = IF gone /\ ~new
                          THEN IF old # None THEN old ELSE t.removed[x]
                          ELSE a.removed[x]
        /\ x \in m.new_ids <=> new /\ ~gone
    BY DEF Merged
  <2>3. x \in t.new_ids => b.objects[x] = None
    <3>1. x[1] \in Indexes /\ x[2] \in Nat
      BY NumbersAssumption DEF ObjectIds
    <3>2. x \in t.new_ids => c.next_id[x[1]] <= x[2]
      BY DEF LevelOK
    <3>3. b.next_id[x[1]] <= c.next_id[x[1]]
      BY <3>1 DEF LevelOK, NextIdOK
    <3>4. b.objects[x] # None => x[2] < b.next_id[x[1]]
      BY DEF DatabaseOK
    <3>5. b.next_id[x[1]] \in Nat /\ c.next_id[x[1]] \in Nat
      BY <1>n, <3>1
    <3> QED BY <3>1, <3>2, <3>3, <3>4, <3>5
  <2> QED BY <2>1, <2>2, <2>3 DEF ObjectOK
<1>3. ASSUME NEW j \in Indexes PROVE NextIdOK(b.next_id, d.next_id, m, j)
  <2>1. NextIdOK(b.next_id, c.next_id, a, j) /\ NextIdOK(c.next_id, d.next_id, t, j)
    BY DEF LevelOK
  <2>2. m.old_index_next_ids[j] = IF a.old_index_next_ids[j] = None
                                  THEN t.old_index_next_ids[j] ELSE a.old_index_next_ids[j]
    BY DEF Merged
  <2> QED BY <1>n, <2>1, <2>2 DEF NextIdOK
<1>4. \A x \in m.new_ids : b.next_id[x[1]] <= x[2]
  <2> SUFFICES ASSUME NEW x \in m.new_ids PROVE b.next_id[x[1]] <= x[2]
    OBVIOUS
  <2>1. x \in a.new_ids \/ x \in t.new_ids
    BY DEF Merged
  <2>2. x[1] \in Indexes /\ x[2] \in Nat
    BY <1>0, <2>1, NumbersAssumption DEF ObjectIds
  <2>3. b.next_id[x[1]] <= c.next_id[x[1]]
    BY <2>2 DEF LevelOK, NextIdOK
  <2> QED BY <1>n, <2>1, <2>2, <2>3 DEF LevelOK
<1> QED BY <1>1, <1>2, <1>3, <1>4 DEF LevelOK

-----------------------------------------------------------------------------
(* The base of the state a hook writes to.                                 *)
RecordingBase == IF stack = << >> THEN Current ELSE snapshots[Len(stack)]

(* The objects and next ids form a database.                               *)
LEMMA CurrentType ==
    ASSUME TypeOK PROVE Current \in Database
BY DEF TypeOK, Current, Database

(* The state a hook writes to leads from its base to the database.         *)
LEMMA RecordingLevel ==
    ASSUME Inv
    PROVE  /\ RecordingBase \in Database
           /\ Recording \in UndoState
           /\ DatabaseOK(RecordingBase)
           /\ LevelOK(RecordingBase, Current, Recording)
<1>0. TypeOK /\ Current \in Database
  BY CurrentType DEF Inv
<1>1. CASE stack = << >>
  BY <1>0, <1>1, EmptyLevel DEF RecordingBase, Recording, Inv
<1>2. CASE stack # << >>
  <2>1. Len(stack) \in 1 .. Len(stack)
    BY <1>0, <1>2 DEF TypeOK
  <2>2. After(Len(stack)) = Current
    BY DEF After
  <2>3. DatabaseOK(snapshots[Len(stack)]) /\ LevelOK(snapshots[Len(stack)], Current, stack[Len(stack)])
    BY <2>1, <2>2 DEF Inv, LevelsOK
  <2>4. snapshots[Len(stack)] \in Database /\ stack[Len(stack)] \in UndoState
    BY <1>0, <2>1 DEF TypeOK
  <2> QED BY <1>2, <2>3, <2>4 DEF RecordingBase, Recording, Top
<1> QED BY <1>1, <1>2

(* Recording a change keeps the invariant when the new state leads from    *)
(* the recording base to the new database.                                 *)
LEMMA RecordPreserves ==
    ASSUME Inv, NEW t \in UndoState, objects' \in ObjectMap, next_id' \in NextIds,
           DatabaseOK(Current'), LevelOK(RecordingBase, Current', t),
           Record(t), UNCHANGED <<active_sessions, max_size>>
    PROVE  Inv'
<1>0. TypeOK /\ Current \in Database
  BY CurrentType DEF Inv
<1>1. CASE stack = << >>
  <2>1. stack' = <<t>> /\ snapshots' = <<Current>>
    BY <1>1 DEF Record
  <2>2. TypeOK'
    BY <1>0, <2>1 DEF TypeOK
  <2>3. OpenSessionsKeepState'
    BY <1>0, <1>1, <2>1 DEF OpenSessionsKeepState, Inv, TypeOK
  <2>4. LevelsOK'
    BY <1>1, <2>1 DEF LevelsOK, After, Inv, RecordingBase
  <2> QED BY <2>2, <2>3, <2>4 DEF Inv
<1>2. CASE stack # << >>
  <2> DEFINE n == Len(stack)
  <2>1. stack' = [stack EXCEPT ![n] = t] /\ snapshots' = snapshots
    BY <1>2 DEF Record
  <2>2. n \in Nat /\ n >= 1 /\ Len(snapshots) = n
    BY <1>0, <1>2 DEF TypeOK
  <2>3. stack' \in Seq(UndoState) /\ Len(stack') = n
    BY <1>0, <2>1, <2>2 DEF TypeOK
  <2>4. TypeOK'
    BY <1>0, <2>1, <2>2, <2>3 DEF TypeOK
  <2>5. OpenSessionsKeepState'
    BY <2>3 DEF OpenSessionsKeepState, Inv
  <2>6. ASSUME NEW k \in 1 .. n
        PROVE DatabaseOK(snapshots[k]) /\ LevelOK(snapshots[k], After(k)', stack'[k])
    <3>1. DatabaseOK(snapshots[k]) /\ LevelOK(snapshots[k], After(k), stack[k])
      BY DEF Inv, LevelsOK
    <3>2. CASE k = n
      <4>1. stack'[k] = t /\ After(k)' = Current'
        BY <1>0, <2>1, <2>2, <2>3, <3>2 DEF TypeOK, After
      <4> QED BY <1>2, <3>1, <3>2, <4>1 DEF RecordingBase
    <3>3. CASE k # n
      <4>1. stack'[k] = stack[k] /\ After(k)' = After(k)
        BY <1>0, <2>1, <2>2, <2>3, <3>3 DEF TypeOK, After
      <4> QED BY <3>1, <4>1
    <3> QED BY <3>2, <3>3
  <2>7. LevelsOK'
    BY <2>1, <2>3, <2>6 DEF LevelsOK
  <2> QED BY <2>4, <2>5, <2>7 DEF Inv
<1> QED BY <1>1, <1>2

(* create() of an index with its hook on_create keeps the invariant.       *)
LEMMA CreatePreserves ==
    ASSUME Inv, NEW i \in Indexes, NEW key \in Keys, NEW payload \in Payloads,
           Create(i, key, payload)
    PROVE  Inv'
<1> DEFINE id == <<i, next_id[i]>>
           obj == [key |-> key, payload |-> payload]
<1>0. TypeOK /\ Current \in Database /\ DatabaseOK(Current)
  BY CurrentType DEF Inv
<1>1. /\ next_id[i] \in Numbers
      /\ \A other \in ObjectIds : other[1] = i => ~SameKey(obj, objects[other])
      /\ objects' = [objects EXCEPT ![id] = obj]
      /\ next_id' = [next_id EXCEPT ![i] = @ + 1]
      /\ Record(on_create(Recording, id))
      /\ UNCHANGED <<active_sessions, max_size>>
  BY DEF Create
<1>2. obj \in Objects
  BY DEF Objects
<1>3. id \in ObjectIds /\ id[1] = i /\ id[2] = next_id[i] /\ next_id[i] \in Nat
  BY <1>1, NumbersAssumption DEF ObjectIds
<1>4. objects' \in ObjectMap /\ next_id' \in NextIds
  BY <1>0, <1>1, <1>2, <1>3 DEF TypeOK, ObjectMap, MaybeObject, NextIds
<1>5. Current' \in Database
  BY <1>4 DEF Current, Database
<1>6. DatabaseOK(Current')
  <2>1. ASSUME NEW x \in ObjectIds, objects'[x] # None
        PROVE  x[2] < next_id'[x[1]]
    <3>0. x[1] \in Indexes /\ x[2] \in Nat
      BY NumbersAssumption DEF ObjectIds
    <3>1. CASE x = id
      BY <1>0, <1>1, <1>3, <3>1 DEF TypeOK, NextIds
    <3>2. CASE x # id
      <4>1. objects[x] # None
        BY <1>0, <1>1, <2>1, <3>2 DEF TypeOK, ObjectMap
      <4>2. x[2] < next_id[x[1]]
        BY <1>0, <4>1 DEF DatabaseOK, Current
      <4> QED BY <1>0, <1>1, <3>0, <4>2 DEF TypeOK, NextIds
    <3> QED BY <3>1, <3>2
  <2>2. ASSUME NEW x \in ObjectIds, NEW y \in ObjectIds, x # y, x[1] = y[1]
        PROVE  ~SameKey(objects'[x], objects'[y])
    <3>1. ~SameKey(objects[x], objects[y])
      BY <1>0, <2>2 DEF DatabaseOK, Current
    <3>2. /\ objects'[x] = IF x = id THEN obj ELSE objects[x]
          /\ objects'[y] = IF y = id THEN obj ELSE objects[y]
      BY <1>0, <1>1 DEF TypeOK, ObjectMap
    <3>3. CASE x = id
      BY <1>1, <1>3, <2>2, <3>2, <3>3 DEF SameKey
    <3>4. CASE y = id
      BY <1>1, <1>3, <2>2, <3>2, <3>4 DEF SameKey
    <3>5. CASE x # id /\ y # id
      BY <3>1, <3>2, <3>5
    <3> QED BY <3>3, <3>4, <3>5
  <2> QED BY <2>1, <2>2 DEF DatabaseOK, Current
<1>7. /\ on_create(Recording, id) \in UndoState
      /\ LevelOK(RecordingBase, Current', on_create(Recording, id))
  <2>1. Current.objects = objects /\ Current.next_id = next_id
    BY DEF Current
  <2>2. (Current').objects = objects' /\ (Current').next_id = next_id'
    BY DEF Current
  <2> HIDE DEF obj
  <2> QED BY <1>0, <1>1, <1>2, <1>5, <2>1, <2>2, RecordingLevel, CreateLevel
<1> QED BY <1>1, <1>4, <1>6, <1>7, RecordPreserves

(* modify() of an index with its hook on_modify keeps the invariant.       *)
LEMMA ModifyPreserves ==
    ASSUME Inv, NEW id \in ObjectIds, NEW payload \in Payloads, Modify(id, payload)
    PROVE  Inv'
<1> DEFINE obj == [objects[id] EXCEPT !.payload = payload]
<1>0. TypeOK /\ Current \in Database /\ DatabaseOK(Current)
  BY CurrentType DEF Inv
<1>1. /\ Exists(id)
      /\ objects' = [objects EXCEPT ![id] = obj]
      /\ Record(on_modify(Recording, id))
      /\ UNCHANGED <<next_id, active_sessions, max_size>>
  BY DEF Modify
<1>2. obj \in Objects /\ obj.key = objects[id].key
  <2>1. objects[id] \in Objects
    BY <1>0, <1>1 DEF TypeOK, ObjectMap, MaybeObject, Exists
  <2> QED BY <2>1 DEF Objects
<1>4. objects' \in ObjectMap /\ next_id' \in NextIds
  BY <1>0, <1>1, <1>2 DEF TypeOK, ObjectMap, MaybeObject
<1>5. Current' \in Database
  BY <1>4 DEF Current, Database
<1> HIDE DEF obj
<1>6. DatabaseOK(Current')
  <2>1. \A x \in ObjectIds : objects'[x] = IF x = id THEN obj ELSE objects[x]
    BY <1>0, <1>1 DEF TypeOK, ObjectMap
  <2>2. \A x \in ObjectIds : objects'[x] # None =>
                               objects[x] # None /\ objects'[x].key = objects[x].key
    BY <1>1, <1>2, <2>1 DEF Exists
  <2>3. \A x \in ObjectIds : objects'[x] # None => x[2] < next_id'[x[1]]
    BY <1>0, <1>1, <2>2 DEF DatabaseOK, Current
  <2>4. \A x, y \in ObjectIds : x # y /\ x[1] = y[1] => ~SameKey(objects'[x], objects'[y])
    BY <1>0, <2>2 DEF DatabaseOK, Current, SameKey
  <2> QED BY <2>3, <2>4 DEF DatabaseOK, Current
<1>7. /\ on_modify(Recording, id) \in UndoState
      /\ LevelOK(RecordingBase, Current', on_modify(Recording, id))
  <2>2. (Current').objects = objects' /\ (Current').next_id = next_id'
    BY DEF Current
  <2> QED BY <1>0, <1>1, <1>2, <1>5, <2>2, RecordingLevel, ModifyLevel
<1> QED BY <1>1, <1>4, <1>6, <1>7, RecordPreserves

(* remove() of an index with its hook on_remove keeps the invariant.       *)
LEMMA RemovePreserves ==
    ASSUME Inv, NEW id \in ObjectIds, Remove(id)
    PROVE  Inv'
<1>0. TypeOK /\ Current \in Database /\ DatabaseOK(Current)
  BY CurrentType DEF Inv
<1>1. /\ Exists(id)
      /\ objects' = [objects EXCEPT ![id] = None]
      /\ Record(on_remove(Recording, id))
      /\ UNCHANGED <<next_id, active_sessions, max_size>>
  BY DEF Remove
<1>4. objects' \in ObjectMap /\ next_id' \in NextIds
  BY <1>0, <1>1 DEF TypeOK, ObjectMap, MaybeObject
<1>5. Current' \in Database
  BY <1>4 DEF Current, Database
<1>6. DatabaseOK(Current')
  <2>1. \A x \in ObjectIds : objects'[x] = IF x = id THEN None ELSE objects[x]
    BY <1>0, <1>1 DEF TypeOK, ObjectMap
  <2>2. \A x \in ObjectIds : objects'[x] # None => objects'[x] = objects[x]
    BY <2>1
  <2> QED BY <1>0, <1>1, <2>2 DEF DatabaseOK, Current, SameKey
<1>7. /\ on_remove(Recording, id) \in UndoState
      /\ LevelOK(RecordingBase, Current', on_remove(Recording, id))
  <2>2. (Current').objects = objects' /\ (Current').next_id = next_id'
    BY DEF Current
  <2> QED BY <1>0, <1>1, <1>5, <2>2, RecordingLevel, RemoveLevel
<1> QED BY <1>1, <1>4, <1>6, <1>7, RecordPreserves

-----------------------------------------------------------------------------
(* Sessions.                                                               *)

(* start_undo_session keeps it: trimming drops whole states from the end.  *)
LEMMA StartPreserves ==
    ASSUME Inv, StartUndoSession
    PROVE  Inv'
<1> DEFINE n == Len(stack)
           drop == IF n > max_size THEN n - max_size ELSE 0
           m == n - drop
<1>0. TypeOK /\ Current \in Database /\ DatabaseOK(Current) /\ LevelsOK
  BY CurrentType DEF Inv
<1>1. /\ active_sessions < MaxNested
      /\ stack' = Append(Trimmed(stack), EmptyState)
      /\ snapshots' = Append(Trimmed(snapshots), Current)
      /\ active_sessions' = active_sessions + 1
      /\ UNCHANGED <<objects, next_id, max_size>>
      /\ Current' = Current
  BY DEF StartUndoSession, Current
<1>2. /\ n \in Nat
      /\ max_size \in Nat
      /\ active_sessions \in Nat
      /\ MaxNested <= max_size + 1
      /\ MaxNested \in Nat
      /\ n >= active_sessions
      /\ Len(snapshots) = n
      /\ stack \in Seq(UndoState)
      /\ snapshots \in Seq(Database)
  BY <1>0, NestingAssumption DEF TypeOK, Inv, OpenSessionsKeepState
<1>3. drop \in 0 .. n /\ m \in 0 .. n /\ m >= active_sessions
  BY <1>1, <1>2
<1>4. ASSUME NEW T, NEW q \in Seq(T), Len(q) = n
      PROVE  /\ Trimmed(q) \in Seq(T)
             /\ Len(Trimmed(q)) = m
             /\ \A k \in 1 .. m : Trimmed(q)[k] = q[k + drop]
  <2>1. CASE n > max_size
    <3>1. Trimmed(q) = SubSeq(q, drop + 1, n)
      BY <1>2, <1>4, <2>1 DEF Trimmed
    <3> QED BY <1>2, <1>3, <1>4, <2>1, <3>1
  <2>2. CASE ~(n > max_size)
    <3>1. Trimmed(q) = q
      BY <1>4, <2>2 DEF Trimmed
    <3> QED BY <1>2, <1>4, <2>2, <3>1
  <2> QED BY <2>1, <2>2
<1>5. /\ Trimmed(stack) \in Seq(UndoState)
      /\ Len(Trimmed(stack)) = m
      /\ \A k \in 1 .. m : Trimmed(stack)[k] = stack[k + drop]
  BY <1>2, <1>4
<1>6. /\ Trimmed(snapshots) \in Seq(Database)
      /\ Len(Trimmed(snapshots)) = m
      /\ \A k \in 1 .. m : Trimmed(snapshots)[k] = snapshots[k + drop]
  BY <1>2, <1>4
<1> HIDE DEF drop, m
<1>7. /\ Len(stack') = m + 1
      /\ Len(snapshots') = m + 1
      /\ stack' \in Seq(UndoState)
      /\ snapshots' \in Seq(Database)
      /\ stack'[m + 1] = EmptyState
      /\ snapshots'[m + 1] = Current
      /\ \A k \in 1 .. m : stack'[k] = stack[k + drop] /\ snapshots'[k] = snapshots[k + drop]
  BY <1>0, <1>1, <1>3, <1>5, <1>6, EmptyLevel
<1>8. TypeOK'
  BY <1>0, <1>1, <1>2, <1>7 DEF TypeOK
<1>9. OpenSessionsKeepState'
  BY <1>1, <1>2, <1>3, <1>7 DEF OpenSessionsKeepState
<1>10. ASSUME NEW k \in 1 .. (m + 1)
       PROVE  DatabaseOK(snapshots'[k]) /\ LevelOK(snapshots'[k], After(k)', stack'[k])
  <2>1. CASE k = m + 1
    <3>1. After(k)' = Current
      BY <1>1, <1>7, <2>1 DEF After
    <3> QED BY <1>0, <1>7, <2>1, <3>1, EmptyLevel
  <2>2. CASE k \in 1 .. m
    <3>1. k + drop \in 1 .. n /\ k + 1 \in 1 .. (m + 1) /\ k # m + 1
      BY <1>2, <1>3, <2>2 DEF m
    <3>2. DatabaseOK(snapshots[k + drop]) /\ LevelOK(snapshots[k + drop], After(k + drop), stack[k + drop])
      BY <1>0, <3>1 DEF LevelsOK
    <3>3. After(k)' = snapshots'[k + 1]
      BY <1>7, <3>1 DEF After
    <3>4. After(k)' = After(k + drop)
      <4>1. CASE k = m
        <5>1. k + drop = n
          BY <1>2, <1>3, <4>1 DEF m
        <5> QED BY <1>7, <3>3, <4>1, <5>1 DEF After
      <4>2. CASE k # m
        <5>1. k + 1 \in 1 .. m /\ k + drop # n /\ (k + 1) + drop = (k + drop) + 1
          BY <1>2, <1>3, <2>2, <4>2 DEF m
        <5>2. snapshots'[k + 1] = snapshots[(k + 1) + drop]
          BY <1>7, <5>1
        <5> QED BY <3>3, <5>1, <5>2 DEF After
      <4> QED BY <4>1, <4>2
    <3> QED BY <1>7, <2>2, <3>2, <3>4
  <2> QED BY <1>3, <2>1, <2>2
<1>11. LevelsOK'
  BY <1>7, <1>10 DEF LevelsOK
<1> QED BY <1>0, <1>1, <1>8, <1>9, <1>11 DEF Inv

(* What undo() and pop_commit() bring back is the newest snapshot.         *)
LEMMA BackIsSnapshot ==
    ASSUME Inv, stack # << >>
    PROVE  Restored(Current, Top(stack)) = snapshots[Len(stack)]
<1>0. TypeOK /\ Current \in Database /\ LevelsOK
  BY CurrentType DEF Inv
<1>1. Len(stack) \in 1 .. Len(stack) /\ Len(stack) = Len(snapshots)
  BY <1>0 DEF TypeOK
<1>2. LevelOK(snapshots[Len(stack)], Current, Top(stack))
  BY <1>0, <1>1 DEF LevelsOK, After, Top
<1>3. snapshots[Len(stack)] \in Database /\ Top(stack) \in UndoState
  BY <1>0, <1>1 DEF TypeOK, Top
<1> QED BY <1>0, <1>2, <1>3, RestoredIsBase

(* Dropping the newest state and going back to its snapshot.               *)
LEMMA BackPreserves ==
    ASSUME Inv, stack # << >>,
           objects' = Restored(Current, Top(stack)).objects,
           next_id' = Restored(Current, Top(stack)).next_id,
           stack' = Front(stack), snapshots' = Front(snapshots),
           active_sessions' \in 0 .. MaxNested,
           active_sessions' <= Len(stack) - 1,
           UNCHANGED max_size
    PROVE  Inv'
<1> DEFINE n == Len(stack)
           b == snapshots[n]
<1>0. TypeOK /\ Current \in Database /\ LevelsOK
  BY CurrentType DEF Inv
<1>1. n \in Nat /\ n >= 1 /\ Len(snapshots) = n
  BY <1>0 DEF TypeOK
<1>2. b \in Database /\ DatabaseOK(b)
  BY <1>0, <1>1 DEF TypeOK, LevelsOK
<1>3. objects' = b.objects /\ next_id' = b.next_id
  BY BackIsSnapshot
<1>4. Current' = b
  <2>1. b = [objects |-> b.objects, next_id |-> b.next_id]
    BY <1>2 DEF Database
  <2> QED BY <1>3, <2>1 DEF Current
<1>5. /\ stack' \in Seq(UndoState)
      /\ snapshots' \in Seq(Database)
      /\ Len(stack') = n - 1
      /\ Len(snapshots') = n - 1
      /\ \A k \in 1 .. n - 1 : stack'[k] = stack[k] /\ snapshots'[k] = snapshots[k]
  BY <1>0, <1>1 DEF TypeOK, Front
<1>6. TypeOK'
  BY <1>0, <1>2, <1>3, <1>5 DEF TypeOK, Database
<1>7. OpenSessionsKeepState'
  BY <1>1, <1>5 DEF OpenSessionsKeepState
<1>8. ASSUME NEW k \in 1 .. n - 1
      PROVE  DatabaseOK(snapshots'[k]) /\ LevelOK(snapshots'[k], After(k)', stack'[k])
  <2>1. DatabaseOK(snapshots[k]) /\ LevelOK(snapshots[k], After(k), stack[k])
    BY <1>0, <1>1 DEF LevelsOK
  <2>2. After(k) = snapshots[k + 1]
    BY <1>1 DEF After
  <2>3. After(k)' = snapshots[k + 1]
    <3>1. CASE k = n - 1
      BY <1>1, <1>4, <1>5, <3>1 DEF After
    <3>2. CASE k # n - 1
      BY <1>1, <1>5, <3>2 DEF After
    <3> QED BY <3>1, <3>2
  <2> QED BY <1>5, <2>1, <2>2, <2>3
<1>9. LevelsOK'
  BY <1>5, <1>8 DEF LevelsOK
<1> QED BY <1>2, <1>4, <1>6, <1>7, <1>9 DEF Inv

(* undo() keeps the invariant, with one state on the stack or more.        *)
LEMMA UndoPreserves ==
    ASSUME Inv, Undo
    PROVE  Inv'
<1> DEFINE n == Len(stack)
           back == Restored(Current, Top(stack))
<1>0. TypeOK /\ OpenSessionsKeepState /\ LevelsOK
  BY DEF Inv
<1>1. /\ active_sessions > 0
      /\ objects' = back.objects
      /\ next_id' = back.next_id
      /\ stack' = IF n = 1 THEN <<EmptyState>> ELSE Front(stack)
      /\ snapshots' = IF n = 1 THEN <<back>> ELSE Front(snapshots)
      /\ active_sessions' = active_sessions - 1
      /\ UNCHANGED max_size
  BY DEF Undo
<1>2. n \in Nat /\ n >= active_sessions /\ active_sessions \in 0 .. MaxNested /\ MaxNested \in Nat
  BY <1>0, NestingAssumption DEF TypeOK, OpenSessionsKeepState
<1>3. stack # << >> /\ n >= 1
  BY <1>1, <1>2
<1>4. CASE n # 1
  BY <1>1, <1>2, <1>3, <1>4, BackPreserves
<1>5. CASE n = 1
  <2>1. back = snapshots[1]
    BY <1>3, <1>5, BackIsSnapshot
  <2>2. back \in Database /\ DatabaseOK(back)
    <3>1. n \in 1 .. n /\ Len(snapshots) = n
      BY <1>0, <1>5 DEF TypeOK
    <3>2. snapshots[n] \in Database /\ DatabaseOK(snapshots[n])
      BY <1>0, <3>1 DEF TypeOK, LevelsOK
    <3> QED BY <1>5, <2>1, <3>2
  <2>3. back = [objects |-> back.objects, next_id |-> back.next_id]
    BY <2>2 DEF Database
  <2>4. Current' = back
    BY <1>1, <2>3 DEF Current
  <2>5. stack' = <<EmptyState>> /\ snapshots' = <<back>>
    BY <1>1, <1>5
  <2>6. EmptyState \in UndoState /\ LevelOK(back, back, EmptyState)
    BY <2>2, EmptyLevel
  <2> HIDE DEF back
  <2>7. TypeOK'
    <3>1. objects' \in ObjectMap /\ next_id' \in NextIds
      BY <2>2, <2>4 DEF Current, Database
    <3>2. stack' \in Seq(UndoState) /\ snapshots' \in Seq(Database)
      BY <2>2, <2>5, <2>6
    <3>3. active_sessions' \in 0 .. MaxNested /\ max_size' \in MaxSizes
      BY <1>0, <1>1, <1>2 DEF TypeOK
    <3> QED BY <2>5, <3>1, <3>2, <3>3 DEF TypeOK
  <2>8. OpenSessionsKeepState'
    BY <1>1, <1>2, <1>5, <2>5 DEF OpenSessionsKeepState
  <2>9. LevelsOK'
    BY <2>2, <2>4, <2>5, <2>6 DEF LevelsOK, After
  <2> QED BY <2>2, <2>4, <2>7, <2>8, <2>9 DEF Inv
<1> QED BY <1>4, <1>5

(* pop_commit() keeps the invariant.                                       *)
LEMMA PopCommitPreserves ==
    ASSUME Inv, PopCommit
    PROVE  Inv'
<1>0. Len(stack) \in Nat /\ active_sessions' = 0 /\ 0 \in 0 .. MaxNested
  BY NestingAssumption DEF Inv, TypeOK, PopCommit
<1>1. Len(stack) >= 1
  BY <1>0 DEF PopCommit, Inv, TypeOK
<1> QED BY <1>0, <1>1, BackPreserves DEF PopCommit

(* merge() keeps it: the merged state spans both states.                   *)
LEMMA MergePreserves ==
    ASSUME Inv, Merge
    PROVE  Inv'
<1> DEFINE n == Len(stack)
           m == Merged(stack[n - 1], stack[n])
<1>0. TypeOK /\ Current \in Database /\ OpenSessionsKeepState /\ LevelsOK
  BY CurrentType DEF Inv
<1>1. /\ active_sessions > 0
      /\ n >= 2
      /\ stack' = [Front(stack) EXCEPT ![n - 1] = m]
      /\ snapshots' = Front(snapshots)
      /\ active_sessions' = active_sessions - 1
      /\ UNCHANGED <<objects, next_id, max_size>>
      /\ Current' = Current
  BY DEF Merge, Current
<1>2. n \in Nat /\ Len(snapshots) = n /\ active_sessions \in 0 .. MaxNested /\ MaxNested \in Nat
  BY <1>0, NestingAssumption DEF TypeOK
<1>3. /\ DatabaseOK(snapshots[n - 1])
      /\ DatabaseOK(snapshots[n])
      /\ LevelOK(snapshots[n - 1], snapshots[n], stack[n - 1])
      /\ LevelOK(snapshots[n], Current, stack[n])
  <2>1. n - 1 \in 1 .. n /\ n \in 1 .. n /\ n - 1 # n /\ (n - 1) + 1 = n
    BY <1>1, <1>2
  <2>2. After(n - 1) = snapshots[n] /\ After(n) = Current
    BY <2>1 DEF After
  <2> QED BY <1>0, <2>1, <2>2 DEF LevelsOK
<1>4. /\ snapshots[n - 1] \in Database
      /\ snapshots[n] \in Database
      /\ stack[n - 1] \in UndoState
      /\ stack[n] \in UndoState
  BY <1>0, <1>1, <1>2 DEF TypeOK
<1>5. m \in UndoState /\ LevelOK(snapshots[n - 1], Current, m)
  BY <1>0, <1>3, <1>4, MergedLevel
<1> HIDE DEF m
<1>6. /\ Front(stack) \in Seq(UndoState)
      /\ Len(Front(stack)) = n - 1
      /\ \A k \in 1 .. n - 1 : Front(stack)[k] = stack[k]
  BY <1>0, <1>1, <1>2 DEF TypeOK, Front
<1>7. /\ stack' \in Seq(UndoState)
      /\ Len(stack') = n - 1
      /\ stack'[n - 1] = m
      /\ \A k \in 1 .. n - 2 : stack'[k] = stack[k]
  BY <1>1, <1>2, <1>5, <1>6
<1>8. /\ snapshots' \in Seq(Database)
      /\ Len(snapshots') = n - 1
      /\ \A k \in 1 .. n - 1 : snapshots'[k] = snapshots[k]
  BY <1>0, <1>1, <1>2 DEF TypeOK, Front
<1>9. TypeOK'
  BY <1>0, <1>1, <1>2, <1>7, <1>8 DEF TypeOK
<1>10. OpenSessionsKeepState'
  BY <1>0, <1>1, <1>2, <1>7 DEF OpenSessionsKeepState
<1>11. ASSUME NEW k \in 1 .. n - 1
       PROVE  DatabaseOK(snapshots'[k]) /\ LevelOK(snapshots'[k], After(k)', stack'[k])
  <2>1. CASE k = n - 1
    <3>1. After(k)' = Current
      BY <1>1, <1>7, <2>1 DEF After
    <3> QED BY <1>3, <1>5, <1>7, <1>8, <2>1, <3>1
  <2>2. CASE k # n - 1
    <3>1. k \in 1 .. n - 2 /\ k \in 1 .. n /\ k + 1 \in 1 .. n - 1 /\ k # n
      BY <1>1, <1>2, <2>2
    <3>2. After(k)' = snapshots[k + 1]
      BY <1>7, <1>8, <2>2, <3>1 DEF After
    <3>3. After(k) = snapshots[k + 1]
      BY <3>1 DEF After
    <3> QED BY <1>0, <1>7, <1>8, <3>1, <3>2, <3>3 DEF LevelsOK
  <2> QED BY <2>1, <2>2
<1>12. LevelsOK'
  BY <1>7, <1>11 DEF LevelsOK
<1> QED BY <1>1, <1>9, <1>10, <1>12 DEF Inv

-----------------------------------------------------------------------------
(* The inductive invariant: each recorded state relates the database at    *)
(* the moment its session was opened to the database after it.             *)
THEOREM Invariance == Spec => []Inv
<1>1. Init => Inv
  <2> SUFFICES ASSUME Init PROVE Inv
    OBVIOUS
  <2>1. TypeOK
    BY NestingAssumption DEF Init, TypeOK, ObjectMap, MaybeObject, NextIds
  <2>2. OpenSessionsKeepState
    BY DEF Init, OpenSessionsKeepState
  <2>3. DatabaseOK(Current)
    BY DEF Init, DatabaseOK, Current, SameKey
  <2>4. LevelsOK
    BY DEF Init, LevelsOK
  <2> QED BY <2>1, <2>2, <2>3, <2>4 DEF Inv
<1>2. Inv /\ [Next]_vars => Inv'
  <2> SUFFICES ASSUME Inv, [Next]_vars PROVE Inv'
    OBVIOUS
  <2>1. CASE \E i \in Indexes, key \in Keys, payload \in Payloads : Create(i, key, payload)
    BY <2>1, CreatePreserves
  <2>2. CASE \E id \in ObjectIds, payload \in Payloads : Modify(id, payload)
    BY <2>2, ModifyPreserves
  <2>3. CASE \E id \in ObjectIds : Remove(id)
    BY <2>3, RemovePreserves
  <2>4. CASE StartUndoSession
    BY <2>4, StartPreserves
  <2>5. CASE Undo
    BY <2>5, UndoPreserves
  <2>6. CASE Merge
    BY <2>6, MergePreserves
  <2>7. CASE PopCommit
    BY <2>7, PopCommitPreserves
  <2>8. CASE Commit
    <3>1. /\ Current' = Current
          /\ UNCHANGED <<objects, next_id, stack, max_size, snapshots>>
          /\ active_sessions' = 0
      BY <2>8 DEF Commit, Current
    <3>2. TypeOK'
      BY <3>1, NestingAssumption DEF Inv, TypeOK
    <3>3. OpenSessionsKeepState'
      BY <3>1 DEF Inv, TypeOK, OpenSessionsKeepState
    <3>4. LevelsOK'
      BY <3>1 DEF Inv, LevelsOK, After
    <3> QED BY <3>1, <3>2, <3>3, <3>4 DEF Inv
  <2>9. CASE \E k \in MaxSizes : SetMaxSize(k)
    <3>1. /\ Current' = Current
          /\ UNCHANGED <<objects, next_id, stack, active_sessions, snapshots>>
          /\ max_size' \in MaxSizes
      BY <2>9 DEF SetMaxSize, Current
    <3>2. TypeOK'
      BY <3>1 DEF Inv, TypeOK
    <3>3. OpenSessionsKeepState'
      BY <3>1 DEF Inv, OpenSessionsKeepState
    <3>4. LevelsOK'
      BY <3>1 DEF Inv, LevelsOK, After
    <3> QED BY <3>1, <3>2, <3>3, <3>4 DEF Inv
  <2>10. CASE UNCHANGED vars
    BY <2>10 DEF vars, Inv, TypeOK, OpenSessionsKeepState, LevelsOK, After, Current
  <2> QED BY <2>1, <2>2, <2>3, <2>4, <2>5, <2>6, <2>7, <2>8, <2>9, <2>10 DEF Next
<1> QED BY <1>1, <1>2, PTL DEF Spec

(* The variables of undo_database keep their types.                        *)
THEOREM TypeCorrect == Spec => []TypeOK
<1>1. Inv => TypeOK
  BY DEF Inv
<1> QED BY <1>1, Invariance, PTL

(* undo() and pop_commit() bring back exactly the database of the moment   *)
(* the session was opened, whatever was created, modified, removed and     *)
(* merged since.                                                           *)
THEOREM UndoIsExact == Spec => []UndoRestoresSnapshot
<1>1. Inv => UndoRestoresSnapshot
  <2> SUFFICES ASSUME Inv, NEW k \in 1 .. Len(stack)
               PROVE  Restored(After(k), stack[k]) = snapshots[k]
    BY DEF UndoRestoresSnapshot
  <2>1. TypeOK /\ Current \in Database /\ LevelOK(snapshots[k], After(k), stack[k])
    BY CurrentType DEF Inv, LevelsOK
  <2>2. snapshots[k] \in Database /\ stack[k] \in UndoState /\ After(k) \in Database
    BY <2>1 DEF TypeOK, After
  <2> QED BY <2>1, <2>2, RestoredIsBase
<1> QED BY <1>1, Invariance, PTL

(* undo() and pop_commit() never stop half way on an assertion.            *)
THEOREM UndoCompletes == Spec => []UndoCannotThrow
<1>1. Inv => UndoCannotThrow
  <2> SUFFICES ASSUME Inv, NEW k \in 1 .. Len(stack)
               PROVE  RestoreCannotThrow(After(k), stack[k])
    BY DEF UndoCannotThrow
  <2>1. /\ TypeOK
        /\ Current \in Database
        /\ DatabaseOK(Current)
        /\ DatabaseOK(snapshots[k])
        /\ LevelOK(snapshots[k], After(k), stack[k])
    BY CurrentType DEF Inv, LevelsOK
  <2>2. snapshots[k] \in Database /\ stack[k] \in UndoState
    BY <2>1 DEF TypeOK
  <2>3. After(k) \in Database /\ DatabaseOK(After(k))
    <3>1. CASE k = Len(stack)
      BY <2>1, <3>1 DEF After
    <3>2. CASE k # Len(stack)
      <4>1. k + 1 \in 1 .. Len(stack) /\ k + 1 \in 1 .. Len(snapshots)
        BY <2>1, <3>2 DEF TypeOK
      <4>2. snapshots[k + 1] \in Database /\ DatabaseOK(snapshots[k + 1])
        BY <2>1, <4>1 DEF TypeOK, Inv, LevelsOK
      <4> QED BY <3>2, <4>2 DEF After
    <3> QED BY <3>1, <3>2
  <2> QED BY <2>1, <2>2, <2>3, LevelCannotThrow
<1> QED BY <1>1, Invariance, PTL

(* An open session never loses its state to the trimming of the history.   *)
THEOREM OpenSessionsSafe == Spec => []OpenSessionsKeepState
<1>1. Inv => OpenSessionsKeepState
  BY DEF Inv
<1> QED BY <1>1, Invariance, PTL

(* No index ever holds two objects with one unique key.                    *)
THEOREM KeysStayUnique == Spec => []UniqueKeys
<1>1. Inv => UniqueKeys
  BY DEF Inv, DatabaseOK, Current, UniqueKeys
<1> QED BY <1>1, Invariance, PTL

-----------------------------------------------------------------------------
(* Refinement: every step of the differences is a step of the snapshots.   *)

(* A recorded change is a Change of the snapshot stack.                    *)
LEMMA ChangeRefines ==
    ASSUME Inv, NEW t, objects' \in ObjectMap, next_id' \in NextIds, Record(t),
           UNCHANGED active_sessions
    PROVE  Abstract!Change
<1>1. TypeOK
  BY DEF Inv
<1>2. Current' \in Database
  BY DEF Current, Database
<1>3. (stack = << >>) <=> (snapshots = << >>)
  BY <1>1 DEF TypeOK
<1> QED BY <1>2, <1>3 DEF Abstract!Change, Record

(* The per-session differences implement the stack of complete copies that *)
(* push_block, pop_block and the pending transactions rely on.             *)
THEOREM RefinesSnapshots == Spec => AbstractSpec
<1>1. Init => Abstract!Init
  <2> SUFFICES ASSUME Init PROVE Abstract!Init
    OBVIOUS
  <2>1. Current \in Database
    BY DEF Init, Current, Database, ObjectMap, MaybeObject, NextIds
  <2> QED BY <2>1 DEF Init, Abstract!Init
<1>2. Inv /\ Inv' /\ [Next]_vars => [Abstract!Next]_Abstract!vars
  <2> SUFFICES ASSUME Inv, Inv', [Next]_vars PROVE [Abstract!Next]_Abstract!vars
    OBVIOUS
  <2>0. /\ TypeOK
        /\ OpenSessionsKeepState
        /\ objects' \in ObjectMap
        /\ next_id' \in NextIds
        /\ Current' \in Database
    BY DEF Inv, TypeOK, Current, Database
  <2>1. CASE \E i \in Indexes, key \in Keys, payload \in Payloads : Create(i, key, payload)
    BY <2>0, <2>1, ChangeRefines DEF Create, Abstract!Next
  <2>2. CASE \E id \in ObjectIds, payload \in Payloads : Modify(id, payload)
    BY <2>0, <2>2, ChangeRefines DEF Modify, Abstract!Next
  <2>3. CASE \E id \in ObjectIds : Remove(id)
    BY <2>0, <2>3, ChangeRefines DEF Remove, Abstract!Next
  <2>4. CASE StartUndoSession
    <3> DEFINE n == Len(snapshots)
               k == IF n > max_size THEN n - max_size ELSE 0
    <3>1. n \in Nat /\ max_size \in Nat /\ active_sessions \in Nat /\ n >= active_sessions
      BY <2>0, NestingAssumption DEF TypeOK, OpenSessionsKeepState
    <3>2. active_sessions < MaxNested /\ MaxNested \in Nat /\ MaxNested <= max_size + 1
      BY <2>0, <2>4, NestingAssumption DEF StartUndoSession, TypeOK
    <3>3. k \in 0 .. n /\ n - k >= active_sessions
      BY <3>1, <3>2
    <3>4. Trimmed(snapshots) = SubSeq(snapshots, k + 1, n)
      <4>1. CASE n > max_size
        BY <3>1, <4>1 DEF Trimmed
      <4>2. CASE ~(n > max_size)
        <5>1. SubSeq(snapshots, 1, Len(snapshots)) = snapshots
          BY <2>0 DEF TypeOK
        <5> QED BY <3>1, <4>2, <5>1 DEF Trimmed
      <4> QED BY <4>1, <4>2
    <3>5. /\ snapshots' = Append(SubSeq(snapshots, k + 1, n), Current)
          /\ active_sessions' = active_sessions + 1
          /\ Current' = Current
      BY <2>4, <3>4 DEF StartUndoSession, Current
    <3> HIDE DEF k
    <3>6. Abstract!Start
      BY <3>2, <3>3, <3>5 DEF Abstract!Start
    <3> QED BY <3>6 DEF Abstract!Next
  <2>5. CASE Undo
    <3> DEFINE back == Restored(Current, Top(stack))
    <3>1. stack # << >> /\ Len(snapshots) = Len(stack)
      BY <2>0, <2>5 DEF Undo, TypeOK, OpenSessionsKeepState
    <3>2. back = snapshots[Len(snapshots)]
      BY <3>1, BackIsSnapshot
    <3>3. Current' = back
      <4>1. back = [objects |-> back.objects, next_id |-> back.next_id]
        BY DEF Restored
      <4> QED BY <2>5, <4>1 DEF Undo, Current
    <3>4. Abstract!Undo
      BY <2>5, <3>1, <3>2, <3>3 DEF Undo, Abstract!Undo, Front, Abstract!Front
    <3> QED BY <3>4 DEF Abstract!Next
  <2>6. CASE Merge
    <3>1. Len(snapshots) = Len(stack) /\ Current' = Current
      BY <2>0, <2>6 DEF Merge, TypeOK, Current
    <3>2. Abstract!Merge
      BY <2>6, <3>1 DEF Merge, Abstract!Merge, Front, Abstract!Front
    <3> QED BY <3>2 DEF Abstract!Next
  <2>7. CASE Commit
    <3>1. Abstract!Commit
      BY <2>7 DEF Commit, Abstract!Commit, Current
    <3> QED BY <3>1 DEF Abstract!Next
  <2>8. CASE PopCommit
    <3> DEFINE back == Restored(Current, Top(stack))
    <3>1. stack # << >> /\ Len(snapshots) = Len(stack) /\ snapshots # << >>
      BY <2>0, <2>8 DEF PopCommit, TypeOK
    <3>2. back = snapshots[Len(snapshots)]
      BY <3>1, BackIsSnapshot
    <3>3. Current' = back
      <4>1. back = [objects |-> back.objects, next_id |-> back.next_id]
        BY DEF Restored
      <4> QED BY <2>8, <4>1 DEF PopCommit, Current
    <3>4. Abstract!PopCommit
      BY <2>8, <3>1, <3>2, <3>3 DEF PopCommit, Abstract!PopCommit, Front, Abstract!Front
    <3> QED BY <3>4 DEF Abstract!Next
  <2>9. CASE \E k \in MaxSizes : SetMaxSize(k)
    BY <2>9 DEF SetMaxSize, Current, Abstract!vars
  <2>10. CASE UNCHANGED vars
    BY <2>10 DEF vars, Current, Abstract!vars
  <2> QED BY <2>1, <2>2, <2>3, <2>4, <2>5, <2>6, <2>7, <2>8, <2>9, <2>10 DEF Next
<1> QED BY <1>1, <1>2, Invariance, PTL DEF Spec, AbstractSpec, Abstract!Spec
=============================================================================
