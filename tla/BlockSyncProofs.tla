-------------------------- MODULE BlockSyncProofs --------------------------
(***************************************************************************)
(* For any network, any tree of blocks, any limits, any mining, loss of    *)
(* connections and order of the messages and of the chain's answers.       *)
(***************************************************************************)
EXTENDS BlockSync, SumTheorems, TLAPS

-----------------------------------------------------------------------------
(* The tree of the blocks.                                                 *)

LEMMA Numbers ==
  /\ \A b \in BlockIds : Num[b] \in Nat
  /\ \A b \in Blocks : /\ b # None /\ b \in BlockIds /\ Parent[b] \in BlockIds
                       /\ Num[b] = Num[Parent[b]] + 1 /\ Num[b] > 0
  /\ Num[None] = 0 /\ None \in BlockIds
  /\ \A b \in BlockIds : b # None => b \in Blocks
<1>1. \A b \in BlockIds : Num[b] \in Nat
  BY TreeAssumption DEF BlockIds
<1>2. \A b \in Blocks : /\ b # None /\ b \in BlockIds /\ Parent[b] \in BlockIds
                        /\ Num[b] = Num[Parent[b]] + 1
  BY TreeAssumption DEF BlockIds
<1>3. \A b \in Blocks : Num[b] > 0
  BY <1>1, <1>2
<1> QED
  BY <1>1, <1>2, <1>3, TreeAssumption DEF BlockIds

LEMMA Paths ==
  /\ Ids(Blocks, None) = BlockIds /\ IsTree(Blocks, None, Parent, Num)
  /\ IsPaths(Blocks, None, Parent, PathTo) /\ \A b : PathSet(PathTo, b) = OnPath(b)
<1>1. Ids(Blocks, None) = BlockIds /\ \A b : PathSet(PathTo, b) = OnPath(b)
  BY DEF Ids, BlockIds, PathSet, OnPath
<1>2. IsTree(Blocks, None, Parent, Num)
  BY TreeAssumption DEF IsTree, Ids
<1>3. PICK f : f = [b \in BlockIds |-> IF b = None THEN << >> ELSE Append(f[Parent[b]], b)]
  BY <1>1, <1>2, PathsDefined DEF IsPaths
<1>4. PathTo = [b \in BlockIds |-> IF b = None THEN << >> ELSE Append(PathTo[Parent[b]], b)]
  BY <1>3, Zenon DEF PathTo
<1> QED
  BY <1>1, <1>2, <1>4 DEF IsPaths

LEMMA PathType == \A b \in BlockIds : PathTo[b] \in Seq(Blocks) /\ Len(PathTo[b]) = Num[b]
<1>1. \A b \in Ids(Blocks, None) : PathTo[b] \in Seq(Blocks) /\ Len(PathTo[b]) = Num[b]
  BY Paths, PathsType
<1> QED
  BY <1>1, Paths

\* The path to a block is the path to its parent and the block.
LEMMA PathStep ==
  ASSUME NEW b \in Blocks
  PROVE  /\ PathTo[b][Num[b]] = b
         /\ \A n \in 1 .. Num[Parent[b]] : PathTo[b][n] = PathTo[Parent[b]][n]
         /\ OnPath(b) = OnPath(Parent[b]) \cup {b}
<1>1. /\ PathTo[b][Num[b]] = b
      /\ \A n \in 1 .. Num[Parent[b]] : PathTo[b][n] = PathTo[Parent[b]][n]
      /\ PathSet(PathTo, b) = PathSet(PathTo, Parent[b]) \cup {b}
  BY Paths, PathsStep
<1> QED
  BY <1>1, Paths

LEMMA PathNone == PathTo[None] = << >> /\ OnPath(None) = {}
<1>1. PathTo[None] = << >>
  BY Paths, PathsAt
<1> QED
  BY <1>1 DEF OnPath

\* The parts of a path: numbers, blocks and the links between them.
Chained(ids) == \A i \in 1 .. (Len(ids) - 1) : Parent[ids[i + 1]] = ids[i]

LEMMA PathParts ==
  \A b \in BlockIds :
    /\ Chained(PathTo[b])
    /\ \A i \in 1 .. Num[b] : PathTo[b][i] \in Blocks /\ Num[PathTo[b][i]] = i
    /\ OnPath(b) \subseteq Blocks
    /\ \A c \in OnPath(b) : OnPath(c) \subseteq OnPath(b)
    /\ \A c \in OnPath(b) : Num[c] \in 1 .. Num[b]
<1> DEFINE Ok(b) == /\ Chained(PathTo[b])
                    /\ \A i \in 1 .. Num[b] : Num[PathTo[b][i]] = i
                    /\ \A c \in OnPath(b) : OnPath(c) \subseteq OnPath(b)
           T == {k \in Nat : \A b \in BlockIds : Num[b] = k => Ok(b)}
<1>1. ASSUME NEW k \in Nat, \A m \in Nat : m < k => m \in T
      PROVE  k \in T
  <2> SUFFICES ASSUME NEW b \in BlockIds, Num[b] = k PROVE Ok(b)
    OBVIOUS
  <2>1. CASE b = None
    <3>1. PathTo[b] = << >> /\ OnPath(b) = {} /\ Num[b] = 0
      BY <2>1, PathNone, Numbers
    <3>2. Len(PathTo[b]) = 0
      BY <3>1
    <3> QED
      BY <3>1, <3>2 DEF Chained
  <2>2. CASE b # None
    <3> DEFINE p == Parent[b]
               n == Num[p]
    <3>1. b \in Blocks /\ p \in BlockIds /\ n \in Nat /\ Num[b] = n + 1
      BY <2>2, Numbers
    <3>2. Ok(p)
      BY <1>1, <3>1
    <3>3. /\ PathTo[b][n + 1] = b /\ \A i \in 1 .. n : PathTo[b][i] = PathTo[p][i]
          /\ OnPath(b) = OnPath(p) \cup {b}
      BY <3>1, PathStep
    <3>4. Len(PathTo[b]) = n + 1 /\ Len(PathTo[p]) = n
      BY <3>1, PathType
    <3>5. n > 0 => PathTo[p][n] = p
      <4>1. ASSUME n > 0 PROVE p \in Blocks
        BY <3>1, <4>1, Numbers
      <4> QED
        BY <4>1, PathStep
    <3> HIDE DEF p, n
    <3>6. Chained(PathTo[b])
      <4> SUFFICES ASSUME NEW i \in 1 .. n PROVE Parent[PathTo[b][i + 1]] = PathTo[b][i]
        BY <3>1, <3>4 DEF Chained
      <4>1. CASE i = n
        <5>1. PathTo[b][i] = p
          BY <3>1, <3>3, <3>5, <4>1
        <5> QED
          BY <3>1, <3>3, <4>1, <5>1 DEF p
      <4>2. CASE i \in 1 .. (n - 1)
        <5>1. i + 1 \in 1 .. n
          BY <3>1, <4>2
        <5>2. PathTo[b][i] = PathTo[p][i] /\ PathTo[b][i + 1] = PathTo[p][i + 1]
          BY <3>3, <5>1
        <5>3. Parent[PathTo[p][i + 1]] = PathTo[p][i]
          BY <3>2, <3>4, <4>2 DEF Chained
        <5> QED
          BY <5>2, <5>3
      <4> QED
        BY <3>1, <4>1, <4>2
    <3>7. ASSUME NEW i \in 1 .. Num[b] PROVE Num[PathTo[b][i]] = i
      <4>1. CASE i = n + 1
        BY <3>1, <3>3, <4>1
      <4>2. CASE i \in 1 .. n
        BY <3>2, <3>3, <4>2 DEF n
      <4> QED
        BY <3>1, <4>1, <4>2
    <3>8. \A c \in OnPath(b) : OnPath(c) \subseteq OnPath(b)
      BY <3>2, <3>3
    <3> QED
      BY <3>6, <3>7, <3>8
  <2> QED
    BY <2>1, <2>2
<1> HIDE DEF T, Ok
<1>2. Nat \subseteq T
  BY <1>1, NatSetInduction
<1>3. ASSUME NEW b \in BlockIds PROVE Ok(b)
  <2>1. Num[b] \in Nat
    BY Numbers
  <2> QED
    BY <1>2, <2>1 DEF T
<1>4. ASSUME NEW b \in BlockIds
      PROVE  /\ \A i \in 1 .. Num[b] : PathTo[b][i] \in Blocks
             /\ OnPath(b) \subseteq Blocks
             /\ \A c \in OnPath(b) : Num[c] \in 1 .. Num[b]
  <2>1. PathTo[b] \in Seq(Blocks) /\ Len(PathTo[b]) = Num[b]
    BY PathType
  <2>2. \A i \in 1 .. Num[b] : PathTo[b][i] \in Blocks
    BY <2>1
  <2>3. OnPath(b) = {PathTo[b][i] : i \in 1 .. Num[b]}
    BY <2>1 DEF OnPath
  <2>4. \A i \in 1 .. Num[b] : Num[PathTo[b][i]] = i
    BY <1>3 DEF Ok
  <2> QED
    BY <2>2, <2>3, <2>4
<1> QED
  BY <1>3, <1>4 DEF Ok


-----------------------------------------------------------------------------
(* Numbers and sequences.                                                  *)

LEMMA MaxNat ==
  ASSUME NEW N \in Nat, NEW S, S \subseteq 0 .. N, S # {}
  PROVE  Max(S) \in S /\ \A y \in S : y <= Max(S)
<1> DEFINE T == {N - x : x \in S}
<1>0. \A x \in S : x \in Nat /\ N - x \in Nat
  OBVIOUS
<1>1. T \subseteq Nat /\ T # {}
  BY <1>0
<1> HIDE DEF T
<1>2. PICK t \in T : \A u \in T : t <= u
  BY <1>1, LeastNat
<1>3. PICK x \in S : t = N - x
  BY DEF T
<1>4. ASSUME NEW y \in S PROVE x >= y
  <2>1. N - y \in T
    BY DEF T
  <2>2. N - x <= N - y
    BY <1>2, <1>3, <2>1
  <2>3. x \in Nat /\ y \in Nat
    OBVIOUS
  <2> QED
    BY <2>2, <2>3
<1>5. \E z \in S : \A y \in S : z >= y
  BY <1>4
<1>6. Max(S) \in S /\ \A y \in S : Max(S) >= y
  BY <1>5, Zenon DEF Max
<1>7. ASSUME NEW y \in S PROVE y <= Max(S)
  <2>1. Max(S) >= y /\ Max(S) \in Nat /\ y \in Nat
    BY <1>0, <1>6
  <2> QED
    BY <2>1
<1> QED
  BY <1>6, <1>7

LEMMA MinNat ==
  ASSUME NEW S, S \subseteq Nat, S # {}
  PROVE  Min(S) \in S
<1>1. \E x \in S : \A y \in S : x <= y
  BY LeastNat
<1> QED
  BY <1>1, Zenon DEF Min

LEMMA TailFacts ==
  ASSUME NEW S, NEW u \in Seq(S), u # << >>
  PROVE  /\ u[1] \in S /\ Head(u) = u[1] /\ Len(u) \in Nat /\ Len(u) > 0
         /\ Tail(u) \in Seq(S) /\ Len(Tail(u)) = Len(u) - 1
         /\ \A i \in 1 .. (Len(u) - 1) : Tail(u)[i] = u[i + 1]
         /\ DOMAIN u = 1 .. Len(u) /\ DOMAIN Tail(u) = 1 .. (Len(u) - 1)
OBVIOUS

LEMMA SubSeqFacts ==
  ASSUME NEW S, NEW u \in Seq(S), NEW m \in Int, NEW n \in Int, m >= 1, n <= Len(u)
  PROVE  /\ SubSeq(u, m, n) \in Seq(S)
         /\ Len(SubSeq(u, m, n)) = IF m <= n THEN n - m + 1 ELSE 0
         /\ \A i \in 1 .. (n - m + 1) : SubSeq(u, m, n)[i] = u[i + m - 1]
<1> DEFINE v == SubSeq(u, m, n)
<1>0. Len(u) \in Nat /\ \A i \in 1 .. Len(u) : u[i] \in S
  OBVIOUS
<1>1. v = [i \in 1 .. (n - m + 1) |-> u[i + m - 1]]
  OBVIOUS
<1> HIDE DEF v
<1>2. CASE m <= n
  <2> DEFINE k == n - m + 1
  <2>1. k \in Nat /\ k = n - m + 1
    BY <1>2
  <2>2. \A i \in 1 .. k : u[i + m - 1] \in S
    <3> SUFFICES ASSUME NEW i \in 1 .. k PROVE u[i + m - 1] \in S
      OBVIOUS
    <3>1. i + m - 1 \in 1 .. Len(u)
      BY <1>0, <2>1
    <3> QED
      BY <1>0, <3>1
  <2>3. v = [i \in 1 .. k |-> u[i + m - 1]]
    BY <1>1
  <2> HIDE DEF k
  <2>4. v \in Seq(S) /\ Len(v) = k
    BY <2>1, <2>2, <2>3
  <2>5. \A i \in 1 .. k : v[i] = u[i + m - 1]
    BY <2>3
  <2> QED
    BY <1>2, <2>4, <2>5 DEF v, k
<1>3. CASE ~(m <= n)
  <2>1. 1 .. (n - m + 1) = {}
    BY <1>3
  <2>2. << >> = [i \in 1 .. (n - m + 1) |-> u[i + m - 1]]
    BY <2>1
  <2>3. << >> \in Seq(S) /\ Len(<< >>) = 0
    OBVIOUS
  <2> QED
    BY <1>1, <1>3, <2>1, <2>2, <2>3 DEF v
<1> QED
  BY <1>2, <1>3

LEMMA ConcatFacts ==
  ASSUME NEW S, NEW u \in Seq(S), NEW v \in Seq(S)
  PROVE  /\ u \o v \in Seq(S) /\ Len(u \o v) = Len(u) + Len(v)
         /\ Len(u) \in Nat /\ Len(v) \in Nat
         /\ \A i \in 1 .. Len(u) : (u \o v)[i] = u[i]
         /\ \A i \in 1 .. Len(v) : (u \o v)[Len(u) + i] = v[i]
<1>1. u \o v \in Seq(S) /\ Len(u \o v) = Len(u) + Len(v) /\ Len(u) \in Nat /\ Len(v) \in Nat
  OBVIOUS
<1>2. \A i \in 1 .. Len(u) : (u \o v)[i] = u[i]
  OBVIOUS
<1>3. ASSUME NEW i \in 1 .. Len(v) PROVE (u \o v)[Len(u) + i] = v[i]
  OBVIOUS
<1> QED
  BY <1>1, <1>2, <1>3

LEMMA AppendFacts ==
  ASSUME NEW S, NEW u \in Seq(S), NEW x \in S
  PROVE  /\ Append(u, x) \in Seq(S) /\ Len(Append(u, x)) = Len(u) + 1 /\ Len(u) \in Nat
         /\ Append(u, x)[Len(u) + 1] = x /\ Append(u, x) # << >>
         /\ \A i \in 1 .. Len(u) : Append(u, x)[i] = u[i]
OBVIOUS

LEMMA RangeOf ==
  ASSUME NEW S, NEW u \in Seq(S)
  PROVE  /\ Range(u) \subseteq S /\ Len(u) \in Nat /\ DOMAIN u = 1 .. Len(u)
         /\ \A i \in 1 .. Len(u) : u[i] \in Range(u)
         /\ \A x \in Range(u) : \E i \in 1 .. Len(u) : u[i] = x
BY DEF Range

-----------------------------------------------------------------------------
(* KeepIn is defined, and selects.                                         *)

KeepStep(g, seq, S, i) ==
  IF i = 0 THEN << >>
  ELSE IF seq[i] \in S THEN Append(g[i - 1], seq[i]) ELSE g[i - 1]

Kept(seq, S, n) == CHOOSE g : g = [i \in 0 .. n |-> KeepStep(g, seq, S, i)]

LEMMA KeepDefined ==
  ASSUME NEW seq, NEW S, NEW N \in Nat
  PROVE  \A i \in 0 .. N : Kept(seq, S, N)[i] = KeepStep(Kept(seq, S, N), seq, S, i)
<1> DEFINE T == {n \in Nat : \E g : g = [i \in 0 .. n |-> KeepStep(g, seq, S, i)]}
<1>1. ASSUME NEW n \in Nat, \A m \in Nat : m < n => m \in T
      PROVE  n \in T
  <2>1. CASE n = 0
    <3> DEFINE g == [i \in 0 .. n |-> << >>]
    <3>1. \A i \in 0 .. n : KeepStep(g, seq, S, i) = << >>
      BY <2>1 DEF KeepStep
    <3>2. g = [i \in 0 .. n |-> KeepStep(g, seq, S, i)]
      BY <3>1
    <3> QED
      BY <3>2, Zenon
  <2>2. CASE n > 0
    <3>1. n - 1 \in Nat /\ n - 1 < n
      BY <2>2
    <3>2. PICK g : g = [i \in 0 .. (n - 1) |-> KeepStep(g, seq, S, i)]
      BY <1>1, <3>1, Zenon
    <3> DEFINE h == [i \in 0 .. n |-> KeepStep(g, seq, S, i)]
    <3>3. ASSUME NEW i \in 0 .. n PROVE KeepStep(h, seq, S, i) = KeepStep(g, seq, S, i)
      <4>1. CASE i = 0
        BY <4>1 DEF KeepStep
      <4>2. CASE i # 0
        <5>1. i - 1 \in 0 .. n /\ i - 1 \in 0 .. (n - 1)
          BY <4>2
        <5>2. h[i - 1] = KeepStep(g, seq, S, i - 1)
          BY <5>1
        <5>3. g[i - 1] = KeepStep(g, seq, S, i - 1)
          BY <3>2, <5>1
        <5>4. h[i - 1] = g[i - 1]
          BY <5>2, <5>3
        <5> HIDE DEF h
        <5> QED
          BY <5>4 DEF KeepStep
      <4> QED
        BY <4>1, <4>2
    <3>4. h = [i \in 0 .. n |-> KeepStep(h, seq, S, i)]
      BY <3>3
    <3> QED
      BY <3>4, Zenon
  <2> QED
    BY <2>1, <2>2
<1> HIDE DEF T
<1>2. Nat \subseteq T
  BY <1>1, NatSetInduction
<1>3. \E g : g = [i \in 0 .. N |-> KeepStep(g, seq, S, i)]
  BY <1>2 DEF T
<1> DEFINE g == Kept(seq, S, N)
<1>4. g = [i \in 0 .. N |-> KeepStep(g, seq, S, i)]
  BY <1>3, Zenon DEF Kept
<1> HIDE DEF g
<1>5. \A i \in 0 .. N : g[i] = KeepStep(g, seq, S, i)
  BY <1>4
<1> QED
  BY <1>5 DEF g

LEMMA KeepFacts ==
  ASSUME NEW D, NEW seq \in Seq(D), NEW S
  PROVE  /\ KeepIn(seq, S) \in Seq(D \cap S)
         /\ seq # << >> /\ seq[Len(seq)] \in S => KeepIn(seq, S) # << >>
<1> DEFINE n == Len(seq)
           kept == Kept(seq, S, n)
<1>1. n \in Nat /\ \A i \in 1 .. n : seq[i] \in D
  OBVIOUS
<1>3. KeepIn(seq, S) = kept[n]
  BY Zenon DEF KeepIn, KeepStep, Kept
<1>4. \A i \in 0 .. n : kept[i] = KeepStep(kept, seq, S, i)
  BY <1>1, KeepDefined
<1> HIDE DEF n, kept
<1> DEFINE T == {i \in Nat : i <= n => kept[i] \in Seq(D \cap S)}
<1>5. ASSUME NEW i \in Nat, \A m \in Nat : m < i => m \in T
      PROVE  i \in T
  <2> SUFFICES ASSUME i <= n PROVE kept[i] \in Seq(D \cap S)
    OBVIOUS
  <2>1. kept[i] = KeepStep(kept, seq, S, i)
    BY <1>1, <1>4
  <2>2. CASE i = 0
    BY <2>1, <2>2 DEF KeepStep
  <2>3. CASE i # 0
    <3>1. i - 1 \in Nat /\ i - 1 < i /\ i - 1 <= n /\ i \in 1 .. n
      BY <1>1, <2>3
    <3>2. kept[i - 1] \in Seq(D \cap S) /\ seq[i] \in D
      BY <1>1, <1>5, <3>1
    <3>3. CASE seq[i] \in S
      <4>1. kept[i] = Append(kept[i - 1], seq[i])
        BY <2>1, <2>3, <3>3 DEF KeepStep
      <4> QED
        BY <3>2, <3>3, <4>1
    <3>4. CASE seq[i] \notin S
      <4>1. kept[i] = kept[i - 1]
        BY <2>1, <2>3, <3>4 DEF KeepStep
      <4> QED
        BY <3>2, <4>1
    <3> QED
      BY <3>3, <3>4
  <2> QED
    BY <2>2, <2>3
<1> HIDE DEF T
<1>6. Nat \subseteq T
  BY <1>5, NatSetInduction
<1>7. \A i \in 0 .. n : kept[i] \in Seq(D \cap S)
  BY <1>1, <1>6 DEF T
<1>8. ASSUME seq # << >>, seq[n] \in S PROVE kept[n] # << >>
  <2>1. n > 0 /\ n # 0
    BY <1>8 DEF n
  <2>2. n - 1 \in 0 .. n /\ n \in 0 .. n
    BY <1>1, <2>1
  <2>3. kept[n] = Append(kept[n - 1], seq[n])
    BY <1>4, <1>8, <2>1, <2>2 DEF KeepStep
  <2>4. kept[n - 1] \in Seq(D \cap S) /\ seq[n] \in D \cap S
    BY <1>1, <1>7, <1>8, <2>1, <2>2
  <2> QED
    BY <2>3, <2>4
<1>9. n \in 0 .. n
  BY <1>1
<1> QED
  BY <1>3, <1>7, <1>8, <1>9 DEF n


-----------------------------------------------------------------------------
(* Halving is defined, stays within its limits and ends with top.          *)

Half(n, top) == n + (top - n + 2) \div 2

LEMMA HalfFacts ==
  ASSUME NEW n \in Nat, NEW top \in Nat, n <= top
  PROVE  /\ Half(n, top) \in Nat /\ Half(n, top) > n /\ Half(n, top) <= top + 1
         /\ n < top => Half(n, top) <= top
         /\ n = top => Half(n, top) = top + 1
BY DEF Half

HalvingStep(g, high, top, n) == IF n > high THEN << >> ELSE <<n>> \o g[Half(n, top)]

Halved(low, high, top) ==
  CHOOSE g : g = [n \in low .. Larger(low, top + 1) |-> HalvingStep(g, high, top, n)]

LEMMA HalvingDefined ==
  ASSUME NEW low \in Nat, NEW high \in Nat, NEW top \in Nat, high <= top,
         NEW e, e = Larger(low, top + 1)
  PROVE  \A n \in low .. e :
           Halved(low, high, top)[n] = HalvingStep(Halved(low, high, top), high, top, n)
<1>0. e \in Nat /\ low <= e /\ top + 1 <= e
  BY DEF Larger
<1> DEFINE T == {d \in Nat : low + d <= e =>
                   \E g : g = [n \in (e - d) .. e |-> HalvingStep(g, high, top, n)]}
<1>1. ASSUME NEW d \in Nat, \A m \in Nat : m < d => m \in T
      PROVE  d \in T
  <2> SUFFICES ASSUME low + d <= e
               PROVE  \E g : g = [n \in (e - d) .. e |-> HalvingStep(g, high, top, n)]
    OBVIOUS
  <2>1. CASE d = 0
    <3> DEFINE g == [n \in (e - d) .. e |-> << >>]
    <3>1. ASSUME NEW n \in (e - d) .. e PROVE HalvingStep(g, high, top, n) = << >>
      <4>1. n > high
        BY <1>0, <2>1
      <4> QED
        BY <4>1 DEF HalvingStep
    <3>2. g = [n \in (e - d) .. e |-> HalvingStep(g, high, top, n)]
      BY <3>1
    <3> QED
      BY <3>2, Zenon
  <2>2. CASE d > 0
    <3> DEFINE c == d - 1
    <3>1. c \in Nat /\ c < d /\ low + c <= e /\ d = c + 1
      BY <1>0, <2>2
    <3> HIDE DEF c
    <3>2. PICK g : g = [n \in (e - c) .. e |-> HalvingStep(g, high, top, n)]
      BY <1>1, <3>1, Zenon
    <3> DEFINE h == [n \in (e - d) .. e |-> HalvingStep(g, high, top, n)]
    <3>3. ASSUME NEW n \in (e - d) .. e
          PROVE  HalvingStep(h, high, top, n) = HalvingStep(g, high, top, n)
      <4>1. CASE n > high
        BY <4>1 DEF HalvingStep
      <4>2. CASE ~(n > high)
        <5> DEFINE k == Half(n, top)
        <5>0. n \in Nat /\ n <= top
          BY <1>0, <3>1, <4>2
        <5>1. k \in Nat /\ k > n /\ k <= top + 1
          BY <5>0, HalfFacts
        <5> HIDE DEF k
        <5>2. k \in (e - d) .. e /\ k \in (e - c) .. e
          BY <1>0, <3>1, <5>0, <5>1
        <5>3. h[k] = HalvingStep(g, high, top, k)
          BY <5>2
        <5>4. g[k] = HalvingStep(g, high, top, k)
          BY <3>2, <5>2
        <5>5. h[k] = g[k]
          BY <5>3, <5>4
        <5> HIDE DEF h
        <5> QED
          BY <4>2, <5>5 DEF HalvingStep, k
      <4> QED
        BY <4>1, <4>2
    <3>4. h = [n \in (e - d) .. e |-> HalvingStep(h, high, top, n)]
      BY <3>3
    <3> QED
      BY <3>4, Zenon
  <2> QED
    BY <2>1, <2>2
<1> HIDE DEF T
<1>2. Nat \subseteq T
  BY <1>1, NatSetInduction
<1> DEFINE d == e - low
<1>3. d \in Nat /\ low + d <= e /\ e - d = low
  BY <1>0
<1> HIDE DEF d
<1>4. \E g : g = [n \in (e - d) .. e |-> HalvingStep(g, high, top, n)]
  BY <1>2, <1>3 DEF T
<1>5. \E g : g = [n \in low .. Larger(low, top + 1) |-> HalvingStep(g, high, top, n)]
  BY <1>3, <1>4
<1> DEFINE g == Halved(low, high, top)
<1>6. g = [n \in low .. Larger(low, top + 1) |-> HalvingStep(g, high, top, n)]
  BY <1>5, Zenon DEF Halved
<1> HIDE DEF g
<1>7. \A n \in low .. e : g[n] = HalvingStep(g, high, top, n)
  BY <1>6
<1> QED
  BY <1>7 DEF g

LEMMA HalvingFacts ==
  ASSUME NEW low \in Nat, NEW high \in Nat, NEW top \in Nat, high <= top
  PROVE  /\ Halving(low, high, top) \in Seq(low .. high)
         /\ low <= high => Halving(low, high, top) # << >>
         /\ high = top /\ low <= top =>
              Halving(low, high, top)[Len(Halving(low, high, top))] = top
<1> DEFINE e == Larger(low, top + 1)
           f == Halved(low, high, top)
<1>0. e \in Nat /\ low <= e /\ top + 1 <= e
  BY DEF Larger
<1>1. Halving(low, high, top) = f[low]
  BY Zenon DEF Halving, Halved, HalvingStep, Half
<1>2. \A n \in low .. e : f[n] = HalvingStep(f, high, top, n)
  BY HalvingDefined
<1> HIDE DEF e, f
<1> DEFINE Ok(n) == /\ f[n] \in Seq(low .. high)
                    /\ n <= high => f[n] # << >>
                    /\ high = top /\ n <= top => f[n][Len(f[n])] = top
           T == {d \in Nat : low + d <= e => Ok(e - d)}
<1>3. ASSUME NEW d \in Nat, \A m \in Nat : m < d => m \in T
      PROVE  d \in T
  <2> SUFFICES ASSUME low + d <= e PROVE Ok(e - d)
    OBVIOUS
  <2> DEFINE n == e - d
  <2>1. n \in Nat /\ n \in low .. e /\ low <= n
    BY <1>0
  <2>2. f[n] = HalvingStep(f, high, top, n)
    BY <1>2, <2>1
  <2>3. CASE n > high
    <3>1. f[n] = << >>
      BY <2>2, <2>3 DEF HalvingStep
    <3>2. ~(n <= high)
      BY <2>1, <2>3
    <3> QED
      BY <3>1, <3>2
  <2>4. CASE ~(n > high)
    <3> DEFINE k == Half(n, top)
               g == f[k]
    <3>1. n <= high /\ n <= top
      BY <2>1, <2>4
    <3>2. /\ k \in Nat /\ k > n /\ k <= top + 1
          /\ n < top => k <= top
          /\ n = top => k = top + 1
      BY <2>1, <3>1, HalfFacts
    <3>3. f[n] = <<n>> \o g
      BY <2>2, <2>4 DEF HalvingStep
    <3> HIDE DEF k
    <3>4. e - k \in Nat /\ e - k < d /\ low + (e - k) <= e /\ e - (e - k) = k
      BY <1>0, <2>1, <3>2
    <3>5. Ok(k)
      BY <1>3, <3>4
    <3>6. n \in low .. high
      BY <2>1, <3>1
    <3> HIDE DEF n
    <3>7. g \in Seq(low .. high) /\ <<n>> \in Seq(low .. high)
      BY <3>5, <3>6
    <3>8. k <= high => g # << >>
      BY <3>5
    <3>9. high = top /\ k <= top => g[Len(g)] = top
      BY <3>5
    <3> HIDE DEF g
    <3> DEFINE v == <<n>> \o g
    <3>10. /\ v \in Seq(low .. high) /\ Len(v) = 1 + Len(g) /\ v[1] = n /\ Len(g) \in Nat
           /\ \A i \in 1 .. Len(g) : v[1 + i] = g[i]
      <4>1. Len(<<n>>) = 1 /\ <<n>>[1] = n
        OBVIOUS
      <4> QED
        BY <3>7, <4>1, ConcatFacts
    <3> HIDE DEF v
    <3>11. v # << >>
      BY <3>10
    <3>12. ASSUME high = top PROVE v[Len(v)] = top
      <4>1. CASE n < top
        <5>1. g # << >> /\ g[Len(g)] = top
          BY <3>2, <3>8, <3>9, <3>12, <4>1
        <5>2. Len(g) \in 1 .. Len(g)
          BY <3>7, <5>1
        <5>3. v[1 + Len(g)] = top
          BY <3>10, <5>1, <5>2
        <5> QED
          BY <3>10, <5>3
      <4>2. CASE n = top
        <5>1. k > high /\ k = top + 1
          BY <3>2, <3>12, <4>2
        <5>2. k \in low .. e
          BY <1>0, <2>1, <3>2, <5>1, <3>6
        <5>3. g = << >>
          BY <1>2, <5>1, <5>2 DEF HalvingStep, g
        <5>4. Len(v) = 1
          BY <3>10, <5>3
        <5> QED
          BY <3>10, <4>2, <5>4
      <4> QED
        BY <2>1, <3>1, <3>6, <4>1, <4>2
    <3>13. f[n] = v
      BY <3>3 DEF v
    <3>14. Ok(n)
      BY <3>10, <3>11, <3>12, <3>13
    <3> QED
      BY <3>14 DEF n
  <2> QED
    BY <2>3, <2>4
<1> HIDE DEF T, Ok
<1>4. Nat \subseteq T
  BY <1>3, NatSetInduction
<1>5. e - low \in Nat /\ low + (e - low) <= e /\ e - (e - low) = low
  BY <1>0
<1>6. Ok(low)
  BY <1>4, <1>5 DEF T
<1> QED
  BY <1>1, <1>6 DEF Ok


-----------------------------------------------------------------------------
(* What the messages, a connection and a node look like.  K is a set of    *)
(* blocks that holds with a block the path to it: the blocks the chain of  *)
(* the node has, and those it is sure to have when it comes to the next.   *)
(* A list of ids is a piece of a path that begins after a block of K, and  *)
(* the synopsis of a request has only ids of K and of the list.            *)

PathClosed(K) == \A b \in K : OnPath(b) \subseteq K

IdLists == {ids \in Seq(Blocks) : Chained(ids)}

Messages ==
    [type : {"fetch_blockchain_item_ids"}, synopsis : Seq(Blocks)]
    \cup [type : {"blockchain_item_ids_inventory"}, ids : IdLists, remaining : Int]
    \cup [type : {"fetch_items"}, items : Seq(Blocks) \ {<< >>}]
    \cup [type : {"block"}, block : Blocks]
    \cup [type : {"item_ids_inventory"}, items : SUBSET Blocks]
    \cup [type : {"closing_connection"}]

Calls(N) == {c \in [kind : {"sync", "normal", "own"}, from : Nodes \cup {None}, block : Blocks,
                    result : {"none", "accepted", "rejected", "unlinkable"}] :
               c.kind = "normal" => c.from \in N}

PeerFields ==
    {"state", "shut", "they_requested_close", "we_need_sync_items", "peer_needs_sync_items",
     "ids_of_items_to_get", "ids_being_processed", "number_of_unfetched", "item_ids_requested",
     "sync_items_requested", "items_requested", "last_block_seen", "advertised_to_peer",
     "advertised_to_us", "pushing", "misjudged", "out"}

NodeFields ==
    {"known", "head", "active_sync", "received", "new_received", "calls", "handled", "recent",
     "suspended", "items_to_fetch", "new_inventory", "due", "peer"}

ListOK(K, ids) == /\ ids \in Seq(Blocks) /\ Chained(ids)
                  /\ ids # << >> => Parent[ids[1]] \in K \cup {None}

AskedOK(K, ids, asked) == asked # NotAsked =>
                            /\ asked \in Seq(Blocks)
                            /\ Range(asked) \subseteq K \cup Range(ids)
                            /\ asked = << >> => ids = << >>

PeerOK(K, p) ==
    /\ DOMAIN p = PeerFields
    /\ ListOK(K, p.ids_of_items_to_get)
    /\ AskedOK(K, p.ids_of_items_to_get, p.item_ids_requested)
    /\ p.last_block_seen \in K \cup {None}
    /\ p.advertised_to_us \subseteq Blocks
    /\ p.items_requested \subseteq Blocks
    /\ p.out \in Seq(Messages)

ChainOK(K, s) ==
    /\ K \subseteq Blocks /\ PathClosed(K)
    /\ s.known \subseteq K /\ PathClosed(s.known)
    /\ s.head \in s.known \cup {None}
    /\ s.recent \subseteq s.known \cup {None}

TasksOK(s) ==
    /\ s.received \in Seq(Blocks) /\ s.new_received \in Seq(Blocks)
    /\ s.calls \in Seq(Calls(DOMAIN s.peer)) /\ s.handled \in Seq(Calls(DOMAIN s.peer))
    /\ \A k \in DOMAIN s.handled : s.handled[k].result = "accepted" => s.handled[k].block \in s.known
    /\ s.items_to_fetch \subseteq Blocks /\ s.new_inventory \subseteq Blocks

NodeOK(n, K, s) ==
    /\ DOMAIN s = NodeFields
    /\ ChainOK(K, s)
    /\ TasksOK(s)
    /\ DOMAIN s.peer = Neighbours(n)
    /\ \A m \in Neighbours(n) : PeerOK(K, s.peer[m])

\* A step of a connection that asks for no sync block and forgets none.
Moves(K, p, q) ==
    /\ PeerOK(K, q)
    /\ q.sync_items_requested = p.sync_items_requested
    /\ q.state = "closed" => p.state = "closed"

LEMMA MessageFields ==
  ASSUME NEW msg \in Messages
  PROVE  /\ msg.type = "fetch_blockchain_item_ids" => msg.synopsis \in Seq(Blocks)
         /\ msg.type = "blockchain_item_ids_inventory" => msg.ids \in IdLists
         /\ msg.type = "fetch_items" => msg.items \in Seq(Blocks) /\ msg.items # << >>
         /\ msg.type = "block" => msg.block \in Blocks
         /\ msg.type = "item_ids_inventory" => msg.items \subseteq Blocks
         /\ msg.type \in {"fetch_blockchain_item_ids", "blockchain_item_ids_inventory", "fetch_items",
                          "block", "item_ids_inventory", "closing_connection"}
BY DEF Messages

LEMMA MessageKinds ==
  /\ \A x \in Seq(Blocks) : [type |-> "fetch_blockchain_item_ids", synopsis |-> x] \in Messages
  /\ \A x \in IdLists, r \in Int :
       [type |-> "blockchain_item_ids_inventory", ids |-> x, remaining |-> r] \in Messages
  /\ \A x \in Seq(Blocks) : x # << >> => [type |-> "fetch_items", items |-> x] \in Messages
  /\ \A b \in Blocks : [type |-> "block", block |-> b] \in Messages
  /\ \A x \in SUBSET Blocks : [type |-> "item_ids_inventory", items |-> x] \in Messages
  /\ [type |-> "closing_connection"] \in Messages
<1>1. \A x \in Seq(Blocks) : [type |-> "fetch_blockchain_item_ids", synopsis |-> x] \in Messages
  BY DEF Messages
<1>2. \A x \in IdLists, r \in Int :
       [type |-> "blockchain_item_ids_inventory", ids |-> x, remaining |-> r] \in Messages
  BY DEF Messages
<1>3. \A x \in Seq(Blocks) : x # << >> => [type |-> "fetch_items", items |-> x] \in Messages
  BY DEF Messages
<1>4. \A b \in Blocks : [type |-> "block", block |-> b] \in Messages
  BY DEF Messages
<1>5. \A x \in SUBSET Blocks : [type |-> "item_ids_inventory", items |-> x] \in Messages
  BY DEF Messages
<1>6. [type |-> "closing_connection"] \in Messages
  BY DEF Messages
<1> QED
  BY <1>1, <1>2, <1>3, <1>4, <1>5, <1>6

LEMMA PeerKept ==
  ASSUME NEW K, NEW p, PeerOK(K, p), NEW q, DOMAIN q = PeerFields,
         q.ids_of_items_to_get = p.ids_of_items_to_get,
         q.item_ids_requested = p.item_ids_requested,
         q.last_block_seen = p.last_block_seen, q.advertised_to_us = p.advertised_to_us,
         q.items_requested = p.items_requested, q.out = p.out
  PROVE  PeerOK(K, q)
BY DEF PeerOK

\* What K may lose without harm is nothing.
LEMMA PeerGrown ==
  ASSUME NEW K, NEW p, PeerOK(K, p), NEW L, K \subseteq L
  PROVE  PeerOK(L, p)
<1>1. ListOK(L, p.ids_of_items_to_get)
  BY DEF PeerOK, ListOK
<1>2. AskedOK(L, p.ids_of_items_to_get, p.item_ids_requested)
  BY DEF PeerOK, AskedOK
<1>3. p.last_block_seen \in L \cup {None}
  BY DEF PeerOK
<1> QED
  BY <1>1, <1>2, <1>3 DEF PeerOK

LEMMA ClosedOK == ASSUME NEW K PROVE PeerOK(K, Closed)
<1>1. << >> \in Seq(Blocks) /\ << >> \in Seq(Messages) /\ Len(<< >>) = 0
  OBVIOUS
<1>2. Chained(<< >>)
  BY <1>1 DEF Chained
<1>3. ListOK(K, << >>) /\ AskedOK(K, << >>, NotAsked)
  BY <1>1, <1>2 DEF ListOK, AskedOK
<1> QED
  BY <1>1, <1>3 DEF PeerOK, Closed, PeerFields

LEMMA SendOK ==
  ASSUME NEW K, NEW p, PeerOK(K, p), NEW msg \in Messages
  PROVE  /\ Moves(K, p, Send(p, msg)) /\ Send(p, msg).state = p.state
<1> DEFINE q == Send(p, msg)
<1>1. DOMAIN p = PeerFields /\ p.out \in Seq(Messages)
  BY DEF PeerOK
<1>2. q = [p EXCEPT !.out = Append(p.out, msg)]
  BY DEF Send
<1> HIDE DEF q
<1>3. /\ DOMAIN q = PeerFields /\ q.out = Append(p.out, msg)
      /\ \A f \in PeerFields : f # "out" => q[f] = p[f]
  BY <1>1, <1>2 DEF PeerFields
<1>4. /\ q.ids_of_items_to_get = p.ids_of_items_to_get
      /\ q.item_ids_requested = p.item_ids_requested
      /\ q.last_block_seen = p.last_block_seen /\ q.advertised_to_us = p.advertised_to_us
      /\ q.items_requested = p.items_requested
      /\ q.sync_items_requested = p.sync_items_requested /\ q.state = p.state
  BY <1>3 DEF PeerFields
<1>5. q.out \in Seq(Messages)
  BY <1>1, <1>3
<1>6. PeerOK(K, q)
  BY <1>3, <1>4, <1>5 DEF PeerOK
<1> QED
  BY <1>4, <1>6 DEF Moves, q

LEMMA DisconnectOK ==
  ASSUME NEW K, NEW p, PeerOK(K, p)
  PROVE  Moves(K, p, disconnect_from_peer(p))
<1>0. DOMAIN p = PeerFields
  BY DEF PeerOK
<1>1. CASE p.they_requested_close
  <2> DEFINE q == [p EXCEPT !.state = "closing", !.shut = TRUE]
  <2>1. disconnect_from_peer(p) = q
    BY <1>1 DEF disconnect_from_peer
  <2>2. /\ DOMAIN q = PeerFields
        /\ q.ids_of_items_to_get = p.ids_of_items_to_get
        /\ q.item_ids_requested = p.item_ids_requested
        /\ q.last_block_seen = p.last_block_seen /\ q.advertised_to_us = p.advertised_to_us
        /\ q.items_requested = p.items_requested /\ q.out = p.out
        /\ q.sync_items_requested = p.sync_items_requested /\ q.state = "closing"
    BY <1>0 DEF PeerFields
  <2> HIDE DEF q
  <2>3. PeerOK(K, q)
    BY <2>2, PeerKept
  <2> QED
    BY <2>1, <2>2, <2>3 DEF Moves
<1>2. CASE ~p.they_requested_close
  <2> DEFINE q == [p EXCEPT !.state = "closing"]
             r == Send(q, [type |-> "closing_connection"])
  <2>1. disconnect_from_peer(p) = r
    BY <1>2 DEF disconnect_from_peer
  <2>2. /\ DOMAIN q = PeerFields
        /\ q.ids_of_items_to_get = p.ids_of_items_to_get
        /\ q.item_ids_requested = p.item_ids_requested
        /\ q.last_block_seen = p.last_block_seen /\ q.advertised_to_us = p.advertised_to_us
        /\ q.items_requested = p.items_requested /\ q.out = p.out
        /\ q.sync_items_requested = p.sync_items_requested /\ q.state = "closing"
    BY <1>0 DEF PeerFields
  <2> HIDE DEF q
  <2>3. PeerOK(K, q)
    BY <2>2, PeerKept
  <2>4. Moves(K, q, r) /\ r.state = q.state
    BY <2>3, MessageKinds, SendOK
  <2> QED
    BY <2>1, <2>2, <2>4 DEF Moves
<1> QED
  BY <1>1, <1>2


-----------------------------------------------------------------------------
(* What a node asks of a peer.                                             *)

LEMMA IsSeq ==
  ASSUME NEW T, NEW n \in Nat, NEW g, g \in [1 .. n -> T]
  PROVE  g \in Seq(T) /\ Len(g) = n
OBVIOUS

LEMMA SeqParts ==
  ASSUME NEW S, NEW u \in Seq(S)
  PROVE  Len(u) \in Nat /\ DOMAIN u = 1 .. Len(u) /\ \A k \in 1 .. Len(u) : u[k] \in S
OBVIOUS

LEMMA SeqWider ==
  ASSUME NEW S, NEW T, S \subseteq T, NEW u \in Seq(S)
  PROVE  u \in Seq(T)
<1>1. Len(u) \in Nat /\ DOMAIN u = 1 .. Len(u) /\ u \in [1 .. Len(u) -> S]
  OBVIOUS
<1>2. u \in [1 .. Len(u) -> T]
  BY <1>1
<1> QED
  BY <1>1, <1>2, IsSeq

LEMMA ChainFacts ==
  ASSUME NEW K, NEW s, ChainOK(K, s)
  PROVE  /\ s.head \in BlockIds /\ Num[s.head] \in Nat /\ Lib[s.head] \in Nat
         /\ K \subseteq Blocks /\ PathClosed(K) /\ s.known \subseteq K /\ PathClosed(s.known)
         /\ OnPath(s.head) \subseteq s.known
<1>1. s.head \in BlockIds /\ K \subseteq Blocks /\ s.known \subseteq K
  BY DEF ChainOK, BlockIds
<1>2. OnPath(s.head) \subseteq s.known
  BY PathNone DEF ChainOK, PathClosed
<1> QED
  BY <1>1, <1>2, Numbers, LibAssumption DEF ChainOK, BlockIds

LEMMA SynopsisOK ==
  ASSUME NEW K, NEW s, ChainOK(K, s), NEW ref \in K \cup {None}, NEW after \in Nat
  PROVE  get_blockchain_synopsis(s, ref, after) \in Seq(K)
<1> DEFINE tip == IF ref = None THEN s.head ELSE ref
           high == Num[tip]
           low == Larger(1, Smaller(last_non_undoable_block_num(s), high))
           nums == Halving(low, high, high + after)
           got == [k \in DOMAIN nums |-> PathTo[tip][nums[k]]]
<1>1. tip \in BlockIds /\ OnPath(tip) \subseteq K
  BY ChainFacts, Numbers DEF PathClosed, BlockIds
<1>2. high \in Nat /\ high + after \in Nat /\ high <= high + after
  BY <1>1, Numbers
<1>3. low \in Nat /\ low >= 1
  BY <1>2, ChainFacts DEF last_non_undoable_block_num, Larger, Smaller
<1>4. get_blockchain_synopsis(s, ref, after) = IF high = 0 THEN << >> ELSE got
  BY Zenon DEF get_blockchain_synopsis
<1>5. Len(PathTo[tip]) = high
  BY <1>1, PathType
<1> HIDE DEF tip, high, low
<1>6. nums \in Seq(low .. high)
  BY <1>2, <1>3, HalvingFacts
<1> HIDE DEF nums
<1>7. \A i \in low .. high : PathTo[tip][i] \in K
  BY <1>1, <1>2, <1>3, <1>5 DEF OnPath
<1>8. got \in Seq(K)
  <2>1. Len(nums) \in Nat /\ DOMAIN nums = 1 .. Len(nums) /\ \A k \in 1 .. Len(nums) : nums[k] \in low .. high
    BY <1>6, SeqParts
  <2>2. got \in [1 .. Len(nums) -> K]
    BY <1>7, <2>1
  <2> HIDE DEF got
  <2> QED
    BY <2>1, <2>2, IsSeq
<1>9. << >> \in Seq(K)
  OBVIOUS
<1> HIDE DEF got
<1> QED
  BY <1>4, <1>8, <1>9

\* The synopsis of a request has only ids of the chain and of the list, and
\* is empty only when the list is.
LEMMA PeerSynopsisOK ==
  ASSUME NEW K, NEW s, ChainOK(K, s), NEW p, ListOK(K, p.ids_of_items_to_get),
         p.last_block_seen \in K \cup {None}
  PROVE  /\ create_blockchain_synopsis_for_peer(s, p) \in Seq(Blocks)
         /\ AskedOK(K, p.ids_of_items_to_get, create_blockchain_synopsis_for_peer(s, p))
<1> DEFINE ids == p.ids_of_items_to_get
           ours == get_blockchain_synopsis(s, p.last_block_seen, Len(ids))
           first == Num[ids[1]]
           top == first + Len(ids) - 1
           low == IF ours = << >> THEN 1 ELSE Num[ours[1]]
           nums == KeepIn(Halving(low, top, top), first .. top)
           theirs == [k \in DOMAIN nums |-> ids[nums[k] - first + 1]]
           got == create_blockchain_synopsis_for_peer(s, p)
<1>1. ids \in Seq(Blocks) /\ Len(ids) \in Nat
  BY DEF ListOK
<1>2. ours \in Seq(K) /\ K \subseteq Blocks
  BY <1>1, SynopsisOK, ChainFacts
<1>3. ours \in Seq(Blocks) /\ Range(ours) \subseteq K
  BY <1>2, RangeOf, SeqWider
<1>4. got = IF ids = << >> THEN ours ELSE ours \o theirs
  BY Zenon DEF create_blockchain_synopsis_for_peer
<1>4a. ours # << >> => Num[ours[1]] \in Nat
  <2>1. ours # << >> => ours[1] \in Blocks
    BY <1>3, TailFacts
  <2> QED
    BY <2>1, Numbers
<1> HIDE DEF got, ours
<1>5. CASE ids = << >>
  <2>1. got = ours
    BY <1>4, <1>5
  <2>2. AskedOK(K, ids, ours)
    BY <1>3, <1>5 DEF AskedOK
  <2> QED
    BY <1>3, <2>1, <2>2 DEF got
<1>6. CASE ids # << >>
  <2>1. first \in Nat /\ first >= 1 /\ Len(ids) >= 1
    <3>1. ids[1] \in Blocks /\ Len(ids) > 0
      BY <1>1, <1>6, TailFacts
    <3> QED
      BY <1>1, <3>1, Numbers
  <2>2. top \in Nat /\ top >= 1 /\ top \in first .. top
    BY <1>1, <2>1
  <2>3. low \in Nat
    BY <1>4a
  <2> DEFINE h == Halving(low, top, top)
  <2>3a. top <= top
    BY <2>2
  <2> HIDE DEF top, low
  <2>4. h \in Seq(low .. top) /\ (low <= top => h # << >> /\ h[Len(h)] = top)
    BY <2>2, <2>3, <2>3a, HalvingFacts
  <2>4a. nums = KeepIn(h, first .. top)
    OBVIOUS
  <2> HIDE DEF h, nums
  <2>5. nums \in Seq((low .. top) \cap (first .. top)) /\ (low <= top => nums # << >>)
    BY <2>2, <2>4, <2>4a, KeepFacts
  <2>6. nums \in Seq(first .. top)
    <3> DEFINE B == first .. top
               A == (low .. top) \cap B
    <3>1. A \subseteq B /\ nums \in Seq(A)
      BY <2>5
    <3> HIDE DEF A, B
    <3>2. nums \in Seq(B)
      BY <3>1, SeqWider
    <3> QED
      BY <3>2 DEF B
  <2>6a. \A i \in first .. top : i - first + 1 \in 1 .. Len(ids)
    BY <1>1, <2>1 DEF top
  <2>6b. \A i \in 1 .. Len(ids) : ids[i] \in Range(ids) /\ ids[i] \in Blocks
    BY <1>1, RangeOf
  <2> HIDE DEF first, ids
  <2>7. theirs \in Seq(Range(ids)) /\ Len(theirs) = Len(nums)
    <3>1. Len(nums) \in Nat /\ DOMAIN nums = 1 .. Len(nums) /\ \A k \in 1 .. Len(nums) : nums[k] \in first .. top
      BY <2>6, SeqParts
    <3>2. theirs \in [1 .. Len(nums) -> Range(ids)]
      BY <2>6a, <2>6b, <3>1
    <3> HIDE DEF theirs
    <3> QED
      BY <3>1, <3>2, IsSeq
  <2>8. Range(ids) \subseteq Blocks
    BY <1>1, RangeOf
  <2> HIDE DEF theirs
  <2>9. ours \in Seq(K \cup Range(ids)) /\ theirs \in Seq(K \cup Range(ids))
    BY <1>2, <2>7, SeqWider
  <2>10. ours \o theirs \in Seq(K \cup Range(ids)) /\ Len(ours \o theirs) = Len(ours) + Len(theirs)
         /\ Len(ours) \in Nat /\ Len(theirs) \in Nat
    BY <2>9, ConcatFacts
  <2>11. ours \o theirs # << >>
    <3>1. CASE ours # << >>
      <4>1. Len(ours) > 0
        BY <1>3, <3>1, TailFacts
      <4> QED
        BY <2>10, <4>1
    <3>2. CASE ours = << >>
      <4>1. low <= top
        BY <3>2, <2>2 DEF low
      <4>2. Len(nums) > 0
        BY <4>1, <2>5, <2>6, TailFacts
      <4> QED
        BY <2>7, <2>10, <4>2
    <3> QED
      BY <3>1, <3>2
  <2>12. got \in Seq(K \cup Range(ids)) /\ got # << >>
    BY <1>4, <1>6, <2>10, <2>11
  <2>13. Range(got) \subseteq K \cup Range(ids)
    BY <2>12, RangeOf
  <2>14. K \cup Range(ids) \subseteq Blocks
    BY <1>2, <2>8
  <2>15. got \in Seq(Blocks)
    BY <2>12, <2>14, SeqWider
  <2>16. AskedOK(K, ids, got)
    BY <2>12, <2>13, <2>15 DEF AskedOK
  <2> QED
    BY <2>15, <2>16 DEF got, ids
<1> QED
  BY <1>5, <1>6 DEF got

\* All but the synopsis of the last request.
PeerBase(K, p) ==
    /\ DOMAIN p = PeerFields
    /\ ListOK(K, p.ids_of_items_to_get)
    /\ p.last_block_seen \in K \cup {None}
    /\ p.advertised_to_us \subseteq Blocks
    /\ p.items_requested \subseteq Blocks
    /\ p.out \in Seq(Messages)

LEMMA FetchNextOK ==
  ASSUME NEW K, NEW s, ChainOK(K, s), NEW p, PeerBase(K, p),
         SynopsisTooOld(s, p.last_block_seen) => PeerOK(K, p)
  PROVE  Moves(K, p, fetch_next_batch_of_item_ids_from_peer(s, p))
<1> DEFINE y == create_blockchain_synopsis_for_peer(s, p)
           msg == [type |-> "fetch_blockchain_item_ids", synopsis |-> y]
           q == [p EXCEPT !.item_ids_requested = y]
<1>1. y \in Seq(Blocks) /\ AskedOK(K, p.ids_of_items_to_get, y)
  BY PeerSynopsisOK DEF PeerBase
<1>2. fetch_next_batch_of_item_ids_from_peer(s, p)
        = IF SynopsisTooOld(s, p.last_block_seen) THEN disconnect_from_peer(p) ELSE Send(q, msg)
  BY Zenon DEF fetch_next_batch_of_item_ids_from_peer
<1>3. msg \in Messages
  BY <1>1, MessageKinds
<1> HIDE DEF y, msg
<1>4. /\ DOMAIN q = PeerFields
      /\ q.ids_of_items_to_get = p.ids_of_items_to_get
      /\ q.item_ids_requested = y
      /\ q.last_block_seen = p.last_block_seen /\ q.advertised_to_us = p.advertised_to_us
      /\ q.items_requested = p.items_requested /\ q.out = p.out
      /\ q.sync_items_requested = p.sync_items_requested /\ q.state = p.state
  BY DEF PeerBase, PeerFields
<1> HIDE DEF q
<1>5. PeerOK(K, q)
  BY <1>1, <1>4 DEF PeerOK, PeerBase
<1>6. Moves(K, q, Send(q, msg))
  BY <1>3, <1>5, SendOK
<1>7. Moves(K, p, Send(q, msg))
  BY <1>4, <1>6 DEF Moves
<1>8. PeerOK(K, p) => Moves(K, p, disconnect_from_peer(p))
  BY DisconnectOK
<1> QED
  BY <1>2, <1>7, <1>8

LEMMA PeerParts ==
  ASSUME NEW K, NEW p, PeerOK(K, p)
  PROVE  PeerBase(K, p)
BY DEF PeerOK, PeerBase

LEMMA EmptyList == \A K : ListOK(K, << >>)
<1>1. << >> \in Seq(Blocks) /\ Len(<< >>) = 0
  OBVIOUS
<1> QED
  BY <1>1 DEF ListOK, Chained

LEMMA StartOK ==
  ASSUME NEW K, NEW s, ChainOK(K, s), NEW p, PeerOK(K, p)
  PROVE  Moves(K, p, start_synchronizing_with_peer(s, p))
<1> DEFINE q == [p EXCEPT !.ids_of_items_to_get = << >>,
                          !.number_of_unfetched = 0,
                          !.we_need_sync_items = TRUE,
                          !.last_block_seen = None]
<1>1. start_synchronizing_with_peer(s, p) = fetch_next_batch_of_item_ids_from_peer(s, q)
  BY DEF start_synchronizing_with_peer
<1>2. /\ DOMAIN q = PeerFields
      /\ q.ids_of_items_to_get = << >> /\ q.last_block_seen = None
      /\ q.advertised_to_us = p.advertised_to_us
      /\ q.items_requested = p.items_requested /\ q.out = p.out
      /\ q.sync_items_requested = p.sync_items_requested /\ q.state = p.state
  BY DEF PeerOK, PeerFields
<1> HIDE DEF q
<1>3. PeerBase(K, q)
  BY <1>2, EmptyList DEF PeerBase, PeerOK
<1>4. ~SynopsisTooOld(s, q.last_block_seen)
  BY <1>2 DEF SynopsisTooOld
<1>5. Moves(K, q, fetch_next_batch_of_item_ids_from_peer(s, q))
  BY <1>3, <1>4, FetchNextOK
<1> QED
  BY <1>1, <1>2, <1>5 DEF Moves

LEMMA NewPeerOK ==
  ASSUME NEW K, NEW s, ChainOK(K, s), NEW p, PeerOK(K, p)
  PROVE  Moves(K, p, new_peer_just_added(s, p))
<1> DEFINE q == [p EXCEPT !.state = "active"]
<1>1. new_peer_just_added(s, p) = start_synchronizing_with_peer(s, q)
  BY DEF new_peer_just_added
<1>2. /\ DOMAIN q = PeerFields
      /\ q.ids_of_items_to_get = p.ids_of_items_to_get
      /\ q.item_ids_requested = p.item_ids_requested
      /\ q.last_block_seen = p.last_block_seen /\ q.advertised_to_us = p.advertised_to_us
      /\ q.items_requested = p.items_requested /\ q.out = p.out
      /\ q.sync_items_requested = p.sync_items_requested /\ q.state = "active"
  BY DEF PeerOK, PeerFields
<1> HIDE DEF q
<1>3. PeerOK(K, q)
  BY <1>2, PeerKept
<1>4. Moves(K, q, start_synchronizing_with_peer(s, q))
  BY <1>3, StartOK
<1> QED
  BY <1>1, <1>2, <1>4 DEF Moves


-----------------------------------------------------------------------------
(* Lists of ids.                                                           *)

LEMMA ChainedSub ==
  ASSUME NEW u \in Seq(Blocks), Chained(u), NEW m \in Int, NEW n \in Int, m >= 1, n <= Len(u)
  PROVE  SubSeq(u, m, n) \in IdLists
<1> DEFINE v == SubSeq(u, m, n)
<1>1. /\ v \in Seq(Blocks) /\ Len(u) \in Nat
      /\ Len(v) = IF m <= n THEN n - m + 1 ELSE 0
      /\ \A i \in 1 .. (n - m + 1) : v[i] = u[i + m - 1]
  BY SubSeqFacts
<1> HIDE DEF v
<1>2. ASSUME NEW i \in 1 .. (Len(v) - 1) PROVE Parent[v[i + 1]] = v[i]
  <2>1. Len(v) = n - m + 1 /\ i \in 1 .. (n - m + 1) /\ i + 1 \in 1 .. (n - m + 1)
    BY <1>1
  <2>2. v[i] = u[i + m - 1] /\ v[i + 1] = u[i + 1 + m - 1]
    BY <1>1, <2>1
  <2> DEFINE j == i + m - 1
  <2>3. j \in 1 .. (Len(u) - 1) /\ i + 1 + m - 1 = j + 1
    BY <1>1, <2>1
  <2> HIDE DEF j
  <2>4. Parent[u[j + 1]] = u[j]
    BY <2>3 DEF Chained
  <2> QED
    BY <2>2, <2>3, <2>4 DEF j
<1> QED
  BY <1>1, <1>2 DEF IdLists, Chained, v

LEMMA ChainedTail ==
  ASSUME NEW u \in Seq(Blocks), Chained(u), u # << >>
  PROVE  /\ Tail(u) \in Seq(Blocks) /\ Chained(Tail(u))
         /\ Tail(u) # << >> => Parent[Tail(u)[1]] = u[1]
         /\ Range(u) = Range(Tail(u)) \cup {u[1]}
<1> DEFINE v == Tail(u)
<1>1. /\ v \in Seq(Blocks) /\ Len(u) \in Nat /\ Len(u) > 0 /\ Len(v) = Len(u) - 1
      /\ \A i \in 1 .. (Len(u) - 1) : v[i] = u[i + 1]
      /\ DOMAIN u = 1 .. Len(u) /\ DOMAIN v = 1 .. (Len(u) - 1)
  BY TailFacts
<1>2. v # << >> => Len(v) > 0
  BY <1>1
<1> HIDE DEF v
<1>3. ASSUME NEW i \in 1 .. (Len(v) - 1) PROVE Parent[v[i + 1]] = v[i]
  <2>1. i \in 1 .. (Len(u) - 1) /\ i + 1 \in 1 .. (Len(u) - 1)
    BY <1>1
  <2>2. v[i] = u[i + 1] /\ v[i + 1] = u[i + 1 + 1]
    BY <1>1, <2>1
  <2> QED
    BY <2>1, <2>2 DEF Chained
<1>4. ASSUME v # << >> PROVE Parent[v[1]] = u[1]
  <2>1. 1 \in 1 .. (Len(u) - 1)
    BY <1>1, <1>2, <1>4
  <2>2. v[1] = u[1 + 1]
    BY <1>1, <2>1
  <2> QED
    BY <2>1, <2>2 DEF Chained
<1>5. Range(u) = Range(v) \cup {u[1]}
  <2>1. ASSUME NEW x \in Range(u) PROVE x \in Range(v) \cup {u[1]}
    <3>1. PICK i \in 1 .. Len(u) : u[i] = x
      BY <1>1, <2>1 DEF Range
    <3>2. CASE i = 1
      BY <3>1, <3>2
    <3>3. CASE i > 1
      <4>1. i - 1 \in 1 .. (Len(u) - 1) /\ (i - 1) + 1 = i
        BY <1>1, <3>3
      <4>2. v[i - 1] = x
        BY <1>1, <3>1, <4>1
      <4> QED
        BY <1>1, <4>1, <4>2 DEF Range
    <3> QED
      BY <3>2, <3>3
  <2>2. ASSUME NEW x \in Range(v) PROVE x \in Range(u)
    <3>1. PICK i \in 1 .. (Len(u) - 1) : v[i] = x
      BY <1>1, <2>2 DEF Range
    <3>2. i + 1 \in 1 .. Len(u) /\ u[i + 1] = x
      BY <1>1, <3>1
    <3> QED
      BY <1>1, <3>2 DEF Range
  <2>3. u[1] \in Range(u)
    BY <1>1 DEF Range
  <2> QED
    BY <2>1, <2>2, <2>3
<1> QED
  BY <1>1, <1>3, <1>4, <1>5 DEF Chained, v

LEMMA ChainedConcat ==
  ASSUME NEW u \in Seq(Blocks), Chained(u), NEW v \in Seq(Blocks), Chained(v),
         u # << >> /\ v # << >> => Parent[v[1]] = u[Len(u)]
  PROVE  u \o v \in Seq(Blocks) /\ Chained(u \o v)
<1> DEFINE w == u \o v
<1>1. /\ w \in Seq(Blocks) /\ Len(w) = Len(u) + Len(v) /\ Len(u) \in Nat /\ Len(v) \in Nat
      /\ \A i \in 1 .. Len(u) : w[i] = u[i]
      /\ \A i \in 1 .. Len(v) : w[Len(u) + i] = v[i]
  BY ConcatFacts
<1> HIDE DEF w
<1>2. ASSUME NEW i \in 1 .. (Len(w) - 1) PROVE Parent[w[i + 1]] = w[i]
  <2>1. CASE i < Len(u)
    <3>1. i \in 1 .. Len(u) /\ i + 1 \in 1 .. Len(u) /\ i \in 1 .. (Len(u) - 1)
      BY <1>1, <2>1
    <3>2. w[i] = u[i] /\ w[i + 1] = u[i + 1]
      BY <1>1, <3>1
    <3> QED
      BY <3>1, <3>2 DEF Chained
  <2>2. CASE i = Len(u)
    <3>1. u # << >> /\ v # << >> /\ 1 \in 1 .. Len(v) /\ i \in 1 .. Len(u)
      BY <1>1, <2>2
    <3>2. w[Len(u) + 1] = v[1] /\ w[i] = u[i]
      BY <1>1, <3>1
    <3> QED
      BY <2>2, <3>1, <3>2
  <2>3. CASE i > Len(u)
    <3> DEFINE j == i - Len(u)
    <3>1. j \in 1 .. Len(v) /\ j + 1 \in 1 .. Len(v) /\ j \in 1 .. (Len(v) - 1)
          /\ i = Len(u) + j /\ i + 1 = Len(u) + (j + 1)
      BY <1>1, <2>3
    <3> HIDE DEF j
    <3>2. w[Len(u) + j] = v[j] /\ w[Len(u) + (j + 1)] = v[j + 1]
      BY <1>1, <3>1
    <3>3. Parent[v[j + 1]] = v[j]
      BY <3>1 DEF Chained
    <3> QED
      BY <3>1, <3>2, <3>3
  <2> QED
    BY <1>1, <2>1, <2>2, <2>3
<1> QED
  BY <1>1, <1>2 DEF Chained, w

LEMMA BlockIdsOK ==
  ASSUME NEW K, NEW s, ChainOK(K, s), NEW y \in Seq(Blocks)
  PROVE  get_block_ids(s, y).ids \in IdLists /\ get_block_ids(s, y).remaining \in Int
<1> DEFINE on == {k \in DOMAIN y : is_included_block(s, y[k])}
           from == IF on = {} THEN 1 ELSE Num[y[Max(on)]]
           last == Smaller(Num[s.head], from + IdsPerReply - 1)
           none == s.head = None \/ (on = {} /\ y # << >>)
           got == get_block_ids(s, y)
<1>1. got = IF none THEN [ids |-> << >>, remaining |-> 0]
            ELSE [ids |-> SubSeq(PathTo[s.head], from, last), remaining |-> Num[s.head] - last]
  BY Zenon DEF get_block_ids, Chain
<1>2. from \in Nat /\ from >= 1
  <2>1. CASE on = {}
    BY <2>1
  <2>2. CASE on # {}
    <3>1. on \subseteq 0 .. Len(y) /\ Len(y) \in Nat
      OBVIOUS
    <3>2. \A k \in on : y[k] \in OnPath(s.head)
      BY DEF is_included_block
    <3> HIDE DEF on
    <3>3. Max(on) \in on
      BY <2>2, <3>1, MaxNat
    <3>4. Num[y[Max(on)]] \in 1 .. Num[s.head]
      BY <3>2, <3>3, ChainFacts, PathParts
    <3> QED
      BY <2>2, <3>4, ChainFacts
  <2> QED
    BY <2>1, <2>2
<1> HIDE DEF from, none, got
<1>3. last \in Int /\ last <= Num[s.head]
  BY <1>2, ChainFacts, LimitsAssumption DEF Smaller
<1> HIDE DEF last
<1>4. /\ PathTo[s.head] \in Seq(Blocks) /\ Len(PathTo[s.head]) = Num[s.head]
      /\ Chained(PathTo[s.head]) /\ Num[s.head] \in Nat
  BY ChainFacts, PathType, PathParts
<1>5. SubSeq(PathTo[s.head], from, last) \in IdLists
  BY <1>2, <1>3, <1>4, ChainedSub
<1>6. << >> \in IdLists
  BY EmptyList DEF ListOK, IdLists
<1>7. Num[s.head] - last \in Int
  BY <1>3, <1>4
<1> QED
  BY <1>1, <1>5, <1>6, <1>7 DEF got


-----------------------------------------------------------------------------
(* The answers of a peer, and what becomes of its blocks.                  *)

LEMMA AnswerStart ==
  ASSUME NEW K, NEW p, PeerOK(K, p), p.item_ids_requested # NotAsked,
         NEW ids \in IdLists, ids # << >>, ValidAnswer(p, ids)
  PROVE  /\ ids[1] \in Blocks
         /\ \/ ids[1] \in K \cup Range(p.ids_of_items_to_get)
            \/ p.ids_of_items_to_get = << >> /\ Parent[ids[1]] = None
<1>1. ids[1] \in Blocks
  BY TailFacts DEF IdLists
<1>2. /\ Range(p.item_ids_requested) \subseteq K \cup Range(p.ids_of_items_to_get)
      /\ p.item_ids_requested = << >> => p.ids_of_items_to_get = << >>
  BY DEF PeerOK, AskedOK
<1>3. CASE p.item_ids_requested = << >>
  <2>1. Num[ids[1]] = 1
    BY <1>3 DEF ValidAnswer
  <2>2. Num[Parent[ids[1]]] \in Nat /\ Num[Parent[ids[1]]] = 0 /\ Parent[ids[1]] \in BlockIds
    BY <1>1, <2>1, Numbers
  <2>3. Parent[ids[1]] = None
    BY <2>2, Numbers
  <2> QED
    BY <1>1, <1>2, <1>3, <2>3
<1>4. CASE p.item_ids_requested # << >>
  BY <1>1, <1>2, <1>4 DEF ValidAnswer
<1> QED
  BY <1>3, <1>4

LEMMA ParentIn ==
  ASSUME NEW K, K \subseteq Blocks, PathClosed(K), NEW b \in K
  PROVE  Parent[b] \in K \cup {None}
<1>1. b \in Blocks /\ Parent[b] \in BlockIds /\ OnPath(b) = OnPath(Parent[b]) \cup {b}
  BY PathStep, Numbers
<1>2. ASSUME Parent[b] # None PROVE Parent[b] \in OnPath(Parent[b])
  <2>1. Parent[b] \in Blocks
    BY <1>1, <1>2, Numbers
  <2> QED
    BY <2>1, PathStep
<1> QED
  BY <1>1, <1>2 DEF PathClosed

\* The peer with another list, the request answered.
Relisted(p, q, ids, seen) ==
    /\ DOMAIN q = PeerFields
    /\ q.ids_of_items_to_get = ids /\ q.last_block_seen = seen
    /\ q.item_ids_requested = NotAsked
    /\ q.advertised_to_us = p.advertised_to_us /\ q.items_requested = p.items_requested
    /\ q.out = p.out /\ q.sync_items_requested = p.sync_items_requested /\ q.state = p.state

LEMMA RelistedOK ==
  ASSUME NEW K, NEW p, PeerOK(K, p), NEW q, NEW ids, NEW seen, Relisted(p, q, ids, seen),
         ListOK(K, ids), seen \in K \cup {None}
  PROVE  Moves(K, p, q)
<1>1. AskedOK(K, ids, NotAsked)
  BY DEF AskedOK
<1>2. PeerOK(K, q)
  BY <1>1 DEF Relisted, PeerOK
<1> QED
  BY <1>2 DEF Relisted, Moves

LEMMA FlushOK ==
  ASSUME NEW K, NEW s, ChainOK(K, s), NEW m, NEW p, PeerOK(K, p),
         NEW ids \in IdLists, ids # << >>, ids[1] \in Blocks,
         ids[1] \in K \/ Parent[ids[1]] = None,
         NEW reset, Relisted(p, reset, p.ids_of_items_to_get, p.last_block_seen)
  PROVE  \E list, seen : /\ Relisted(p, FlushKnown(s, m, reset, ids), list, seen)
                         /\ ListOK(K, list) /\ seen \in K \cup {None}
<1> DEFINE shared == \E o \in Active(s) \ {m} :
                       /\ s.peer[o].ids_of_items_to_get # << >>
                       /\ s.peer[o].ids_of_items_to_get[1] = ids[1]
           S == {k \in 0 .. Len(ids) : \A i \in 1 .. k : has_item(s, ids[i])}
           kept == IF shared THEN 0 ELSE Max(S)
           list == SubSeq(ids, kept + 1, Len(ids))
           seen == IF kept = 0 THEN reset.last_block_seen ELSE ids[kept]
           q == FlushKnown(s, m, reset, ids)
<1>0. ids \in Seq(Blocks) /\ Chained(ids) /\ Len(ids) \in Nat /\ Len(ids) > 0
  BY TailFacts DEF IdLists
<1>1. q = [reset EXCEPT !.ids_of_items_to_get = list,
                        !.last_block_seen = IF kept = 0 THEN @ ELSE ids[kept]]
  BY Zenon DEF FlushKnown
<1>2. kept \in 0 .. Len(ids) /\ (kept # 0 => ids[kept] \in s.known)
  <2>1. CASE shared
    BY <1>0, <2>1
  <2>2. CASE ~shared
    <3>1. S \subseteq 0 .. Len(ids) /\ 0 \in S
      BY <1>0
    <3>2. \A k \in S : k # 0 => ids[k] \in s.known
      BY <1>0 DEF has_item
    <3>3. kept = Max(S)
      BY <2>2
    <3> HIDE DEF S
    <3>4. Max(S) \in S
      BY <1>0, <3>1, MaxNat
    <3> QED
      BY <3>1, <3>2, <3>3, <3>4
  <2> QED
    BY <2>1, <2>2
<1> HIDE DEF kept
<1>3. /\ list \in IdLists /\ list \in Seq(Blocks) /\ Chained(list)
      /\ Len(list) = Len(ids) - kept
      /\ \A i \in 1 .. (Len(ids) - kept) : list[i] = ids[i + kept]
  <2>1. kept + 1 \in Int /\ kept + 1 >= 1 /\ Len(ids) \in Int /\ Len(ids) <= Len(ids)
    BY <1>0, <1>2
  <2>2. list \in IdLists
    BY <1>0, <2>1, ChainedSub
  <2>3. /\ Len(list) = IF kept + 1 <= Len(ids) THEN Len(ids) - (kept + 1) + 1 ELSE 0
        /\ \A i \in 1 .. (Len(ids) - (kept + 1) + 1) : list[i] = ids[i + (kept + 1) - 1]
    BY <1>0, <2>1, SubSeqFacts
  <2> HIDE DEF list
  <2>4. Len(list) = Len(ids) - kept
    BY <1>0, <1>2, <2>3
  <2>5. ASSUME NEW i \in 1 .. (Len(ids) - kept) PROVE list[i] = ids[i + kept]
    <3>1. i \in 1 .. (Len(ids) - (kept + 1) + 1) /\ i + (kept + 1) - 1 = i + kept
      BY <1>0, <1>2
    <3> QED
      BY <2>3, <3>1
  <2> QED
    BY <2>2, <2>4, <2>5 DEF IdLists
<1> HIDE DEF list
<1>4. ListOK(K, list)
  <2>1. ASSUME list # << >> PROVE Parent[list[1]] \in K \cup {None}
    <3>1. Len(list) > 0
      BY <1>3, <2>1, TailFacts
    <3>2. 1 \in 1 .. (Len(ids) - kept)
      BY <1>0, <1>2, <1>3, <3>1
    <3>3. list[1] = ids[1 + kept]
      BY <1>3, <3>2
    <3>4. CASE kept = 0
      <4>1. list[1] = ids[1]
        BY <3>3, <3>4
      <4>2. ids[1] \in K => Parent[ids[1]] \in K \cup {None}
        BY ChainFacts, ParentIn
      <4> QED
        BY <4>1, <4>2
    <3>5. CASE kept # 0
      <4>1. kept \in 1 .. (Len(ids) - 1) /\ 1 + kept = kept + 1
        BY <1>0, <1>2, <3>2, <3>5
      <4>2. Parent[ids[kept + 1]] = ids[kept]
        BY <1>0, <4>1 DEF Chained
      <4> QED
        BY <1>2, <3>3, <3>5, <4>1, <4>2, ChainFacts
    <3> QED
      BY <3>4, <3>5
  <2> QED
    BY <1>3, <2>1 DEF ListOK
<1>5. seen \in K \cup {None}
  BY <1>2, ChainFacts DEF Relisted, PeerOK
<1>6. q = [reset EXCEPT !.ids_of_items_to_get = list, !.last_block_seen = seen]
  BY <1>1
<1> HIDE DEF seen, q
<1>7. Relisted(p, q, list, seen)
  BY <1>6 DEF Relisted, PeerFields
<1> QED
  BY <1>4, <1>5, <1>7, Zenon DEF q

LEMMA ExtendOK ==
  ASSUME NEW K, NEW p, PeerOK(K, p),
         NEW ids \in IdLists, ids # << >>, ids[1] \in Blocks,
         ids[1] \in K \cup Range(p.ids_of_items_to_get),
         NEW reset, Relisted(p, reset, p.ids_of_items_to_get, p.last_block_seen)
  PROVE  \E list, seen : /\ Relisted(p, ExtendList(reset, ids), list, seen)
                         /\ ListOK(K, list) /\ seen \in K \cup {None}
<1> DEFINE old == p.ids_of_items_to_get
           same == {k \in DOMAIN old : old[k] = ids[1]}
           q == ExtendList(reset, ids)
<1>0. /\ ids \in Seq(Blocks) /\ Chained(ids) /\ Len(ids) \in Nat /\ Len(ids) > 0
      /\ old \in Seq(Blocks) /\ Chained(old) /\ Len(old) \in Nat /\ DOMAIN old = 1 .. Len(old)
      /\ old # << >> => Parent[old[1]] \in K \cup {None}
  BY TailFacts DEF IdLists, PeerOK, ListOK
<1>1. q = IF same = {}
          THEN [reset EXCEPT !.ids_of_items_to_get = Tail(ids), !.last_block_seen = ids[1]]
          ELSE [reset EXCEPT !.ids_of_items_to_get = SubSeq(old, 1, Max(same) - 1) \o ids]
  <2>1. reset.ids_of_items_to_get = old
    BY DEF Relisted
  <2> QED
    BY <2>1, Zenon DEF ExtendList
<1> HIDE DEF q
<1>2. CASE same = {}
  <2>1. ids[1] \in K
    BY <1>0, <1>2 DEF Range
  <2>2. ListOK(K, Tail(ids))
    BY <1>0, <2>1, ChainedTail DEF ListOK
  <2>3. Relisted(p, q, Tail(ids), ids[1])
    BY <1>1, <1>2 DEF Relisted, PeerFields
  <2> QED
    BY <2>1, <2>2, <2>3, Zenon DEF q
<1>3. CASE same # {}
  <2>1. same \subseteq 0 .. Len(old)
    BY <1>0
  <2>2. \A k \in same : k \in 1 .. Len(old) /\ old[k] = ids[1]
    BY <1>0
  <2> DEFINE k == Max(same)
             a == SubSeq(old, 1, k - 1)
             list == a \o ids
  <2> HIDE DEF same
  <2>3. k \in 1 .. Len(old) /\ old[k] = ids[1]
    BY <1>0, <1>3, <2>1, <2>2, MaxNat
  <2> HIDE DEF k
  <2>4. k - 1 \in Int /\ 1 \in Int /\ 1 >= 1 /\ k - 1 <= Len(old)
    BY <1>0, <2>3
  <2>5. /\ a \in IdLists
        /\ Len(a) = IF 1 <= k - 1 THEN (k - 1) - 1 + 1 ELSE 0
        /\ \A i \in 1 .. ((k - 1) - 1 + 1) : a[i] = old[i + 1 - 1]
    BY <1>0, <2>4, ChainedSub, SubSeqFacts
  <2>6. a \in Seq(Blocks) /\ Chained(a)
    BY <2>5 DEF IdLists
  <2> HIDE DEF a
  <2>7. Len(a) = k - 1
    BY <1>0, <2>3, <2>5
  <2>8. a # << >> => Len(a) > 0
    BY <2>6, TailFacts
  <2>9. ASSUME Len(a) > 0 PROVE a[Len(a)] = Parent[ids[1]] /\ a[1] = old[1]
    <3> DEFINE j == k - 1
    <3>1. j \in 1 .. (Len(old) - 1) /\ j + 1 = k /\ j \in 1 .. ((k - 1) - 1 + 1)
          /\ j + 1 - 1 = j /\ 1 \in 1 .. ((k - 1) - 1 + 1)
      BY <1>0, <2>3, <2>7, <2>9
    <3>2. Parent[old[j + 1]] = old[j]
      BY <1>0, <3>1 DEF Chained
    <3>3. a[j] = old[j] /\ a[1] = old[1]
      BY <2>5, <3>1
    <3>4. j = Len(a) /\ old[j + 1] = ids[1]
      BY <2>3, <2>7, <3>1
    <3> QED
      BY <3>2, <3>3, <3>4
  <2>10. list \in Seq(Blocks) /\ Chained(list)
    BY <1>0, <2>6, <2>8, <2>9, ChainedConcat
  <2>11. /\ Len(list) = Len(a) + Len(ids)
         /\ \A i \in 1 .. Len(a) : list[i] = a[i]
         /\ \A i \in 1 .. Len(ids) : list[Len(a) + i] = ids[i]
    BY <1>0, <2>6, ConcatFacts
  <2> HIDE DEF list
  <2>12. Parent[list[1]] \in K \cup {None}
    <3>1. CASE Len(a) > 0
      <4>1. list[1] = old[1] /\ old # << >>
        BY <1>0, <2>3, <2>7, <2>9, <2>11, <3>1
      <4> QED
        BY <1>0, <4>1
    <3>2. CASE Len(a) = 0
      <4>1. 1 \in 1 .. Len(ids) /\ Len(a) + 1 = 1 /\ k = 1
        BY <1>0, <2>3, <2>7, <3>2
      <4>2. list[1] = ids[1] /\ ids[1] = old[1] /\ old # << >>
        BY <1>0, <2>3, <2>11, <4>1
      <4> QED
        BY <1>0, <4>2
    <3> QED
      BY <2>3, <2>7, <3>1, <3>2
  <2>13. ListOK(K, list)
    BY <2>10, <2>12 DEF ListOK
  <2>14. q = [reset EXCEPT !.ids_of_items_to_get = list]
    BY <1>1, <1>3 DEF list, a, k
  <2>15. Relisted(p, q, list, p.last_block_seen)
    BY <2>14 DEF Relisted, PeerFields
  <2>16. p.last_block_seen \in K \cup {None}
    BY DEF PeerOK
  <2> QED
    BY <2>13, <2>15, <2>16, Zenon DEF q
<1> QED
  BY <1>2, <1>3


-----------------------------------------------------------------------------
(* Steps of a connection.                                                  *)

\* q is p but for fields the invariant does not speak of.
Alike(p, q) ==
    /\ DOMAIN q = PeerFields
    /\ q.ids_of_items_to_get = p.ids_of_items_to_get
    /\ q.item_ids_requested = p.item_ids_requested
    /\ q.last_block_seen = p.last_block_seen /\ q.advertised_to_us = p.advertised_to_us
    /\ q.items_requested = p.items_requested /\ q.out = p.out
    /\ q.sync_items_requested = p.sync_items_requested
    /\ q.state = "closed" => p.state = "closed"

LEMMA AlikeOK ==
  ASSUME NEW K, NEW p, PeerOK(K, p), NEW q, Alike(p, q)
  PROVE  Moves(K, p, q)
<1>1. PeerOK(K, q)
  BY PeerKept DEF Alike
<1> QED
  BY <1>1 DEF Moves, Alike

LEMMA MovesSelf == ASSUME NEW K, NEW p, PeerOK(K, p) PROVE Moves(K, p, p)
BY DEF Moves

LEMMA MovesThen ==
  ASSUME NEW K, NEW p, NEW q, Moves(K, p, q), NEW r, Moves(K, q, r)
  PROVE  Moves(K, p, r)
BY DEF Moves

LEMMA SeenOK ==
  ASSUME NEW K, NEW p, PeerOK(K, p), NEW b \in K \cup {None}, NEW q, DOMAIN q = PeerFields,
         q.ids_of_items_to_get = p.ids_of_items_to_get,
         q.item_ids_requested = p.item_ids_requested,
         q.last_block_seen = b, q.advertised_to_us = p.advertised_to_us,
         q.items_requested = p.items_requested, q.out = p.out,
         q.sync_items_requested = p.sync_items_requested, q.state = p.state
  PROVE  Moves(K, p, q)
<1>1. PeerOK(K, q)
  BY DEF PeerOK
<1> QED
  BY <1>1 DEF Moves

LEMMA AcceptedOK ==
  ASSUME NEW K, NEW s, ChainOK(K, s), NEW p, PeerOK(K, p), NEW b \in K
  PROVE  Moves(K, p, AcceptedFrom(s, p, b))
<1> DEFINE q == [p EXCEPT !.last_block_seen = b, !.ids_being_processed = @ \ {b}]
<1>1. AcceptedFrom(s, p, b) \in {p, start_synchronizing_with_peer(s, p), q,
                                fetch_next_batch_of_item_ids_from_peer(s, q)}
  BY DEF AcceptedFrom
<1>2. /\ DOMAIN q = PeerFields /\ q.ids_of_items_to_get = p.ids_of_items_to_get
      /\ q.item_ids_requested = p.item_ids_requested
      /\ q.last_block_seen = b /\ q.advertised_to_us = p.advertised_to_us
      /\ q.items_requested = p.items_requested /\ q.out = p.out
      /\ q.sync_items_requested = p.sync_items_requested /\ q.state = p.state
  BY DEF PeerOK, PeerFields
<1> HIDE DEF q
<1>3. Moves(K, p, q) /\ PeerOK(K, q)
  BY <1>2, SeenOK DEF Moves
<1>4. Moves(K, q, fetch_next_batch_of_item_ids_from_peer(s, q))
  BY <1>3, PeerParts, FetchNextOK
<1>5. Moves(K, p, fetch_next_batch_of_item_ids_from_peer(s, q))
  BY <1>3, <1>4, MovesThen
<1>6. Moves(K, p, p) /\ Moves(K, p, start_synchronizing_with_peer(s, p))
  BY MovesSelf, StartOK
<1> QED
  BY <1>1, <1>3, <1>5, <1>6

LEMMA MisjudgedOK ==
  ASSUME NEW K, NEW p, PeerOK(K, p)
  PROVE  Moves(K, p, disconnect_from_peer([p EXCEPT !.misjudged = TRUE]))
<1> DEFINE q == [p EXCEPT !.misjudged = TRUE]
<1>1. Alike(p, q)
  BY DEF Alike, PeerOK, PeerFields
<1> HIDE DEF q
<1>2. Moves(K, p, q) /\ PeerOK(K, q)
  BY <1>1, AlikeOK DEF Moves
<1>3. Moves(K, p, disconnect_from_peer(q))
  BY <1>2, DisconnectOK, MovesThen
<1> QED
  BY <1>3 DEF q

LEMMA RejectedOK ==
  ASSUME NEW K, NEW p, PeerOK(K, p), NEW b
  PROVE  Moves(K, p, RejectedFrom(p, b))
BY MovesSelf, MisjudgedOK DEF RejectedFrom

-----------------------------------------------------------------------------
(* Handlers of a message that change only the connection it came over.     *)

Turns(K, s, m, t) ==
    \/ t = s
    \/ \E q : /\ Moves(K, s.peer[m], q)
              /\ t = WithPeer(s, m, q) \/ \E l : t = Trigger(WithPeer(s, m, q), l)

LEMMA IdsAskedTurns ==
  ASSUME NEW K, NEW s, ChainOK(K, s), NEW m, PeerOK(K, s.peer[m]), NEW y \in Seq(Blocks)
  PROVE  Turns(K, s, m, on_fetch_blockchain_item_ids_message(s, m, y))
<1> DEFINE reply == get_block_ids(s, y)
           insync == \/ reply.ids = << >>
                     \/ Len(reply.ids) = 1 /\ reply.ids[1] \in Range(y)
           p == [s.peer[m] EXCEPT !.peer_needs_sync_items = ~insync]
           again == /\ ~p.we_need_sync_items
                    /\ y # << >>
                    /\ ~has_item(s, Last(y))
           asked == IF again THEN start_synchronizing_with_peer(s, p) ELSE p
           msg == [type |-> "blockchain_item_ids_inventory",
                   ids |-> reply.ids, remaining |-> reply.remaining]
           told == Send(asked, msg)
           q == IF told.state = "handshaking" THEN new_peer_just_added(s, told) ELSE told
<1>1. on_fetch_blockchain_item_ids_message(s, m, y) = WithPeer(s, m, q)
  BY Zenon DEF on_fetch_blockchain_item_ids_message
<1>2. msg \in Messages
  BY BlockIdsOK, MessageKinds
<1>3. Alike(s.peer[m], p)
  BY DEF Alike, PeerOK, PeerFields
<1> HIDE DEF reply, insync, p, msg
<1>4. Moves(K, s.peer[m], p) /\ PeerOK(K, p)
  BY <1>3, AlikeOK DEF Moves
<1>5. Moves(K, p, start_synchronizing_with_peer(s, p)) /\ Moves(K, p, p)
  BY <1>4, StartOK, MovesSelf
<1> HIDE DEF again
<1>6. Moves(K, p, asked) /\ PeerOK(K, asked)
  BY <1>5 DEF Moves
<1> HIDE DEF asked
<1>7. Moves(K, asked, told) /\ PeerOK(K, told)
  BY <1>2, <1>6, SendOK DEF Moves
<1> HIDE DEF told
<1>8. Moves(K, told, new_peer_just_added(s, told)) /\ Moves(K, told, told)
  BY <1>7, NewPeerOK, MovesSelf
<1>9. Moves(K, told, q)
  BY <1>8
<1> HIDE DEF q
<1>10. Moves(K, s.peer[m], q)
  BY <1>4, <1>6, <1>7, <1>9, MovesThen
<1> QED
  BY <1>1, <1>10, Zenon DEF Turns

LEMMA IdsToldTurns ==
  ASSUME NEW K, NEW s, ChainOK(K, s), NEW m, PeerOK(K, s.peer[m]), NEW ids \in IdLists, NEW remaining
  PROVE  Turns(K, s, m, on_blockchain_item_ids_inventory_message(s, m, ids, remaining))
<1> DEFINE p == s.peer[m]
           reset == [p EXCEPT !.item_ids_requested = NotAsked]
           uptodate == /\ remaining = 0
                       /\ ids = << >> \/ (Len(ids) = 1 /\ has_item(s, ids[1]))
                       /\ p.ids_of_items_to_get = << >>
                       /\ p.number_of_unfetched = 0
           merged == IF ids = << >> THEN reset
                     ELSE IF p.ids_of_items_to_get = << >> THEN FlushKnown(s, m, reset, ids)
                     ELSE ExtendList(reset, ids)
           listed == [merged EXCEPT !.number_of_unfetched = remaining]
           enough == IF remaining # 0 THEN Len(listed.ids_of_items_to_get) > MinIdsToPrefetch
                     ELSE listed.ids_of_items_to_get # << >>
           bad == disconnect_from_peer([p EXCEPT !.misjudged = TRUE])
           ended == [reset EXCEPT !.we_need_sync_items = FALSE]
           further == fetch_next_batch_of_item_ids_from_peer(s, listed)
           t == on_blockchain_item_ids_inventory_message(s, m, ids, remaining)
<1>1. t = IF p.item_ids_requested = NotAsked THEN s
          ELSE IF ~ValidAnswer(p, ids) THEN WithPeer(s, m, bad)
          ELSE IF uptodate THEN WithPeer(s, m, ended)
          ELSE IF enough THEN Trigger(WithPeer(s, m, listed), "fetch_sync_items")
          ELSE WithPeer(s, m, further)
  BY Zenon DEF on_blockchain_item_ids_inventory_message
<1>2. Moves(K, p, bad)
  BY MisjudgedOK
<1>3. PeerOK(K, p)
  OBVIOUS
<1> HIDE DEF t, bad, p
<1>4. Relisted(p, reset, p.ids_of_items_to_get, p.last_block_seen)
  BY <1>3 DEF Relisted, PeerOK, PeerFields
<1>5. Relisted(p, ended, p.ids_of_items_to_get, p.last_block_seen)
  BY <1>3 DEF Relisted, PeerOK, PeerFields
<1>6. ListOK(K, p.ids_of_items_to_get) /\ p.last_block_seen \in K \cup {None}
  BY <1>3 DEF PeerOK
<1> HIDE DEF reset, ended, uptodate
<1>7. Moves(K, p, ended)
  BY <1>3, <1>5, <1>6, RelistedOK
<1>8. ASSUME p.item_ids_requested # NotAsked, ValidAnswer(p, ids)
      PROVE  Moves(K, p, listed) /\ Moves(K, p, further)
  <2>1. \E list, seen : /\ Relisted(p, merged, list, seen)
                        /\ ListOK(K, list) /\ seen \in K \cup {None}
    <3>1. CASE ids = << >>
      <4>1. merged = reset
        BY <3>1
      <4> QED
        BY <1>4, <1>6, <4>1, Zenon
    <3>2. CASE ids # << >>
      <4>1. /\ ids[1] \in Blocks
            /\ \/ ids[1] \in K \cup Range(p.ids_of_items_to_get)
               \/ p.ids_of_items_to_get = << >> /\ Parent[ids[1]] = None
        BY <1>3, <1>8, <3>2, AnswerStart
      <4>2. CASE p.ids_of_items_to_get = << >>
        <5>1. Range(<< >>) = {}
          BY DEF Range
        <5>2. ids[1] \in K \/ Parent[ids[1]] = None
          BY <4>1, <4>2, <5>1
        <5>3. merged = FlushKnown(s, m, reset, ids)
          BY <3>2, <4>2
        <5> HIDE DEF merged
        <5>4. \E list, seen : /\ Relisted(p, FlushKnown(s, m, reset, ids), list, seen)
                              /\ ListOK(K, list) /\ seen \in K \cup {None}
          BY <1>3, <1>4, <3>2, <4>1, <5>2, FlushOK
        <5> QED
          BY <5>3, <5>4
      <4>3. CASE p.ids_of_items_to_get # << >>
        <5>3. merged = ExtendList(reset, ids)
          BY <3>2, <4>3
        <5> HIDE DEF merged
        <5>4. \E list, seen : /\ Relisted(p, ExtendList(reset, ids), list, seen)
                              /\ ListOK(K, list) /\ seen \in K \cup {None}
          BY <1>3, <1>4, <3>2, <4>1, <4>3, ExtendOK
        <5> QED
          BY <5>3, <5>4
      <4> QED
        BY <4>2, <4>3
    <3> QED
      BY <3>1, <3>2
  <2> HIDE DEF merged
  <2>2. PICK list, seen : /\ Relisted(p, merged, list, seen)
                          /\ ListOK(K, list) /\ seen \in K \cup {None}
    BY <2>1
  <2>3. Relisted(p, listed, list, seen)
    BY <2>2 DEF Relisted, PeerFields
  <2> HIDE DEF listed
  <2>4. Moves(K, p, listed) /\ PeerOK(K, listed)
    BY <1>3, <2>2, <2>3, RelistedOK DEF Moves
  <2>5. Moves(K, listed, further)
    BY <2>4, PeerParts, FetchNextOK
  <2> HIDE DEF further
  <2> QED
    BY <2>4, <2>5, MovesThen
<1> HIDE DEF listed, further, enough
<1> QED
  <2>1. CASE p.item_ids_requested = NotAsked
    BY <1>1, <2>1 DEF Turns, t
  <2>2. CASE p.item_ids_requested # NotAsked /\ ~ValidAnswer(p, ids)
    BY <1>1, <1>2, <2>2, Zenon DEF Turns, t, p
  <2>3. CASE p.item_ids_requested # NotAsked /\ ValidAnswer(p, ids)
    <3>1. t = WithPeer(s, m, ended) \/ t = Trigger(WithPeer(s, m, listed), "fetch_sync_items")
          \/ t = WithPeer(s, m, further)
      BY <1>1, <2>3
    <3>2. Moves(K, s.peer[m], ended) /\ Moves(K, s.peer[m], listed) /\ Moves(K, s.peer[m], further)
      BY <1>7, <1>8, <2>3 DEF p
    <3> QED
      BY <3>1, <3>2, Zenon DEF Turns, t
  <2> QED
    BY <2>1, <2>2, <2>3


LEMMA ItemsAskedTurns ==
  ASSUME NEW K, NEW s, ChainOK(K, s), NEW m, PeerOK(K, s.peer[m]),
         NEW items \in Seq(Blocks), items # << >>
  PROVE  Turns(K, s, m, on_fetch_items_message(s, m, items))
<1> DEFINE sent == [k \in DOMAIN items |-> [type |-> "block", block |-> items[k]]]
           p == s.peer[m]
           q == [p EXCEPT !.out = @ \o sent, !.last_block_seen = Last(items)]
<1>1. on_fetch_items_message(s, m, items)
        = IF \E b \in Range(items) : ~has_item(s, b) THEN s ELSE WithPeer(s, m, q)
  BY Zenon DEF on_fetch_items_message
<1>2. CASE \E b \in Range(items) : ~has_item(s, b)
  BY <1>1, <1>2 DEF Turns
<1>3. CASE ~\E b \in Range(items) : ~has_item(s, b)
  <2>1. Len(items) \in Nat /\ Len(items) > 0 /\ DOMAIN items = 1 .. Len(items)
        /\ \A k \in 1 .. Len(items) : items[k] \in Blocks /\ items[k] \in Range(items)
    BY TailFacts, RangeOf
  <2>2. Last(items) \in K
    <3>1. Last(items) = items[Len(items)] /\ Len(items) \in 1 .. Len(items)
      BY <2>1 DEF Last
    <3>2. Last(items) \in Range(items)
      BY <2>1, <3>1
    <3> QED
      BY <1>3, <3>2, ChainFacts DEF has_item
  <2>3. sent \in Seq(Messages)
    <3>1. sent \in [1 .. Len(items) -> Messages]
      BY <2>1, MessageKinds
    <3> HIDE DEF sent
    <3> QED
      BY <2>1, <3>1, IsSeq
  <2> HIDE DEF sent
  <2>4. DOMAIN p = PeerFields /\ p.out \in Seq(Messages)
    BY DEF PeerOK
  <2>5. p.out \o sent \in Seq(Messages)
    BY <2>3, <2>4, ConcatFacts
  <2>6. /\ DOMAIN q = PeerFields /\ q.ids_of_items_to_get = p.ids_of_items_to_get
        /\ q.item_ids_requested = p.item_ids_requested
        /\ q.last_block_seen = Last(items) /\ q.advertised_to_us = p.advertised_to_us
        /\ q.items_requested = p.items_requested /\ q.out = p.out \o sent
        /\ q.sync_items_requested = p.sync_items_requested /\ q.state = p.state
    BY <2>4 DEF PeerFields
  <2> HIDE DEF q
  <2>7. PeerOK(K, q)
    BY <2>2, <2>5, <2>6 DEF PeerOK
  <2>8. Moves(K, s.peer[m], q)
    BY <2>6, <2>7 DEF Moves
  <2> QED
    BY <1>1, <1>3, <2>8, Zenon DEF Turns
<1> QED
  BY <1>2, <1>3

LEMMA ClosingTurns ==
  ASSUME NEW K, NEW s, NEW m, PeerOK(K, s.peer[m])
  PROVE  Turns(K, s, m, on_closing_connection_message(s, m))
<1> DEFINE p == s.peer[m]
           q == [p EXCEPT !.they_requested_close = TRUE, !.shut = @ \/ p.state = "closing"]
<1>1. on_closing_connection_message(s, m) = WithPeer(s, m, q)
  BY Zenon DEF on_closing_connection_message
<1>2. DOMAIN p = PeerFields
  BY DEF PeerOK
<1> DEFINE x == p.shut \/ p.state = "closing"
           r == [p EXCEPT !.they_requested_close = TRUE, !.shut = x]
<1>3. q = r
  BY Zenon
<1> HIDE DEF x
<1>4. Alike(p, r)
  BY <1>2 DEF Alike, PeerFields
<1> HIDE DEF q, r
<1>5. Moves(K, s.peer[m], q)
  BY <1>3, <1>4, AlikeOK
<1> QED
  BY <1>1, <1>5, Zenon DEF Turns

-----------------------------------------------------------------------------
(* Steps of a node.  Tracked is RequestsTracked for one node, with what a  *)
(* new connection needs: a closed one owes nothing.  Keeps says of a step  *)
(* that it keeps the invariant, and leaves the chain and the sync blocks   *)
(* handed to it as they are.                                               *)

Tracked(s) ==
    /\ s.active_sync = UNION {s.peer[m].sync_items_requested : m \in DOMAIN s.peer}
    /\ \A m, o \in DOMAIN s.peer : m # o =>
         s.peer[m].sync_items_requested \cap s.peer[o].sync_items_requested = {}
    /\ \A m \in DOMAIN s.peer : s.peer[m].state = "closed" => s.peer[m].sync_items_requested = {}

Keeps(n, K, s, t) ==
    /\ NodeOK(n, K, t)
    /\ Tracked(s) => Tracked(t)
    /\ t.known = s.known /\ t.handled = s.handled
    /\ t.calls = s.calls \/ \E c : c.kind = "normal" /\ t.calls = Append(s.calls, c)

\* What the steps of connections leave alone.
Rest(s, t) ==
    /\ DOMAIN t = NodeFields
    /\ t.known = s.known /\ t.head = s.head
    /\ t.received = s.received /\ t.new_received = s.new_received
    /\ t.calls = s.calls /\ t.handled = s.handled
    /\ t.active_sync = s.active_sync
    /\ t.recent \subseteq t.known \cup {None}
    /\ t.items_to_fetch \subseteq Blocks /\ t.new_inventory \subseteq Blocks

LEMMA TrackedMoves ==
  ASSUME NEW s, NEW t, DOMAIN t.peer = DOMAIN s.peer, t.active_sync = s.active_sync, Tracked(s),
         \A m \in DOMAIN s.peer :
           /\ t.peer[m].sync_items_requested = s.peer[m].sync_items_requested
           /\ t.peer[m].state = "closed" => s.peer[m].state = "closed"
  PROVE  Tracked(t)
<1>1. UNION {t.peer[m].sync_items_requested : m \in DOMAIN t.peer}
        = UNION {s.peer[m].sync_items_requested : m \in DOMAIN s.peer}
  OBVIOUS
<1>2. \A m, o \in DOMAIN t.peer : m # o =>
         t.peer[m].sync_items_requested \cap t.peer[o].sync_items_requested = {}
  BY DEF Tracked
<1>3. \A m \in DOMAIN t.peer : t.peer[m].state = "closed" => t.peer[m].sync_items_requested = {}
  BY DEF Tracked
<1> QED
  BY <1>1, <1>2, <1>3 DEF Tracked

LEMMA NodeMoves ==
  ASSUME NEW n, NEW K, NEW s, NodeOK(n, K, s), NEW t, Rest(s, t), DOMAIN t.peer = Neighbours(n),
         \A m \in Neighbours(n) : Moves(K, s.peer[m], t.peer[m])
  PROVE  Keeps(n, K, s, t)
<1>1. ChainOK(K, t)
  BY DEF NodeOK, ChainOK, Rest
<1>2. TasksOK(t)
  BY DEF NodeOK, TasksOK, Rest
<1>3. NodeOK(n, K, t)
  BY <1>1, <1>2 DEF NodeOK, Rest, Moves
<1>4. Tracked(s) => Tracked(t)
  BY TrackedMoves DEF NodeOK, Rest, Moves
<1> QED
  BY <1>3, <1>4 DEF Keeps, Rest

\* Other connections, and perhaps a loop triggered.
Rewired(s, x, t) == t = [s EXCEPT !.peer = x] \/ \E y : t = [s EXCEPT !.peer = x, !.due = y]

LEMMA RestOf ==
  ASSUME NEW n, NEW K, NEW s, NodeOK(n, K, s), NEW x, NEW t, Rewired(s, x, t)
  PROVE  Rest(s, t) /\ t.peer = x
<1>1. DOMAIN s = NodeFields /\ s.recent \subseteq s.known \cup {None}
      /\ s.items_to_fetch \subseteq Blocks /\ s.new_inventory \subseteq Blocks
  BY DEF NodeOK, ChainOK, TasksOK
<1>2. /\ DOMAIN t = NodeFields /\ t.peer = x
      /\ t.known = s.known /\ t.head = s.head
      /\ t.received = s.received /\ t.new_received = s.new_received
      /\ t.calls = s.calls /\ t.handled = s.handled
      /\ t.active_sync = s.active_sync /\ t.recent = s.recent
      /\ t.items_to_fetch = s.items_to_fetch /\ t.new_inventory = s.new_inventory
  BY <1>1 DEF NodeFields, Rewired
<1> QED
  BY <1>1, <1>2 DEF Rest

LEMMA RestSelf ==
  ASSUME NEW n, NEW K, NEW s, NodeOK(n, K, s)
  PROVE  Rest(s, s)
BY DEF NodeOK, ChainOK, TasksOK, Rest

LEMMA TurnsOK ==
  ASSUME NEW n, NEW K, NEW s, NodeOK(n, K, s), NEW m \in Neighbours(n), NEW t, Turns(K, s, m, t)
  PROVE  Keeps(n, K, s, t)
<1>1. CASE t = s
  <2>1. \A o \in Neighbours(n) : Moves(K, s.peer[o], s.peer[o])
    BY MovesSelf DEF NodeOK
  <2>2. Rest(s, s) /\ DOMAIN s.peer = Neighbours(n)
    BY RestSelf DEF NodeOK
  <2>3. Keeps(n, K, s, s)
    BY <2>1, <2>2, NodeMoves
  <2> QED
    BY <1>1, <2>3
<1>2. CASE t # s
  <2>1. PICK q : /\ Moves(K, s.peer[m], q)
                 /\ t = WithPeer(s, m, q) \/ \E l : t = Trigger(WithPeer(s, m, q), l)
    BY <1>2 DEF Turns
  <2> DEFINE x == [s.peer EXCEPT ![m] = q]
  <2>2. Rewired(s, x, t)
    <3>1. WithPeer(s, m, q) = [s EXCEPT !.peer = x]
      BY DEF WithPeer
    <3>2. CASE t = WithPeer(s, m, q)
      BY <3>1, <3>2 DEF Rewired
    <3>3. CASE \E l : t = Trigger(WithPeer(s, m, q), l)
      <4>1. PICK l : t = Trigger(WithPeer(s, m, q), l)
        BY <3>3
      <4> HIDE DEF x
      <4>2. DOMAIN s = NodeFields
        BY DEF NodeOK
      <4>3. t = [s EXCEPT !.peer = x, !.due = s.due \cup {l}]
        BY <3>1, <4>1, <4>2 DEF Trigger, NodeFields
      <4> QED
        BY <4>3, Zenon DEF Rewired
    <3> QED
      BY <2>1, <3>2, <3>3
  <2>3. DOMAIN x = Neighbours(n) /\ \A o \in Neighbours(n) : Moves(K, s.peer[o], x[o])
    BY <2>1, MovesSelf DEF NodeOK
  <2> HIDE DEF x
  <2>4. Rest(s, t) /\ t.peer = x
    BY <2>2, RestOf
  <2> QED
    BY <2>3, <2>4, NodeMoves
<1> QED
  BY <1>1, <1>2


LEMMA NodeParts ==
  ASSUME NEW n, NEW K, NEW s, NodeOK(n, K, s)
  PROVE  /\ DOMAIN s = NodeFields /\ DOMAIN s.peer = Neighbours(n)
         /\ ChainOK(K, s) /\ s.known \subseteq K /\ K \subseteq Blocks
         /\ s.recent \subseteq s.known \cup {None}
         /\ s.items_to_fetch \subseteq Blocks /\ s.new_inventory \subseteq Blocks
         /\ s.calls \in Seq(Calls(Neighbours(n))) /\ s.handled \in Seq(Calls(Neighbours(n)))
         /\ s.received \in Seq(Blocks) /\ s.new_received \in Seq(Blocks)
         /\ \A m \in Neighbours(n) : PeerOK(K, s.peer[m])
BY DEF NodeOK, ChainOK, TasksOK

LEMMA KeepsThen ==
  ASSUME NEW n, NEW K, NEW s, NEW t, Keeps(n, K, s, t), NEW u, Keeps(n, K, t, u),
         t.calls = s.calls \/ u.calls = t.calls
  PROVE  Keeps(n, K, s, u)
BY DEF Keeps

LEMMA KeepsSelf ==
  ASSUME NEW n, NEW K, NEW s, NodeOK(n, K, s)
  PROVE  Keeps(n, K, s, s)
BY DEF Keeps

LEMMA TriggerOK ==
  ASSUME NEW n, NEW K, NEW s, NodeOK(n, K, s), NEW l
  PROVE  Keeps(n, K, s, Trigger(s, l)) /\ Trigger(s, l).calls = s.calls
<1>1. Trigger(s, l) = [s EXCEPT !.peer = s.peer, !.due = s.due \cup {l}]
  BY NodeParts DEF Trigger, NodeFields
<1>2. Rewired(s, s.peer, Trigger(s, l))
  BY <1>1, Zenon DEF Rewired
<1>3. Rest(s, Trigger(s, l)) /\ Trigger(s, l).peer = s.peer
  BY <1>2, RestOf
<1>4. \A m \in Neighbours(n) : Moves(K, s.peer[m], Trigger(s, l).peer[m])
  BY <1>3, MovesSelf, NodeParts
<1>5. DOMAIN Trigger(s, l).peer = Neighbours(n)
  BY <1>3, NodeParts
<1> QED
  BY <1>3, <1>4, <1>5, NodeMoves DEF Rest

LEMMA FetchMoreOK ==
  ASSUME NEW n, NEW K, NEW s, NodeOK(n, K, s), NEW m
  PROVE  Keeps(n, K, s, FetchMore(s, m)) /\ FetchMore(s, m).calls = s.calls
<1>1. FetchMore(s, m) = s \/ FetchMore(s, m) = Trigger(s, "fetch_items")
  BY DEF FetchMore
<1> QED
  BY <1>1, TriggerOK, KeepsSelf

LEMMA BlockAcceptedOK ==
  ASSUME NEW n, NEW K, NEW s, NodeOK(n, K, s), NEW b \in s.known
  PROVE  Keeps(n, K, s, BlockAccepted(s, b)) /\ BlockAccepted(s, b).calls = s.calls
<1> DEFINE x == [m \in DOMAIN s.peer |-> IF m \in Active(s) /\ b \in s.peer[m].advertised_to_us
                                  THEN [s.peer[m] EXCEPT !.last_block_seen = b]
                                  ELSE s.peer[m]]
           t == BlockAccepted(s, b)
<1>0. /\ DOMAIN s = NodeFields /\ DOMAIN s.peer = Neighbours(n) /\ b \in K /\ b \in Blocks
      /\ s.recent \subseteq s.known \cup {None}
      /\ s.items_to_fetch \subseteq Blocks /\ s.new_inventory \subseteq Blocks
  BY NodeParts
<1>1. t = broadcast([s EXCEPT !.peer = x], b)
  BY DEF BlockAccepted
<1>2. DOMAIN x = Neighbours(n)
  BY <1>0
<1>3. ASSUME NEW m \in Neighbours(n) PROVE Moves(K, s.peer[m], x[m])
  <2> DEFINE p == s.peer[m]
             q == [p EXCEPT !.last_block_seen = b]
  <2>1. PeerOK(K, p)
    BY NodeParts
  <2>2. x[m] = p \/ x[m] = q
    BY <1>0
  <2>3. Moves(K, p, p)
    BY <2>1, MovesSelf
  <2>4. /\ DOMAIN q = PeerFields /\ q.ids_of_items_to_get = p.ids_of_items_to_get
        /\ q.item_ids_requested = p.item_ids_requested
        /\ q.last_block_seen = b /\ q.advertised_to_us = p.advertised_to_us
        /\ q.items_requested = p.items_requested /\ q.out = p.out
        /\ q.sync_items_requested = p.sync_items_requested /\ q.state = p.state
    BY <2>1 DEF PeerOK, PeerFields
  <2> HIDE DEF q, p
  <2>5. Moves(K, p, q)
    BY <1>0, <2>1, <2>4, SeenOK
  <2> QED
    BY <2>2, <2>3, <2>5 DEF p
<1> HIDE DEF x, t
<1>4. /\ DOMAIN t = NodeFields /\ t.peer = x
      /\ t.known = s.known /\ t.head = s.head
      /\ t.received = s.received /\ t.new_received = s.new_received
      /\ t.calls = s.calls /\ t.handled = s.handled
      /\ t.active_sync = s.active_sync /\ t.recent = s.recent \cup {b}
      /\ t.items_to_fetch = s.items_to_fetch /\ t.new_inventory = s.new_inventory \cup {b}
  BY <1>0, <1>1 DEF NodeFields, broadcast
<1>5. Rest(s, t)
  BY <1>0, <1>4 DEF Rest
<1>6. Keeps(n, K, s, t)
  BY <1>2, <1>3, <1>4, <1>5, NodeMoves
<1> QED
  BY <1>4, <1>6 DEF t

\* A step of one connection.
LEMMA WithPeerOK ==
  ASSUME NEW n, NEW K, NEW s, NodeOK(n, K, s), NEW m \in Neighbours(n), NEW q, Moves(K, s.peer[m], q)
  PROVE  /\ Keeps(n, K, s, WithPeer(s, m, q)) /\ WithPeer(s, m, q).calls = s.calls
         /\ WithPeer(s, m, q).recent = s.recent /\ WithPeer(s, m, q).peer[m] = q
<1>1. Turns(K, s, m, WithPeer(s, m, q))
  BY Zenon DEF Turns
<1>2. DOMAIN s = NodeFields /\ DOMAIN s.peer = Neighbours(n)
  BY NodeParts
<1>3. WithPeer(s, m, q).calls = s.calls /\ WithPeer(s, m, q).recent = s.recent
      /\ WithPeer(s, m, q).peer[m] = q
  BY <1>2 DEF WithPeer, NodeFields
<1> QED
  BY <1>1, <1>3, TurnsOK

LEMMA CallOK ==
  ASSUME NEW n, NEW K, NEW s, NodeOK(n, K, s), NEW c \in Calls(Neighbours(n)),
         NEW t, t = [s EXCEPT !.calls = Append(s.calls, c)]
  PROVE  /\ NodeOK(n, K, t) /\ (Tracked(s) => Tracked(t))
         /\ t.known = s.known /\ t.handled = s.handled /\ t.calls = Append(s.calls, c)
<1>1. DOMAIN s = NodeFields
  BY NodeParts
<1>2. /\ DOMAIN t = NodeFields /\ t.peer = s.peer
      /\ t.known = s.known /\ t.head = s.head
      /\ t.received = s.received /\ t.new_received = s.new_received
      /\ t.calls = Append(s.calls, c) /\ t.handled = s.handled
      /\ t.active_sync = s.active_sync /\ t.recent = s.recent
      /\ t.items_to_fetch = s.items_to_fetch /\ t.new_inventory = s.new_inventory
  BY <1>1 DEF NodeFields
<1>3. ChainOK(K, t)
  BY <1>2 DEF NodeOK, ChainOK
<1>4. t.calls \in Seq(Calls(DOMAIN t.peer))
  BY <1>2, NodeParts, AppendFacts
<1>5. TasksOK(t)
  BY <1>2, <1>4 DEF NodeOK, TasksOK
<1>6. NodeOK(n, K, t)
  BY <1>2, <1>3, <1>5 DEF NodeOK
<1>7. Tracked(s) => Tracked(t)
  BY <1>2 DEF Tracked
<1> QED
  BY <1>2, <1>6, <1>7

LEMMA ItemTaken ==
  ASSUME NEW K, NEW p, PeerOK(K, p), NEW b
  PROVE  Moves(K, p, [p EXCEPT !.items_requested = @ \ {b}])
<1> DEFINE q == [p EXCEPT !.items_requested = @ \ {b}]
<1>1. /\ DOMAIN q = PeerFields /\ q.ids_of_items_to_get = p.ids_of_items_to_get
      /\ q.item_ids_requested = p.item_ids_requested
      /\ q.last_block_seen = p.last_block_seen /\ q.advertised_to_us = p.advertised_to_us
      /\ q.items_requested = p.items_requested \ {b} /\ q.out = p.out
      /\ q.sync_items_requested = p.sync_items_requested /\ q.state = p.state
  BY DEF PeerOK, PeerFields
<1> HIDE DEF q
<1>2. q.items_requested \subseteq Blocks
  BY <1>1 DEF PeerOK
<1>3. PeerOK(K, q)
  BY <1>1, <1>2 DEF PeerOK
<1>4. Moves(K, p, q)
  BY <1>1, <1>3 DEF Moves
<1> QED
  BY <1>4 DEF q

LEMMA TrackedBy ==
  ASSUME NEW t, NEW N, DOMAIN t.peer = N,
         t.active_sync = UNION {t.peer[o].sync_items_requested : o \in N},
         \A a, o \in N : a # o => t.peer[a].sync_items_requested \cap t.peer[o].sync_items_requested = {},
         \A o \in N : t.peer[o].state = "closed" => t.peer[o].sync_items_requested = {}
  PROVE  Tracked(t)
BY DEF Tracked

\* A sync block arrives: nobody owes it any more.
Arrived(s, m, b) ==
    process_block_during_sync([s EXCEPT !.peer[m].sync_items_requested = @ \ {b},
                                        !.active_sync = @ \ {b}], b)

LEMMA SyncArrived ==
  ASSUME NEW n, NEW K, NEW s, NodeOK(n, K, s), NEW m \in Neighbours(n), NEW b \in Blocks,
         b \in s.peer[m].sync_items_requested,
         NEW t, t = Arrived(s, m, b)
  PROVE  Keeps(n, K, s, t) /\ t.calls = s.calls /\ DOMAIN t.peer = Neighbours(n)
<1> DEFINE p == s.peer[m]
           q == [p EXCEPT !.sync_items_requested = p.sync_items_requested \ {b}]
           x == [s.peer EXCEPT ![m] = q]
<1>1. DOMAIN s = NodeFields /\ DOMAIN s.peer = Neighbours(n) /\ PeerOK(K, p)
  BY NodeParts
<1>2. /\ DOMAIN t = NodeFields /\ t.peer = x
      /\ t.known = s.known /\ t.head = s.head
      /\ t.received = s.received /\ t.new_received = <<b>> \o s.new_received
      /\ t.calls = s.calls /\ t.handled = s.handled
      /\ t.active_sync = s.active_sync \ {b} /\ t.recent = s.recent
      /\ t.items_to_fetch = s.items_to_fetch /\ t.new_inventory = s.new_inventory
  BY <1>1 DEF NodeFields, Arrived, process_block_during_sync, Trigger
<1>3. /\ DOMAIN q = PeerFields
      /\ q.ids_of_items_to_get = p.ids_of_items_to_get
      /\ q.item_ids_requested = p.item_ids_requested
      /\ q.last_block_seen = p.last_block_seen /\ q.advertised_to_us = p.advertised_to_us
      /\ q.items_requested = p.items_requested /\ q.out = p.out
      /\ q.sync_items_requested = p.sync_items_requested \ {b} /\ q.state = p.state
  BY <1>1 DEF PeerOK, PeerFields
<1>4. x[m] = q /\ \A o \in Neighbours(n) : o # m => x[o] = s.peer[o]
  BY <1>1
<1>4a. DOMAIN x = Neighbours(n)
  BY <1>1
<1> HIDE DEF q, x
<1>5. \A o \in Neighbours(n) : PeerOK(K, x[o])
  BY <1>1, <1>3, <1>4, PeerKept, NodeParts
<1>6. t.new_received \in Seq(Blocks)
  <2>1. <<b>> \in Seq(Blocks) /\ s.new_received \in Seq(Blocks)
    BY NodeParts
  <2> QED
    BY <1>2, <2>1, ConcatFacts
<1>7. ChainOK(K, t)
  BY <1>2 DEF NodeOK, ChainOK
<1>8. TasksOK(t)
  BY <1>1, <1>2, <1>4a, <1>6 DEF NodeOK, TasksOK
<1>9. NodeOK(n, K, t)
  BY <1>2, <1>4a, <1>5, <1>7, <1>8 DEF NodeOK
<1>10. ASSUME Tracked(s) PROVE Tracked(t)
  <2>1. \A o \in Neighbours(n) : t.peer[o].sync_items_requested = s.peer[o].sync_items_requested \ {b}
    <3>1. ASSUME NEW o \in Neighbours(n), o # m PROVE b \notin s.peer[o].sync_items_requested
      BY <1>1, <1>10, <3>1 DEF Tracked
    <3> QED
      BY <1>2, <1>3, <1>4, <3>1
  <2>2. \A o \in Neighbours(n) : t.peer[o].state = s.peer[o].state
    BY <1>2, <1>3, <1>4
  <2>3. t.active_sync = UNION {t.peer[o].sync_items_requested : o \in Neighbours(n)}
    <3>1. s.active_sync = UNION {s.peer[o].sync_items_requested : o \in Neighbours(n)}
      BY <1>1, <1>10 DEF Tracked
    <3> QED
      BY <1>2, <2>1, <3>1
  <2>4. \A a, o \in Neighbours(n) : a # o => t.peer[a].sync_items_requested \cap t.peer[o].sync_items_requested = {}
    BY <1>1, <1>10, <2>1 DEF Tracked
  <2>5. \A o \in Neighbours(n) : t.peer[o].state = "closed" => t.peer[o].sync_items_requested = {}
    BY <1>1, <1>10, <2>1, <2>2 DEF Tracked
  <2> QED
    BY <1>2, <1>4a, <2>3, <2>4, <2>5, TrackedBy
<1> QED
  BY <1>2, <1>4a, <1>9, <1>10 DEF Keeps

LEMMA BlockArrived ==
  ASSUME NEW n, NEW K, NEW s, NodeOK(n, K, s), NEW m \in Neighbours(n), NEW b \in Blocks
  PROVE  Keeps(n, K, s, process_block_message(s, m, b))
<1> DEFINE p == s.peer[m]
           asItem == [s EXCEPT !.peer[m].items_requested = @ \ {b}]
           asSync == process_block_during_sync([s EXCEPT !.peer[m].sync_items_requested = @ \ {b},
                                                         !.active_sync = @ \ {b}], b)
           q == asSync.peer[m]
           c == [kind |-> "normal", from |-> m, block |-> b, result |-> "none"]
           waits == [asItem EXCEPT !.peer[m].pushing = TRUE, !.calls = Append(@, c)]
           known == FetchMore(BlockAccepted(asItem, b), m)
           more == WithPeer(asSync, m, fetch_next_batch_of_item_ids_from_peer(asSync, q))
           bad == WithPeer(s, m, disconnect_from_peer([p EXCEPT !.misjudged = TRUE]))
           t == process_block_message(s, m, b)
<1>1. t = IF b \in p.items_requested
          THEN IF b \in s.recent THEN known ELSE waits
          ELSE IF b \in p.sync_items_requested
          THEN IF ~idle(q) THEN asSync
               ELSE IF q.number_of_unfetched > 0 /\ Len(q.ids_of_items_to_get) < MinIdsToPrefetch
               THEN more ELSE Trigger(asSync, "fetch_sync_items")
          ELSE bad
  BY Zenon DEF process_block_message
<1>2. DOMAIN s = NodeFields /\ DOMAIN s.peer = Neighbours(n) /\ PeerOK(K, p)
  BY NodeParts
<1>3. Keeps(n, K, s, bad)
  BY <1>2, MisjudgedOK, WithPeerOK
<1>4. /\ Keeps(n, K, s, asItem) /\ asItem.calls = s.calls /\ asItem.recent = s.recent
      /\ NodeOK(n, K, asItem) /\ asItem.known = s.known
  <2> DEFINE r == [p EXCEPT !.items_requested = @ \ {b}]
  <2>1. asItem = WithPeer(s, m, r)
    BY <1>2 DEF WithPeer
  <2>2. Moves(K, p, r)
    BY <1>2, ItemTaken
  <2> HIDE DEF asItem, r
  <2>3. Keeps(n, K, s, asItem) /\ asItem.calls = s.calls /\ asItem.recent = s.recent
    BY <2>1, <2>2, WithPeerOK
  <2> QED
    BY <2>3 DEF Keeps
<1>5. ASSUME b \in s.recent PROVE Keeps(n, K, s, known)
  <2> HIDE DEF asItem
  <2>1. b \in asItem.known
    BY <1>4, <1>5, NodeParts, Numbers
  <2> DEFINE u == BlockAccepted(asItem, b)
  <2>2. Keeps(n, K, asItem, u) /\ u.calls = asItem.calls
    BY <1>4, <2>1, BlockAcceptedOK
  <2> HIDE DEF u
  <2>3. Keeps(n, K, u, FetchMore(u, m)) /\ FetchMore(u, m).calls = u.calls
    BY <2>2, FetchMoreOK DEF Keeps
  <2>4. Keeps(n, K, s, u) /\ u.calls = s.calls
    BY <1>4, <2>2, KeepsThen
  <2>5. Keeps(n, K, s, FetchMore(u, m))
    BY <2>3, <2>4, KeepsThen
  <2> QED
    BY <2>5 DEF u
<1>6. Keeps(n, K, s, waits)
  <2> DEFINE a == asItem.peer[m]
             r == [a EXCEPT !.pushing = TRUE]
             u == WithPeer(asItem, m, r)
  <2> HIDE DEF asItem
  <2>0. DOMAIN asItem = NodeFields /\ DOMAIN asItem.peer = Neighbours(n) /\ PeerOK(K, a)
    BY <1>4, NodeParts
  <2>1. waits = [u EXCEPT !.calls = Append(u.calls, c)]
    BY <2>0 DEF WithPeer, NodeFields
  <2> HIDE DEF waits
  <2>2. Alike(a, r)
    BY <2>0 DEF Alike, PeerOK, PeerFields
  <2> HIDE DEF r
  <2>3. Moves(K, a, r)
    BY <2>0, <2>2, AlikeOK
  <2>4. Keeps(n, K, asItem, u) /\ u.calls = asItem.calls
    BY <1>4, <2>3, WithPeerOK
  <2> HIDE DEF u
  <2>5. c \in Calls(Neighbours(n))
    BY DEF Calls, Neighbours
  <2>6. c.kind = "normal"
    OBVIOUS
  <2> HIDE DEF c
  <2>7. Keeps(n, K, s, u) /\ u.calls = s.calls
    BY <1>4, <2>4, KeepsThen
  <2>8. /\ NodeOK(n, K, waits) /\ (Tracked(u) => Tracked(waits))
        /\ waits.known = u.known /\ waits.handled = u.handled /\ waits.calls = Append(u.calls, c)
    BY <2>1, <2>5, <2>7, CallOK DEF Keeps
  <2> QED
    BY <2>6, <2>7, <2>8 DEF Keeps
<1>7. ASSUME b \in p.sync_items_requested
      PROVE  /\ Keeps(n, K, s, asSync) /\ Keeps(n, K, s, more)
             /\ Keeps(n, K, s, Trigger(asSync, "fetch_sync_items"))
  <2>1. Keeps(n, K, s, asSync) /\ asSync.calls = s.calls
    <3>1. asSync = Arrived(s, m, b)
      BY DEF Arrived
    <3> HIDE DEF asSync
    <3> QED
      BY <1>7, <3>1, SyncArrived
  <2> HIDE DEF asSync
  <2>2. NodeOK(n, K, asSync)
    BY <2>1 DEF Keeps
  <2>3. PeerOK(K, q) /\ ChainOK(K, asSync)
    BY <2>2, NodeParts
  <2>4. Moves(K, q, fetch_next_batch_of_item_ids_from_peer(asSync, q))
    BY <2>3, PeerParts, FetchNextOK
  <2>5. Keeps(n, K, asSync, more)
    BY <2>2, <2>4, WithPeerOK
  <2>6. Keeps(n, K, asSync, Trigger(asSync, "fetch_sync_items"))
    BY <2>2, TriggerOK
  <2> QED
    BY <2>1, <2>5, <2>6, KeepsThen
<1> HIDE DEF p, asItem, asSync, q, waits, known, more, bad, t
<1>8. Keeps(n, K, s, t)
  BY <1>1, <1>3, <1>5, <1>6, <1>7
<1> QED
  BY <1>8 DEF t


LEMMA SetToSeqOK ==
  ASSUME NEW D, NEW S, S \subseteq D, S # {}, IsFiniteSet(S)
  PROVE  SetToSeq(S) \in Seq(D) /\ SetToSeq(S) # << >>
<1> DEFINE n == Cardinality(S)
<1>1. n \in Nat /\ ExistsBijection(1 .. n, S)
  BY FS_CardinalityType
<1>2. n # 0
  BY <1>1, FS_EmptySet
<1> HIDE DEF n
<1>3. \E f \in [1 .. n -> S] : IsInjective(f)
  BY <1>1 DEF ExistsBijection, Bijection, Injection
<1>4. SetToSeq(S) = CHOOSE f \in [1 .. n -> S] : IsInjective(f)
  BY DEF SetToSeq, n
<1>5. SetToSeq(S) \in [1 .. n -> S]
  BY <1>3, <1>4
<1>6. SetToSeq(S) \in Seq(S) /\ Len(SetToSeq(S)) = n
  BY <1>1, <1>5, IsSeq
<1>7. SetToSeq(S) # << >>
  BY <1>2, <1>6
<1> QED
  BY <1>6, <1>7, SeqWider

\* The announcement of blocks.
LEMMA InventoryTold ==
  ASSUME NEW n, NEW K, NEW s, NodeOK(n, K, s), NEW m \in Neighbours(n), NEW items \in SUBSET Blocks
  PROVE  Keeps(n, K, s, on_item_ids_inventory_message(s, m, items))
<1> DEFINE announced == UNION {s.peer[o].advertised_to_peer : o \in Active(s)}
           requested == UNION {s.peer[o].items_requested : o \in Active(s)}
           new == items \ announced
           fetch == new \ (requested \cup s.items_to_fetch)
           t == [s EXCEPT !.peer[m].advertised_to_us = @ \cup new,
                          !.items_to_fetch = @ \cup fetch]
           u == on_item_ids_inventory_message(s, m, items)
<1>1. u = IF fetch = {} THEN t ELSE Trigger(t, "fetch_items")
  BY Zenon DEF on_item_ids_inventory_message
<1>2. new \subseteq Blocks /\ fetch \subseteq Blocks
  OBVIOUS
<1> HIDE DEF new, fetch, u
<1> DEFINE p == s.peer[m]
           q == [p EXCEPT !.advertised_to_us = p.advertised_to_us \cup new]
           x == [s.peer EXCEPT ![m] = q]
<1>3. DOMAIN s = NodeFields /\ DOMAIN s.peer = Neighbours(n) /\ PeerOK(K, p)
      /\ s.items_to_fetch \subseteq Blocks
      /\ s.recent \subseteq s.known \cup {None} /\ s.new_inventory \subseteq Blocks
  BY NodeParts
<1>4. /\ DOMAIN t = NodeFields /\ t.peer = x
      /\ t.known = s.known /\ t.head = s.head
      /\ t.received = s.received /\ t.new_received = s.new_received
      /\ t.calls = s.calls /\ t.handled = s.handled
      /\ t.active_sync = s.active_sync /\ t.recent = s.recent
      /\ t.items_to_fetch = s.items_to_fetch \cup fetch /\ t.new_inventory = s.new_inventory
  BY <1>3 DEF NodeFields
<1>5. /\ DOMAIN q = PeerFields
      /\ q.ids_of_items_to_get = p.ids_of_items_to_get
      /\ q.item_ids_requested = p.item_ids_requested
      /\ q.last_block_seen = p.last_block_seen
      /\ q.advertised_to_us = p.advertised_to_us \cup new
      /\ q.items_requested = p.items_requested /\ q.out = p.out
      /\ q.sync_items_requested = p.sync_items_requested /\ q.state = p.state
  BY <1>3 DEF PeerOK, PeerFields
<1>6. DOMAIN x = Neighbours(n) /\ x[m] = q /\ \A o \in Neighbours(n) : o # m => x[o] = s.peer[o]
  BY <1>3
<1> HIDE DEF q, x, t
<1>7. q.advertised_to_us \subseteq Blocks
  BY <1>2, <1>3, <1>5 DEF PeerOK
<1>8. PeerOK(K, q)
  BY <1>3, <1>5, <1>7 DEF PeerOK
<1>9. Moves(K, p, q)
  BY <1>5, <1>8 DEF Moves
<1>10. \A o \in Neighbours(n) : Moves(K, s.peer[o], x[o])
  BY <1>6, <1>9, MovesSelf, NodeParts
<1>11. Rest(s, t)
  BY <1>2, <1>3, <1>4 DEF Rest
<1>12. Keeps(n, K, s, t) /\ t.calls = s.calls
  BY <1>4, <1>6, <1>10, <1>11, NodeMoves
<1>13. Keeps(n, K, t, Trigger(t, "fetch_items"))
  BY <1>12, TriggerOK DEF Keeps
<1>14. Keeps(n, K, s, Trigger(t, "fetch_items"))
  BY <1>12, <1>13, KeepsThen
<1>15. Keeps(n, K, s, u)
  BY <1>1, <1>12, <1>14
<1> QED
  BY <1>15 DEF u

\* After handle_block of a sync block.
LEMMA SyncHandledOK ==
  ASSUME NEW n, NEW K, NEW s, NodeOK(n, K, s), NEW b, NEW result,
         result = "accepted" => b \in s.known
  PROVE  Keeps(n, K, s, SyncBlockHandled(s, b, result))
<1> DEFINE t == IF result = "accepted" THEN [s EXCEPT !.recent = @ \cup {b}] ELSE s
           After(p) == IF p.state # "active" THEN p
                       ELSE IF result = "accepted" THEN AcceptedFrom(t, p, b)
                       ELSE RejectedFrom(p, b)
           x == [m \in DOMAIN s.peer |-> After(t.peer[m])]
           u == [t EXCEPT !.peer = x]
           v == SyncBlockHandled(s, b, result)
<1>1. v = Trigger(u, "backlog")
  BY Zenon DEF SyncBlockHandled
<1>2. /\ DOMAIN s = NodeFields /\ DOMAIN s.peer = Neighbours(n)
      /\ s.items_to_fetch \subseteq Blocks /\ s.known \subseteq K
      /\ s.recent \subseteq s.known \cup {None} /\ s.new_inventory \subseteq Blocks
  BY NodeParts
<1> DEFINE rec == IF result = "accepted" THEN s.recent \cup {b} ELSE s.recent
<1>3. /\ DOMAIN t = NodeFields /\ t.peer = s.peer
      /\ t.known = s.known /\ t.head = s.head
      /\ t.received = s.received /\ t.new_received = s.new_received
      /\ t.calls = s.calls /\ t.handled = s.handled
      /\ t.active_sync = s.active_sync /\ t.recent = rec
      /\ t.items_to_fetch = s.items_to_fetch /\ t.new_inventory = s.new_inventory
  BY <1>2 DEF NodeFields
<1>4. rec \subseteq s.known \cup {None}
  BY <1>2
<1> HIDE DEF rec, t, v
<1>5. ChainOK(K, t)
  BY <1>3, <1>4 DEF NodeOK, ChainOK
<1>6. ASSUME NEW m \in Neighbours(n) PROVE Moves(K, s.peer[m], x[m])
  <2> DEFINE p == s.peer[m]
  <2>1. PeerOK(K, p) /\ x[m] = After(p)
    BY <1>2, <1>3, NodeParts
  <2> HIDE DEF p, x
  <2>2. Moves(K, p, p) /\ Moves(K, p, RejectedFrom(p, b))
    BY <2>1, MovesSelf, RejectedOK
  <2>3. result = "accepted" => Moves(K, p, AcceptedFrom(t, p, b))
    BY <1>2, <1>5, <2>1, AcceptedOK
  <2> QED
    BY <2>1, <2>2, <2>3 DEF p
<1>7. DOMAIN x = Neighbours(n)
  BY <1>2
<1> HIDE DEF x
<1>8. /\ DOMAIN u = NodeFields /\ u.peer = x
      /\ u.known = s.known /\ u.head = s.head
      /\ u.received = s.received /\ u.new_received = s.new_received
      /\ u.calls = s.calls /\ u.handled = s.handled
      /\ u.active_sync = s.active_sync /\ u.recent = rec
      /\ u.items_to_fetch = s.items_to_fetch /\ u.new_inventory = s.new_inventory
  BY <1>3 DEF NodeFields
<1> HIDE DEF u
<1>9. Rest(s, u)
  BY <1>2, <1>4, <1>8 DEF Rest
<1>10. Keeps(n, K, s, u) /\ u.calls = s.calls
  BY <1>6, <1>7, <1>8, <1>9, NodeMoves
<1>11. Keeps(n, K, u, v)
  BY <1>1, <1>10, TriggerOK DEF Keeps
<1>12. Keeps(n, K, s, v)
  BY <1>10, <1>11, KeepsThen
<1> QED
  BY <1>12 DEF v

\* After handle_block of an announced block.
LEMMA NormalHandledOK ==
  ASSUME NEW n, NEW K, NEW s, NodeOK(n, K, s), NEW m \in Neighbours(n), NEW b, NEW result,
         result = "accepted" => b \in s.known,
         result \in {"none", "accepted", "rejected", "unlinkable"}
  PROVE  Keeps(n, K, s, NormalBlockHandled(s, m, b, result))
<1> DEFINE t == [s EXCEPT !.peer[m].pushing = FALSE]
           offers(o) == \/ o = m
                        \/ /\ o \in Active(t)
                           /\ t.peer[o].ids_of_items_to_get # << >>
                           /\ t.peer[o].ids_of_items_to_get[1] = b
           x == [o \in DOMAIN s.peer |-> IF offers(o)
                                  THEN disconnect_from_peer([t.peer[o] EXCEPT !.misjudged = TRUE])
                                  ELSE t.peer[o]]
           again == WithPeer(t, m, start_synchronizing_with_peer(t, t.peer[m]))
           bad == [t EXCEPT !.peer = x]
           u == CASE result = "accepted" -> BlockAccepted(t, b)
                  [] result = "unlinkable" -> again
                  [] OTHER -> bad
           v == NormalBlockHandled(s, m, b, result)
<1>1. v = FetchMore(u, m)
  BY Zenon DEF NormalBlockHandled
<1>2. DOMAIN s = NodeFields /\ DOMAIN s.peer = Neighbours(n) /\ PeerOK(K, s.peer[m])
  BY NodeParts
<1>3. /\ Keeps(n, K, s, t) /\ t.calls = s.calls
      /\ NodeOK(n, K, t) /\ t.known = s.known
  <2> DEFINE p == s.peer[m]
             q == [p EXCEPT !.pushing = FALSE]
  <2>1. t = WithPeer(s, m, q)
    BY <1>2 DEF WithPeer
  <2>2. Alike(p, q)
    BY <1>2 DEF Alike, PeerOK, PeerFields
  <2> HIDE DEF t, q
  <2>3. Moves(K, p, q)
    BY <1>2, <2>2, AlikeOK
  <2>4. Keeps(n, K, s, t) /\ t.calls = s.calls
    BY <2>1, <2>3, WithPeerOK
  <2> QED
    BY <2>4 DEF Keeps
<1> HIDE DEF t
<1>4. DOMAIN t = NodeFields /\ DOMAIN t.peer = Neighbours(n) /\ ChainOK(K, t)
      /\ \A o \in Neighbours(n) : PeerOK(K, t.peer[o])
  BY <1>3, NodeParts
<1>5. result = "accepted" => /\ Keeps(n, K, t, BlockAccepted(t, b))
                             /\ BlockAccepted(t, b).calls = t.calls
  BY <1>3, BlockAcceptedOK
<1>6. Keeps(n, K, t, again) /\ again.calls = t.calls
  <2>1. Moves(K, t.peer[m], start_synchronizing_with_peer(t, t.peer[m]))
    BY <1>4, StartOK
  <2> QED
    BY <1>3, <2>1, WithPeerOK
<1>7. Keeps(n, K, t, bad) /\ bad.calls = t.calls
  <2>1. ASSUME NEW o \in Neighbours(n) PROVE Moves(K, t.peer[o], x[o])
    <3>1. x[o] = t.peer[o] \/ x[o] = disconnect_from_peer([t.peer[o] EXCEPT !.misjudged = TRUE])
      BY <1>2
    <3> HIDE DEF x
    <3> QED
      BY <1>4, <3>1, MovesSelf, MisjudgedOK
  <2>2. DOMAIN x = Neighbours(n)
    BY <1>2
  <2> HIDE DEF x
  <2>3. Rewired(t, x, bad)
    BY Zenon DEF Rewired
  <2> HIDE DEF bad
  <2>4. Rest(t, bad) /\ bad.peer = x
    BY <1>3, <2>3, RestOf
  <2> QED
    BY <1>3, <2>1, <2>2, <2>4, NodeMoves DEF Rest
<1>8. u = IF result = "accepted" THEN BlockAccepted(t, b)
          ELSE IF result = "unlinkable" THEN again ELSE bad
  <2> HIDE DEF again, bad
  <2> QED
    OBVIOUS
<1> HIDE DEF again, bad, u, v
<1>9. Keeps(n, K, t, u) /\ u.calls = t.calls
  BY <1>5, <1>6, <1>7, <1>8
<1>10. Keeps(n, K, u, v) /\ v.calls = u.calls
  BY <1>1, <1>9, FetchMoreOK DEF Keeps
<1>11. Keeps(n, K, s, u)
  BY <1>3, <1>9, KeepsThen
<1>12. Keeps(n, K, s, v)
  BY <1>3, <1>9, <1>10, <1>11, KeepsThen
<1> QED
  BY <1>12 DEF v

LEMMA BroadcastOK ==
  ASSUME NEW n, NEW K, NEW s, NodeOK(n, K, s), NEW b \in s.known
  PROVE  Keeps(n, K, s, broadcast(s, b))
<1> DEFINE t == broadcast(s, b)
<1>1. /\ DOMAIN s = NodeFields /\ DOMAIN s.peer = Neighbours(n)
      /\ s.items_to_fetch \subseteq Blocks /\ s.known \subseteq Blocks
      /\ s.recent \subseteq s.known \cup {None} /\ s.new_inventory \subseteq Blocks
  BY NodeParts
<1>2. /\ DOMAIN t = NodeFields /\ t.peer = s.peer
      /\ t.known = s.known /\ t.head = s.head
      /\ t.received = s.received /\ t.new_received = s.new_received
      /\ t.calls = s.calls /\ t.handled = s.handled
      /\ t.active_sync = s.active_sync /\ t.recent = s.recent \cup {b}
      /\ t.items_to_fetch = s.items_to_fetch /\ t.new_inventory = s.new_inventory \cup {b}
  BY <1>1 DEF NodeFields, broadcast
<1> HIDE DEF t
<1>3. Rest(s, t)
  BY <1>1, <1>2 DEF Rest
<1>4. \A m \in Neighbours(n) : Moves(K, s.peer[m], t.peer[m])
  BY <1>2, MovesSelf, NodeParts
<1>5. Keeps(n, K, s, t)
  BY <1>1, <1>2, <1>3, <1>4, NodeMoves
<1> QED
  BY <1>5 DEF t


-----------------------------------------------------------------------------
(* The loops of a node.                                                    *)

\* The items of an inventory are asked of the peers that announced them.
ItemsAsked(s, items, choice) ==
    [s EXCEPT
       !.items_to_fetch = @ \ items,
       !.peer = [m \in DOMAIN s.peer |->
          LET mine == {b \in items : choice[b] = m}
          IN  IF mine = {} THEN s.peer[m]
              ELSE Send([s.peer[m] EXCEPT !.items_requested = @ \cup mine],
                        [type |-> "fetch_items", items |-> SetToSeq(mine)])]]

LEMMA ItemsAskedOK ==
  ASSUME NEW n, NEW K, NEW s, NodeOK(n, K, s), NEW items \in SUBSET Blocks, NEW choice
  PROVE  Keeps(n, K, s, ItemsAsked(s, items, choice))
<1> DEFINE Mine(m) == {b \in items : choice[b] = m}
           X(m) == IF Mine(m) = {} THEN s.peer[m]
                   ELSE Send([s.peer[m] EXCEPT !.items_requested = @ \cup Mine(m)],
                             [type |-> "fetch_items", items |-> SetToSeq(Mine(m))])
           x == [m \in DOMAIN s.peer |-> X(m)]
           t == ItemsAsked(s, items, choice)
<1>1. t = [s EXCEPT !.items_to_fetch = s.items_to_fetch \ items, !.peer = x]
  BY DEF ItemsAsked
<1>2. /\ DOMAIN s = NodeFields /\ DOMAIN s.peer = Neighbours(n)
      /\ s.items_to_fetch \subseteq Blocks
      /\ s.recent \subseteq s.known \cup {None} /\ s.new_inventory \subseteq Blocks
  BY NodeParts
<1>3. ASSUME NEW m \in Neighbours(n) PROVE Moves(K, s.peer[m], X(m))
  <2> DEFINE p == s.peer[m]
             mine == Mine(m)
             q == [p EXCEPT !.items_requested = p.items_requested \cup mine]
             msg == [type |-> "fetch_items", items |-> SetToSeq(mine)]
  <2>1. PeerOK(K, p)
    BY NodeParts
  <2>2. X(m) = IF mine = {} THEN p ELSE Send(q, msg)
    OBVIOUS
  <2>3. mine \subseteq Blocks
    OBVIOUS
  <2> HIDE DEF p, mine, X
  <2>4. CASE mine = {}
    BY <2>1, <2>2, <2>4, MovesSelf DEF p
  <2>5. CASE mine # {}
    <3>1. IsFiniteSet(mine)
      BY <2>3, IdsAssumption, FS_Subset
    <3>2. SetToSeq(mine) \in Seq(Blocks) /\ SetToSeq(mine) # << >>
      BY <2>3, <2>5, <3>1, SetToSeqOK
    <3>3. msg \in Messages
      BY <3>2, MessageKinds
    <3>4. /\ DOMAIN q = PeerFields
          /\ q.ids_of_items_to_get = p.ids_of_items_to_get
          /\ q.item_ids_requested = p.item_ids_requested
          /\ q.last_block_seen = p.last_block_seen /\ q.advertised_to_us = p.advertised_to_us
          /\ q.items_requested = p.items_requested \cup mine /\ q.out = p.out
          /\ q.sync_items_requested = p.sync_items_requested /\ q.state = p.state
      BY <2>1 DEF PeerOK, PeerFields
    <3> HIDE DEF q, msg
    <3>5. q.items_requested \subseteq Blocks
      BY <2>1, <2>3, <3>4 DEF PeerOK
    <3>6. PeerOK(K, q)
      BY <2>1, <3>4, <3>5 DEF PeerOK
    <3>7. Moves(K, p, q)
      BY <3>4, <3>6 DEF Moves
    <3>8. Moves(K, p, Send(q, msg))
      BY <3>3, <3>6, <3>7, SendOK, MovesThen
    <3> QED
      BY <2>2, <2>5, <3>8 DEF p
  <2> QED
    BY <2>4, <2>5
<1> HIDE DEF X, t
<1>4. DOMAIN x = Neighbours(n) /\ \A m \in Neighbours(n) : Moves(K, s.peer[m], x[m])
  BY <1>2, <1>3
<1> HIDE DEF x
<1>5. /\ DOMAIN t = NodeFields /\ t.peer = x
      /\ t.known = s.known /\ t.head = s.head
      /\ t.received = s.received /\ t.new_received = s.new_received
      /\ t.calls = s.calls /\ t.handled = s.handled
      /\ t.active_sync = s.active_sync /\ t.recent = s.recent
      /\ t.items_to_fetch = s.items_to_fetch \ items /\ t.new_inventory = s.new_inventory
  BY <1>1, <1>2 DEF NodeFields
<1>6. Rest(s, t)
  BY <1>2, <1>5 DEF Rest
<1>7. Keeps(n, K, s, t)
  BY <1>4, <1>5, <1>6, NodeMoves
<1> QED
  BY <1>7 DEF t

\* New inventory is announced.
Told(s, p) ==
    LET new == s.new_inventory \ (p.advertised_to_peer \cup p.advertised_to_us)
    IN  IF p.state # "active" \/ p.peer_needs_sync_items \/ new = {} THEN p
        ELSE Send([p EXCEPT !.advertised_to_peer = @ \cup new],
                  [type |-> "item_ids_inventory", items |-> new])

Announced(s) == [s EXCEPT !.new_inventory = {},
                          !.peer = [m \in DOMAIN s.peer |-> Told(s, s.peer[m])]]

LEMMA AnnouncedOK ==
  ASSUME NEW n, NEW K, NEW s, NodeOK(n, K, s)
  PROVE  Keeps(n, K, s, Announced(s))
<1> DEFINE x == [m \in DOMAIN s.peer |-> Told(s, s.peer[m])]
           t == Announced(s)
<1>2. /\ DOMAIN s = NodeFields /\ DOMAIN s.peer = Neighbours(n)
      /\ s.items_to_fetch \subseteq Blocks
      /\ s.recent \subseteq s.known \cup {None} /\ s.new_inventory \subseteq Blocks
  BY NodeParts
<1>3. ASSUME NEW m \in Neighbours(n) PROVE Moves(K, s.peer[m], Told(s, s.peer[m]))
  <2> DEFINE p == s.peer[m]
             new == s.new_inventory \ (p.advertised_to_peer \cup p.advertised_to_us)
             q == [p EXCEPT !.advertised_to_peer = p.advertised_to_peer \cup new]
             msg == [type |-> "item_ids_inventory", items |-> new]
  <2>1. PeerOK(K, p)
    BY NodeParts
  <2>2. Told(s, p) = p \/ Told(s, p) = Send(q, msg)
    BY DEF Told
  <2>3. new \in SUBSET Blocks
    BY <1>2
  <2> HIDE DEF p, new
  <2>4. msg \in Messages
    BY <2>3, MessageKinds
  <2>5. Alike(p, q)
    BY <2>1 DEF Alike, PeerOK, PeerFields
  <2> HIDE DEF q, msg
  <2>6. Moves(K, p, q) /\ PeerOK(K, q)
    BY <2>1, <2>5, AlikeOK DEF Moves
  <2>7. Moves(K, p, Send(q, msg)) /\ Moves(K, p, p)
    BY <2>1, <2>4, <2>6, SendOK, MovesThen, MovesSelf
  <2> QED
    BY <2>2, <2>7 DEF p
<1>4. DOMAIN x = Neighbours(n) /\ \A m \in Neighbours(n) : Moves(K, s.peer[m], x[m])
  BY <1>2, <1>3
<1>5. t = [s EXCEPT !.new_inventory = {}, !.peer = x]
  BY DEF Announced
<1> HIDE DEF x, t
<1>6. /\ DOMAIN t = NodeFields /\ t.peer = x
      /\ t.known = s.known /\ t.head = s.head
      /\ t.received = s.received /\ t.new_received = s.new_received
      /\ t.calls = s.calls /\ t.handled = s.handled
      /\ t.active_sync = s.active_sync /\ t.recent = s.recent
      /\ t.items_to_fetch = s.items_to_fetch /\ t.new_inventory = {}
  BY <1>2, <1>5 DEF NodeFields
<1>7. Rest(s, t)
  BY <1>2, <1>6 DEF Rest
<1>8. Keeps(n, K, s, t)
  BY <1>4, <1>6, <1>7, NodeMoves
<1> QED
  BY <1>8 DEF t

\* A connection ends: what the peer owed is nobody's.
Ended(s, m, again, due) ==
    [s EXCEPT !.peer[m] = [Closed EXCEPT !.misjudged = s.peer[m].misjudged],
              !.active_sync = s.active_sync \ s.peer[m].sync_items_requested,
              !.items_to_fetch = s.items_to_fetch \cup again,
              !.due = due]

LEMMA EndedOK ==
  ASSUME NEW n, NEW K, NEW s, NodeOK(n, K, s), NEW m \in Neighbours(n),
         NEW again, again \subseteq s.peer[m].items_requested, NEW due
  PROVE  Keeps(n, K, s, Ended(s, m, again, due))
<1> DEFINE p == s.peer[m]
           q == [Closed EXCEPT !.misjudged = p.misjudged]
           x == [s.peer EXCEPT ![m] = q]
           t == Ended(s, m, again, due)
<1>1. /\ DOMAIN s = NodeFields /\ DOMAIN s.peer = Neighbours(n) /\ PeerOK(K, p)
      /\ s.items_to_fetch \subseteq Blocks
      /\ s.recent \subseteq s.known \cup {None} /\ s.new_inventory \subseteq Blocks
  BY NodeParts
<1>2. /\ DOMAIN t = NodeFields /\ t.peer = x
      /\ t.known = s.known /\ t.head = s.head
      /\ t.received = s.received /\ t.new_received = s.new_received
      /\ t.calls = s.calls /\ t.handled = s.handled
      /\ t.active_sync = s.active_sync \ p.sync_items_requested /\ t.recent = s.recent
      /\ t.items_to_fetch = s.items_to_fetch \cup again /\ t.new_inventory = s.new_inventory
  BY <1>1 DEF NodeFields, Ended
<1>3. PeerOK(K, q) /\ q.sync_items_requested = {}
  <2>1. PeerOK(K, Closed)
    BY ClosedOK
  <2>2. Alike(Closed, q) /\ q.sync_items_requested = {}
    BY DEF Alike, Closed, PeerFields
  <2> HIDE DEF q
  <2> QED
    BY <2>1, <2>2, AlikeOK DEF Moves
<1>4. x[m] = q /\ \A o \in Neighbours(n) : o # m => x[o] = s.peer[o]
  BY <1>1
<1>5. DOMAIN x = Neighbours(n)
  BY <1>1
<1> HIDE DEF q, x, t
<1>6. \A o \in Neighbours(n) : PeerOK(K, x[o])
  BY <1>3, <1>4, NodeParts
<1>7. again \subseteq Blocks
  BY <1>1 DEF PeerOK
<1>8. ChainOK(K, t)
  BY <1>2 DEF NodeOK, ChainOK
<1>9. TasksOK(t)
  BY <1>1, <1>2, <1>5, <1>7 DEF NodeOK, TasksOK
<1>10. NodeOK(n, K, t)
  BY <1>2, <1>5, <1>6, <1>8, <1>9 DEF NodeOK
<1>11. ASSUME Tracked(s) PROVE Tracked(t)
  <2>1. \A o \in Neighbours(n) :
          t.peer[o].sync_items_requested = s.peer[o].sync_items_requested \ p.sync_items_requested
    <3>1. ASSUME NEW o \in Neighbours(n), o # m
          PROVE  s.peer[o].sync_items_requested \cap p.sync_items_requested = {}
      BY <1>1, <1>11, <3>1 DEF Tracked
    <3> QED
      BY <1>2, <1>3, <1>4, <3>1
  <2>2. \A o \in Neighbours(n) : o # m => t.peer[o].state = s.peer[o].state
    BY <1>2, <1>4
  <2>2a. t.peer[m].sync_items_requested = {}
    BY <1>2, <1>3, <1>4
  <2>3. t.active_sync = UNION {t.peer[o].sync_items_requested : o \in Neighbours(n)}
    <3>1. s.active_sync = UNION {s.peer[o].sync_items_requested : o \in Neighbours(n)}
      BY <1>1, <1>11 DEF Tracked
    <3> QED
      BY <1>2, <2>1, <3>1
  <2>4. \A a, o \in Neighbours(n) : a # o => t.peer[a].sync_items_requested \cap t.peer[o].sync_items_requested = {}
    BY <1>1, <1>11, <2>1 DEF Tracked
  <2>5. \A o \in Neighbours(n) : t.peer[o].state = "closed" => t.peer[o].sync_items_requested = {}
    BY <1>1, <1>11, <2>1, <2>2, <2>2a DEF Tracked
  <2> QED
    BY <1>2, <1>5, <2>3, <2>4, <2>5, TrackedBy
<1>12. Keeps(n, K, s, t)
  BY <1>2, <1>10, <1>11 DEF Keeps
<1> QED
  BY <1>12 DEF t


\* A peer is asked for ids nobody owes.
LEMMA WantedOK ==
  ASSUME NEW n, NEW K, NEW s, NodeOK(n, K, s), NEW m \in Neighbours(n)
  PROVE  /\ Wanted(s, m) \in Seq(Blocks)
         /\ Range(Wanted(s, m)) \cap s.active_sync = {}
<1> DEFINE W == Blocks \ (s.active_sync \cup Held(s))
           ids == KeepIn(s.peer[m].ids_of_items_to_get, W)
           e == Smaller(Len(ids), MaxBlocksPerPeer)
<1>1. s.peer[m].ids_of_items_to_get \in Seq(Blocks)
  BY NodeParts DEF PeerOK, ListOK
<1>2. Wanted(s, m) = SubSeq(ids, 1, e)
  BY Zenon DEF Wanted
<1>3. Blocks \cap W = W /\ W \subseteq Blocks /\ W \cap s.active_sync = {}
  OBVIOUS
<1> HIDE DEF W
<1>4. ids \in Seq(Blocks \cap W)
  BY <1>1, KeepFacts
<1>5. ids \in Seq(W)
  BY <1>3, <1>4
<1> HIDE DEF ids
<1>6. 1 \in Int /\ 1 >= 1 /\ e \in Int /\ e <= Len(ids)
  <2>1. Len(ids) \in Nat
    BY <1>5
  <2> QED
    BY <2>1, LimitsAssumption DEF Smaller
<1> HIDE DEF e
<1>7. SubSeq(ids, 1, e) \in Seq(W)
  BY <1>5, <1>6, SubSeqFacts
<1>8. Wanted(s, m) \in Seq(W)
  BY <1>2, <1>7
<1>9. Range(Wanted(s, m)) \subseteq W
  BY <1>8, RangeOf
<1> QED
  BY <1>3, <1>8, <1>9, SeqWider

LEMMA RequestOK ==
  ASSUME NEW n, NEW K, NEW s, NodeOK(n, K, s), NEW m \in Neighbours(n),
         s.peer[m].state # "closed", NEW ids \in Seq(Blocks), Range(ids) \cap s.active_sync = {},
         NEW t, t = request_sync_items_from_peer(s, m, ids)
  PROVE  /\ Keeps(n, K, s, t) /\ t.calls = s.calls
         /\ \A o \in Neighbours(n) : t.peer[o].state = s.peer[o].state
<1>1. CASE ids = << >>
  <2>1. t = s
    BY <1>1 DEF request_sync_items_from_peer
  <2> QED
    BY <2>1, KeepsSelf
<1>2. CASE ids # << >>
  <2> DEFINE p == s.peer[m]
             R == Range(ids)
             a == [p EXCEPT !.sync_items_requested = p.sync_items_requested \cup R]
             msg == [type |-> "fetch_items", items |-> ids]
             q == Send(a, msg)
             x == [s.peer EXCEPT ![m] = q]
  <2>1. DOMAIN s = NodeFields /\ DOMAIN s.peer = Neighbours(n) /\ PeerOK(K, p)
    BY NodeParts
  <2>2. t = [s EXCEPT !.active_sync = s.active_sync \cup R, !.peer = x]
    BY <1>2 DEF request_sync_items_from_peer
  <2>3. msg \in Messages
    BY <1>2, MessageKinds
  <2>4. /\ DOMAIN a = PeerFields
        /\ a.ids_of_items_to_get = p.ids_of_items_to_get
        /\ a.item_ids_requested = p.item_ids_requested
        /\ a.last_block_seen = p.last_block_seen /\ a.advertised_to_us = p.advertised_to_us
        /\ a.items_requested = p.items_requested /\ a.out = p.out
        /\ a.sync_items_requested = p.sync_items_requested \cup R /\ a.state = p.state
    BY <2>1 DEF PeerOK, PeerFields
  <2> HIDE DEF R, a, msg
  <2>5. PeerOK(K, a)
    BY <2>1, <2>4, PeerKept
  <2>6. Moves(K, a, q) /\ q.state = a.state
    BY <2>3, <2>5, SendOK
  <2>7. PeerOK(K, q) /\ q.sync_items_requested = p.sync_items_requested \cup R /\ q.state = p.state
    BY <2>4, <2>6 DEF Moves
  <2> HIDE DEF q
  <2>8. x[m] = q /\ DOMAIN x = Neighbours(n) /\ \A o \in Neighbours(n) : o # m => x[o] = s.peer[o]
    BY <2>1
  <2> HIDE DEF x
  <2>9. /\ DOMAIN t = NodeFields /\ t.peer = x
        /\ t.known = s.known /\ t.head = s.head
        /\ t.received = s.received /\ t.new_received = s.new_received
        /\ t.calls = s.calls /\ t.handled = s.handled
        /\ t.active_sync = s.active_sync \cup R /\ t.recent = s.recent
        /\ t.items_to_fetch = s.items_to_fetch /\ t.new_inventory = s.new_inventory
    BY <2>1, <2>2 DEF NodeFields
  <2>10. \A o \in Neighbours(n) : PeerOK(K, x[o])
    BY <2>7, <2>8, NodeParts
  <2>11. ChainOK(K, t)
    BY <2>9 DEF NodeOK, ChainOK
  <2>12. TasksOK(t)
    BY <2>1, <2>8, <2>9 DEF NodeOK, TasksOK
  <2>13. NodeOK(n, K, t)
    BY <2>8, <2>9, <2>10, <2>11, <2>12 DEF NodeOK
  <2>14. \A o \in Neighbours(n) : t.peer[o].state = s.peer[o].state
    BY <2>7, <2>8, <2>9
  <2>15. ASSUME Tracked(s) PROVE Tracked(t)
    <3>1. s.active_sync = UNION {s.peer[o].sync_items_requested : o \in Neighbours(n)}
      BY <2>1, <2>15 DEF Tracked
    <3>2. t.peer[m].sync_items_requested = s.peer[m].sync_items_requested \cup R
      BY <2>7, <2>8, <2>9
    <3>3. \A o \in Neighbours(n) : o # m =>
            t.peer[o].sync_items_requested = s.peer[o].sync_items_requested
      BY <2>8, <2>9
    <3>4. \A o \in Neighbours(n) : R \cap s.peer[o].sync_items_requested = {}
      BY <3>1 DEF R
    <3>5. t.active_sync = UNION {t.peer[o].sync_items_requested : o \in Neighbours(n)}
      <4>1. ASSUME NEW z \in s.active_sync \cup R
            PROVE  z \in UNION {t.peer[o].sync_items_requested : o \in Neighbours(n)}
        BY <3>1, <3>2, <3>3, <4>1
      <4>2. ASSUME NEW o \in Neighbours(n), NEW z \in t.peer[o].sync_items_requested
            PROVE  z \in s.active_sync \cup R
        BY <3>1, <3>2, <3>3, <4>2
      <4> QED
        BY <2>9, <4>1, <4>2
    <3>6. \A c, o \in Neighbours(n) : c # o => s.peer[c].sync_items_requested \cap s.peer[o].sync_items_requested = {}
      BY <2>1, <2>15 DEF Tracked
    <3>7. \A c, o \in Neighbours(n) : c # o => t.peer[c].sync_items_requested \cap t.peer[o].sync_items_requested = {}
      <4>1. ASSUME NEW c \in Neighbours(n), NEW o \in Neighbours(n), c # o
            PROVE  t.peer[c].sync_items_requested \cap t.peer[o].sync_items_requested = {}
        <5>1. s.peer[c].sync_items_requested \cap s.peer[o].sync_items_requested = {}
          BY <3>6, <4>1
        <5>2. R \cap s.peer[c].sync_items_requested = {} /\ R \cap s.peer[o].sync_items_requested = {}
          BY <3>4
        <5>3. CASE c = m
          BY <3>2, <3>3, <4>1, <5>1, <5>2, <5>3
        <5>4. CASE o = m
          BY <3>2, <3>3, <4>1, <5>1, <5>2, <5>4
        <5>5. CASE c # m /\ o # m
          BY <3>3, <4>1, <5>1, <5>5
        <5> QED
          BY <5>3, <5>4, <5>5
      <4> QED
        BY <4>1
    <3>8. \A o \in Neighbours(n) : t.peer[o].state = "closed" => t.peer[o].sync_items_requested = {}
      <4>1. \A o \in Neighbours(n) : s.peer[o].state = "closed" => s.peer[o].sync_items_requested = {}
        BY <2>1, <2>15 DEF Tracked
      <4> QED
        BY <2>14, <3>3, <4>1
    <3> QED
      BY <2>8, <2>9, <3>5, <3>7, <3>8, TrackedBy
  <2> QED
    BY <2>9, <2>13, <2>14, <2>15 DEF Keeps
<1> QED
  BY <1>1, <1>2

RequestStep(g, s, order, k) ==
  IF k = 0 THEN s
  ELSE request_sync_items_from_peer(g[k - 1], order[k], Wanted(g[k - 1], order[k]))

Requested(s, order, n) == CHOOSE g : g = [k \in 0 .. n |-> RequestStep(g, s, order, k)]

LEMMA RequestDefined ==
  ASSUME NEW s, NEW order, NEW N \in Nat
  PROVE  \A i \in 0 .. N : Requested(s, order, N)[i] = RequestStep(Requested(s, order, N), s, order, i)
<1> DEFINE T == {n \in Nat : \E g : g = [i \in 0 .. n |-> RequestStep(g, s, order, i)]}
<1>1. ASSUME NEW n \in Nat, \A m \in Nat : m < n => m \in T
      PROVE  n \in T
  <2>1. CASE n = 0
    <3> DEFINE g == [i \in 0 .. n |-> s]
    <3>1. \A i \in 0 .. n : RequestStep(g, s, order, i) = s
      BY <2>1 DEF RequestStep
    <3>2. g = [i \in 0 .. n |-> RequestStep(g, s, order, i)]
      BY <3>1
    <3> QED
      BY <3>2, Zenon
  <2>2. CASE n > 0
    <3>1. n - 1 \in Nat /\ n - 1 < n
      BY <2>2
    <3>2. PICK g : g = [i \in 0 .. (n - 1) |-> RequestStep(g, s, order, i)]
      BY <1>1, <3>1, Zenon
    <3> DEFINE h == [i \in 0 .. n |-> RequestStep(g, s, order, i)]
    <3>3. ASSUME NEW i \in 0 .. n PROVE RequestStep(h, s, order, i) = RequestStep(g, s, order, i)
      <4>1. CASE i = 0
        BY <4>1 DEF RequestStep
      <4>2. CASE i # 0
        <5>1. i - 1 \in 0 .. n /\ i - 1 \in 0 .. (n - 1)
          BY <4>2
        <5>2. h[i - 1] = RequestStep(g, s, order, i - 1)
          BY <5>1
        <5>3. g[i - 1] = RequestStep(g, s, order, i - 1)
          BY <3>2, <5>1
        <5>4. h[i - 1] = g[i - 1]
          BY <5>2, <5>3
        <5> HIDE DEF h
        <5> QED
          BY <5>4 DEF RequestStep
      <4> QED
        BY <4>1, <4>2
    <3>4. h = [i \in 0 .. n |-> RequestStep(h, s, order, i)]
      BY <3>3
    <3> QED
      BY <3>4, Zenon
  <2> QED
    BY <2>1, <2>2
<1> HIDE DEF T
<1>2. Nat \subseteq T
  BY <1>1, NatSetInduction
<1>3. \E g : g = [i \in 0 .. N |-> RequestStep(g, s, order, i)]
  BY <1>2 DEF T
<1> DEFINE g == Requested(s, order, N)
<1>4. g = [i \in 0 .. N |-> RequestStep(g, s, order, i)]
  BY <1>3, Zenon DEF Requested
<1> HIDE DEF g
<1>5. \A i \in 0 .. N : g[i] = RequestStep(g, s, order, i)
  BY <1>4
<1> QED
  BY <1>5 DEF g

LEMMA RequestRoundsOK ==
  ASSUME NEW n, NEW K, NEW s, NodeOK(n, K, s), NEW order \in Seq(Active(s))
  PROVE  Keeps(n, K, s, RequestRounds(s, order))
<1> DEFINE N == Len(order)
           r == Requested(s, order, N)
<1>1. N \in Nat /\ \A i \in 1 .. N : order[i] \in Active(s)
  OBVIOUS
<1>2. RequestRounds(s, order) = r[N]
  BY Zenon DEF RequestRounds, RequestStep, Requested
<1>3. \A i \in 0 .. N : r[i] = RequestStep(r, s, order, i)
  BY <1>1, RequestDefined
<1>4. \A m \in Active(s) : m \in Neighbours(n) /\ s.peer[m].state = "active"
  BY NodeParts DEF Active
<1> HIDE DEF N, r
<1> DEFINE Ok(t) == /\ Keeps(n, K, s, t) /\ t.calls = s.calls
                    /\ \A o \in Neighbours(n) : t.peer[o].state = s.peer[o].state
           T == {i \in Nat : i <= N => Ok(r[i])}
<1>5. ASSUME NEW i \in Nat, \A m \in Nat : m < i => m \in T
      PROVE  i \in T
  <2> SUFFICES ASSUME i <= N PROVE Ok(r[i])
    OBVIOUS
  <2>1. CASE i = 0
    <3>1. r[i] = s
      BY <1>1, <1>3, <2>1 DEF RequestStep
    <3> QED
      BY <3>1, KeepsSelf
  <2>2. CASE i > 0
    <3> DEFINE t == r[i - 1]
               m == order[i]
               ids == Wanted(t, m)
    <3>1. i - 1 \in Nat /\ i - 1 < i /\ i - 1 <= N /\ i \in 1 .. N /\ i \in 0 .. N /\ i # 0
      BY <1>1, <2>2
    <3>2. Ok(t)
      BY <1>5, <3>1
    <3>3. m \in Neighbours(n) /\ s.peer[m].state = "active"
      BY <1>1, <1>4, <3>1
    <3>4. r[i] = request_sync_items_from_peer(t, m, ids)
      BY <1>3, <3>1, Zenon DEF RequestStep
    <3> HIDE DEF t, m
    <3>5. NodeOK(n, K, t) /\ t.peer[m].state # "closed"
      BY <3>2, <3>3 DEF Keeps
    <3>6. ids \in Seq(Blocks) /\ Range(ids) \cap t.active_sync = {}
      BY <3>3, <3>5, WantedOK
    <3> HIDE DEF ids
    <3>7. /\ Keeps(n, K, t, r[i]) /\ r[i].calls = t.calls
          /\ \A o \in Neighbours(n) : r[i].peer[o].state = t.peer[o].state
      BY <3>3, <3>4, <3>5, <3>6, RequestOK
    <3>8. Keeps(n, K, s, r[i])
      BY <3>2, <3>7, KeepsThen
    <3> QED
      BY <3>2, <3>7, <3>8
  <2> QED
    BY <2>1, <2>2
<1> HIDE DEF Ok, T
<1>6. Nat \subseteq T
  BY <1>5, NatSetInduction
<1>7. Ok(r[N])
  BY <1>1, <1>6 DEF T
<1> QED
  BY <1>2, <1>7 DEF Ok


-----------------------------------------------------------------------------
(* The backlog.                                                            *)

SyncCall(b) == [kind |-> "sync", from |-> None, block |-> b, result |-> "none"]

\* A step that hands a sync block to the chain.
Hands(n, K, s, t, b) ==
    /\ Parent[b] \in K \cup {None}
    /\ NodeOK(n, K \cup {b}, t)
    /\ Tracked(s) => Tracked(t)
    /\ t.known = s.known /\ t.handled = s.handled
    /\ t.calls = Append(s.calls, SyncCall(b))

LEMMA WithChild ==
  ASSUME NEW K, PathClosed(K), NEW b \in Blocks, Parent[b] \in K \cup {None}
  PROVE  PathClosed(K \cup {b})
<1>1. OnPath(b) = OnPath(Parent[b]) \cup {b}
  BY PathStep
<1>2. OnPath(Parent[b]) \subseteq K
  BY PathNone DEF PathClosed
<1> QED
  BY <1>1, <1>2 DEF PathClosed

\* A block leaves the front of a list.
Popped(p, b) == [p EXCEPT !.ids_of_items_to_get = Tail(@), !.ids_being_processed = @ \cup {b}]

FrontIs(p, b) == p.ids_of_items_to_get # << >> /\ p.ids_of_items_to_get[1] = b

LEMMA PoppedOK ==
  ASSUME NEW K, NEW p, PeerOK(K, p), NEW b, FrontIs(p, b), NEW q, q = Popped(p, b)
  PROVE  /\ PeerOK(K \cup {b}, q)
         /\ q.sync_items_requested = p.sync_items_requested /\ q.state = p.state
<1> DEFINE ids == p.ids_of_items_to_get
<1>1. ids \in Seq(Blocks) /\ Chained(ids) /\ DOMAIN p = PeerFields
  BY DEF PeerOK, ListOK
<1>2. /\ Tail(ids) \in Seq(Blocks) /\ Chained(Tail(ids))
      /\ Tail(ids) # << >> => Parent[Tail(ids)[1]] = b
      /\ Range(ids) = Range(Tail(ids)) \cup {b}
  BY <1>1, ChainedTail DEF FrontIs
<1>3. ListOK(K \cup {b}, Tail(ids))
  BY <1>2 DEF ListOK
<1>4. AskedOK(K \cup {b}, Tail(ids), p.item_ids_requested)
  <2>1. AskedOK(K, ids, p.item_ids_requested)
    BY DEF PeerOK
  <2>2. ids # << >>
    BY DEF FrontIs
  <2> HIDE DEF ids
  <2> QED
    BY <1>2, <2>1, <2>2 DEF AskedOK
<1>5. /\ DOMAIN q = PeerFields
      /\ q.ids_of_items_to_get = Tail(ids)
      /\ q.item_ids_requested = p.item_ids_requested
      /\ q.last_block_seen = p.last_block_seen /\ q.advertised_to_us = p.advertised_to_us
      /\ q.items_requested = p.items_requested /\ q.out = p.out
      /\ q.sync_items_requested = p.sync_items_requested /\ q.state = p.state
  BY <1>1 DEF PeerFields, Popped
<1> HIDE DEF ids
<1>6. PeerOK(K \cup {b}, q)
  BY <1>3, <1>4, <1>5 DEF PeerOK
<1> QED
  BY <1>5, <1>6

LEMMA RemoveAtOK ==
  ASSUME NEW D, NEW u \in Seq(D), NEW k \in 1 .. Len(u)
  PROVE  RemoveAt(u, k) \in Seq(D)
<1>1. Len(u) \in Nat
  OBVIOUS
<1>2. /\ 1 \in Int /\ k - 1 \in Int /\ 1 >= 1 /\ k - 1 <= Len(u)
      /\ k + 1 \in Int /\ k + 1 >= 1 /\ Len(u) \in Int /\ Len(u) <= Len(u)
  BY <1>1
<1>3. SubSeq(u, 1, k - 1) \in Seq(D)
  BY <1>2, SubSeqFacts
<1>4. SubSeq(u, k + 1, Len(u)) \in Seq(D)
  BY <1>2, SubSeqFacts
<1> QED
  BY <1>3, <1>4, ConcatFacts DEF RemoveAt

LEMMA BacklogRoundOK ==
  ASSUME NEW n, NEW K, NEW s, NodeOK(n, K, s), NEW t, t = BacklogRound(s).state
  PROVE  \/ Keeps(n, K, s, t) /\ t.calls = s.calls
         \/ \E b \in Blocks : Hands(n, K, s, t, b)
<1> DEFINE ready == {k \in DOMAIN s.received : AtFront(s, s.received[k]) # {}}
           k == Min(ready)
           b == s.received[k]
           x == [m \in DOMAIN s.peer |->
                     IF m \in AtFront(s, b)
                     THEN [s.peer[m] EXCEPT !.ids_of_items_to_get = Tail(@),
                                            !.ids_being_processed = @ \cup {b}]
                     ELSE s.peer[m]]
           t1 == [s EXCEPT !.peer = x]
           t2 == [s EXCEPT !.peer = x,
                           !.received = RemoveAt(@, k),
                           !.calls = Append(@, [kind |-> "sync", from |-> None,
                                                block |-> b, result |-> "none"])]
<1>1. BacklogRound(s) = IF ready = {} THEN [state |-> s, more |-> FALSE]
                        ELSE IF b \in s.recent THEN [state |-> t1, more |-> FALSE]
                        ELSE [state |-> t2, more |-> TRUE]
  BY Zenon DEF BacklogRound
<1>2. t = IF ready = {} THEN s ELSE IF b \in s.recent THEN t1 ELSE t2
  <2> HIDE DEF ready, t1, t2, b
  <2> QED
    BY <1>1
<1>3. CASE ready = {}
  BY <1>2, <1>3, KeepsSelf
<1>4. CASE ready # {}
  <2>1. /\ DOMAIN s = NodeFields /\ DOMAIN s.peer = Neighbours(n)
        /\ s.received \in Seq(Blocks) /\ s.new_received \in Seq(Blocks)
        /\ s.recent \subseteq s.known \cup {None} /\ s.known \subseteq K /\ K \subseteq Blocks
        /\ \A m \in Neighbours(n) : PeerOK(K, s.peer[m])
    BY NodeParts
  <2>2. ready \subseteq Nat /\ ready \subseteq 1 .. Len(s.received)
        /\ \A j \in ready : AtFront(s, s.received[j]) # {}
    BY <2>1
  <2> HIDE DEF ready
  <2>3. k \in ready
    BY <1>4, <2>2, MinNat
  <2> HIDE DEF k
  <2>4. k \in 1 .. Len(s.received) /\ b \in Blocks /\ AtFront(s, b) # {}
    <3>1. k \in 1 .. Len(s.received) /\ AtFront(s, s.received[k]) # {}
      BY <2>2, <2>3
    <3>2. s.received \in Seq(Blocks)
      BY <2>1
    <3>3. s.received[k] \in Blocks
      BY <3>1, <3>2
    <3> QED
      BY <3>1, <3>3
  <2> HIDE DEF b
  <2>5. Parent[b] \in K \cup {None}
    <3>1. PICK m \in AtFront(s, b) : TRUE
      BY <2>4
    <3>2. m \in Neighbours(n) /\ s.peer[m].ids_of_items_to_get # << >>
          /\ s.peer[m].ids_of_items_to_get[1] = b
      BY <2>1, <3>1 DEF AtFront, Active
    <3> QED
      BY <2>1, <3>2 DEF PeerOK, ListOK
  <2> DEFINE L == K \cup {b}
  <2>6. L \subseteq Blocks /\ PathClosed(L) /\ K \subseteq L
    BY <2>1, <2>4, <2>5, WithChild, ChainFacts, NodeParts
  <2>7. ASSUME NEW m \in Neighbours(n)
        PROVE  /\ PeerOK(L, x[m])
               /\ x[m].sync_items_requested = s.peer[m].sync_items_requested
               /\ x[m].state = s.peer[m].state
    <3>1. CASE m \in AtFront(s, b)
      <4>1. x[m] = Popped(s.peer[m], b)
        BY <2>1, <3>1 DEF Popped
      <4>2. s.peer[m].ids_of_items_to_get # << >> /\ s.peer[m].ids_of_items_to_get[1] = b
        BY <3>1 DEF AtFront
      <4> HIDE DEF x
      <4>3. PeerOK(K, s.peer[m])
        BY <2>1
      <4> DEFINE p == s.peer[m]
                 q == x[m]
      <4>4. PeerOK(K, p) /\ q = Popped(p, b) /\ FrontIs(p, b)
        BY <4>1, <4>2, <4>3 DEF FrontIs
      <4> HIDE DEF p, q, L
      <4>5. PeerOK(K \cup {b}, q) /\ q.sync_items_requested = p.sync_items_requested
            /\ q.state = p.state
        BY <4>4, PoppedOK
      <4> QED
        BY <4>5 DEF p, q, L
    <3>2. CASE m \notin AtFront(s, b)
      <4>1. x[m] = s.peer[m]
        BY <2>1, <3>2
      <4>2. PeerOK(L, s.peer[m])
        BY <2>1, <2>6, PeerGrown
      <4> HIDE DEF x
      <4> QED
        BY <4>1, <4>2
    <3> QED
      BY <3>1, <3>2
  <2>8. DOMAIN x = Neighbours(n)
    BY <2>1
  <2> HIDE DEF x
  <2>9. CASE b \in s.recent
    <3>1. b \in K /\ L = K
      BY <2>1, <2>4, <2>9, Numbers
    <3>2. \A m \in Neighbours(n) : Moves(K, s.peer[m], x[m])
      BY <2>7, <3>1 DEF Moves
    <3>3. t = t1
      BY <1>2, <1>4, <2>9
    <3>4. Rewired(s, x, t)
      BY <3>3, Zenon DEF Rewired
    <3> HIDE DEF t1
    <3>5. Rest(s, t) /\ t.peer = x
      BY <3>4, RestOf
    <3>6. Keeps(n, K, s, t) /\ t.calls = s.calls
      BY <2>8, <3>2, <3>5, NodeMoves DEF Rest
    <3> QED
      BY <3>6
  <2>10. CASE b \notin s.recent
    <3> DEFINE c == SyncCall(b)
    <3>1. t = t2
      BY <1>2, <1>4, <2>10
    <3>2. /\ DOMAIN t = NodeFields /\ t.peer = x
          /\ t.known = s.known /\ t.head = s.head
          /\ t.received = RemoveAt(s.received, k) /\ t.new_received = s.new_received
          /\ t.calls = Append(s.calls, c)
          /\ t.handled = s.handled
          /\ t.active_sync = s.active_sync /\ t.recent = s.recent
          /\ t.items_to_fetch = s.items_to_fetch /\ t.new_inventory = s.new_inventory
      BY <2>1, <3>1 DEF NodeFields, SyncCall
    <3> HIDE DEF t2
    <3>3. c \in Calls(Neighbours(n))
      BY <2>4 DEF Calls, SyncCall
    <3> HIDE DEF c
    <3>4. t.received \in Seq(Blocks)
      BY <2>1, <2>4, <3>2, RemoveAtOK
    <3>5. t.calls \in Seq(Calls(DOMAIN t.peer))
      BY <2>8, <3>2, <3>3, NodeParts, AppendFacts
    <3>6. ChainOK(L, t)
      BY <2>1, <2>6, <3>2 DEF NodeOK, ChainOK
    <3>7. TasksOK(t)
      BY <2>1, <2>8, <3>2, <3>4, <3>5 DEF NodeOK, TasksOK
    <3>8. NodeOK(n, L, t)
      BY <2>7, <2>8, <3>2, <3>6, <3>7 DEF NodeOK
    <3>9. Tracked(s) => Tracked(t)
      BY <2>1, <2>7, <2>8, <3>2, TrackedMoves
    <3>10. Hands(n, K, s, t, b)
      BY <2>5, <3>2, <3>8, <3>9 DEF Hands, c
    <3> QED
      BY <2>4, <3>10
  <2> QED
    BY <2>9, <2>10
<1> QED
  BY <1>3, <1>4


-----------------------------------------------------------------------------
(* The invariants of a node.  For the requests K is all blocks; for the    *)
(* order of sync blocks it is what the chain has and has been handed.      *)

SyncCalls(s, k) == {s.calls[j].block : j \in {j \in 1 .. k : s.calls[j].kind = "sync"}}

Handed(s) == s.known \cup SyncCalls(s, Len(s.calls))

Ordered(s) == \A k \in 1 .. Len(s.calls) : s.calls[k].kind = "sync" =>
                Parent[s.calls[k].block] \in s.known \cup SyncCalls(s, k - 1) \cup {None}

Linked(s) == \A k \in DOMAIN s.handled : s.handled[k].kind = "sync" =>
               s.handled[k].result # "unlinkable"

\* A block of the node's own miner is announced, never handed to the chain.
OwnOK(s) == /\ \A k \in 1 .. Len(s.calls) : s.calls[k].kind # "own"
            /\ \A k \in DOMAIN s.handled : s.handled[k].kind = "own" =>
                 s.handled[k].result = "accepted"

Sound(n, s) == NodeOK(n, Blocks, s) /\ Tracked(s) /\ OwnOK(s)

InOrder(n, s) == /\ NodeOK(n, Handed(s), s) /\ Tracked(s) /\ OwnOK(s)
                 /\ Ordered(s) /\ Linked(s)

Good(n, s, t) == /\ Sound(n, s) => Sound(n, t)
                 /\ FinalTree /\ InOrder(n, s) => InOrder(n, t)

OfCall(c) == IF c.kind = "sync" THEN {c.block} ELSE {}

LEMMA CallAppended ==
  ASSUME NEW C, NEW s, s.calls \in Seq(C), NEW c \in C, NEW t, t.calls = Append(s.calls, c)
  PROVE  /\ Len(s.calls) \in Nat /\ Len(t.calls) = Len(s.calls) + 1
         /\ t.calls[Len(s.calls) + 1] = c
         /\ \A k \in 1 .. Len(s.calls) : t.calls[k] = s.calls[k]
         /\ \A k \in 0 .. Len(s.calls) : SyncCalls(t, k) = SyncCalls(s, k)
         /\ SyncCalls(t, Len(s.calls) + 1)
              = SyncCalls(s, Len(s.calls)) \cup OfCall(c)
<1> DEFINE N == Len(s.calls)
<1>1. /\ N \in Nat /\ Len(t.calls) = N + 1 /\ t.calls[N + 1] = c
      /\ \A k \in 1 .. N : t.calls[k] = s.calls[k]
  BY AppendFacts
<1> HIDE DEF N
<1>2. ASSUME NEW k \in 0 .. N PROVE SyncCalls(t, k) = SyncCalls(s, k)
  <2>1. \A j \in 1 .. k : t.calls[j] = s.calls[j]
    BY <1>1
  <2> QED
    BY <2>1 DEF SyncCalls
<1>3. SyncCalls(t, N + 1) = SyncCalls(t, N) \cup OfCall(c)
  <2>1. \A j : j \in 1 .. (N + 1) <=> j \in 1 .. N \/ j = N + 1
    BY <1>1
  <2> QED
    BY <1>1, <2>1 DEF SyncCalls, OfCall
<1>4. SyncCalls(t, N + 1) = SyncCalls(s, N) \cup OfCall(c)
  BY <1>1, <1>2, <1>3
<1> QED
  BY <1>1, <1>2, <1>4 DEF N

LEMMA OrderKept ==
  ASSUME NEW C, NEW s, s.calls \in Seq(C), NEW t, t.known = s.known, t.calls \in Seq(C),
         t.calls = s.calls \/ \E c : c.kind = "normal" /\ t.calls = Append(s.calls, c)
  PROVE  Handed(t) = Handed(s) /\ (Ordered(s) => Ordered(t))
<1>1. CASE t.calls = s.calls
  BY <1>1 DEF Handed, Ordered, SyncCalls
<1>2. CASE \E c : c.kind = "normal" /\ t.calls = Append(s.calls, c)
  <2>1. PICK c : c.kind = "normal" /\ t.calls = Append(s.calls, c)
    BY <1>2
  <2>2. c \in C
    <3>1. Len(s.calls) \in Nat /\ Len(t.calls) = Len(s.calls) + 1 /\ t.calls[Len(s.calls) + 1] = c
      BY <2>1
    <3> QED
      BY <3>1, SeqParts
  <2> DEFINE N == Len(s.calls)
  <2>3. /\ N \in Nat /\ Len(t.calls) = N + 1
        /\ t.calls[N + 1] = c
        /\ \A k \in 1 .. N : t.calls[k] = s.calls[k]
        /\ \A k \in 0 .. N : SyncCalls(t, k) = SyncCalls(s, k)
        /\ SyncCalls(t, N + 1) = SyncCalls(s, N) \cup OfCall(c)
    <3>1. s.calls \in Seq(C) /\ t.calls = Append(s.calls, c)
      BY <2>1
    <3> QED
      BY ONLY <2>2, <3>1, CallAppended
  <2> HIDE DEF N
  <2>4. SyncCalls(t, N + 1) = SyncCalls(s, N)
    BY <2>1, <2>3 DEF OfCall
  <2>5. Handed(t) = Handed(s)
    BY <2>3, <2>4 DEF Handed, N
  <2>6. ASSUME Ordered(s), NEW k \in 1 .. Len(t.calls), t.calls[k].kind = "sync"
        PROVE  Parent[t.calls[k].block] \in t.known \cup SyncCalls(t, k - 1) \cup {None}
    <3>1. k # N + 1
      BY <2>1, <2>3, <2>6
    <3>2. k \in 1 .. N /\ k - 1 \in 0 .. N
      BY <2>3, <3>1
    <3>3. t.calls[k] = s.calls[k] /\ SyncCalls(t, k - 1) = SyncCalls(s, k - 1)
      BY <2>3, <3>2
    <3> QED
      BY <2>6, <3>2, <3>3 DEF Ordered, N
  <2> QED
    BY <2>5, <2>6 DEF Ordered
<1> QED
  BY <1>1, <1>2

LEMMA OrderMore ==
  ASSUME NEW C, NEW s, s.calls \in Seq(C), NEW t, t.known = s.known, NEW b, SyncCall(b) \in C,
         t.calls = Append(s.calls, SyncCall(b)), Parent[b] \in Handed(s) \cup {None}
  PROVE  Handed(t) = Handed(s) \cup {b} /\ (Ordered(s) => Ordered(t))
<1> DEFINE N == Len(s.calls)
           c == SyncCall(b)
<1>1. /\ N \in Nat /\ Len(t.calls) = N + 1
      /\ t.calls[N + 1] = c
      /\ \A k \in 1 .. N : t.calls[k] = s.calls[k]
      /\ \A k \in 0 .. N : SyncCalls(t, k) = SyncCalls(s, k)
      /\ SyncCalls(t, N + 1) = SyncCalls(s, N) \cup OfCall(c)
  BY CallAppended
<1>2. c.kind = "sync" /\ c.block = b
  BY DEF SyncCall
<1> HIDE DEF N, c
<1>3. SyncCalls(t, N + 1) = SyncCalls(s, N) \cup {b}
  BY <1>1, <1>2 DEF OfCall
<1>4. Handed(t) = Handed(s) \cup {b}
  BY <1>1, <1>3 DEF Handed, N
<1>5. ASSUME Ordered(s), NEW k \in 1 .. Len(t.calls), t.calls[k].kind = "sync"
      PROVE  Parent[t.calls[k].block] \in t.known \cup SyncCalls(t, k - 1) \cup {None}
  <2>1. CASE k = N + 1
    <3>1. t.calls[k].block = b /\ k - 1 = N
      BY <1>1, <1>2, <2>1
    <3>2. SyncCalls(t, k - 1) = SyncCalls(s, N)
      BY <1>1, <3>1
    <3> QED
      BY <3>1, <3>2 DEF Handed, N
  <2>2. CASE k # N + 1
    <3>2. k \in 1 .. N /\ k - 1 \in 0 .. N
      BY <1>1, <2>2
    <3>3. t.calls[k] = s.calls[k] /\ SyncCalls(t, k - 1) = SyncCalls(s, k - 1)
      BY <1>1, <3>2
    <3> QED
      BY <1>5, <3>2, <3>3 DEF Ordered, N
  <2> QED
    BY <2>1, <2>2
<1> QED
  BY <1>4, <1>5 DEF Ordered

LEMMA OwnKept ==
  ASSUME NEW C, NEW s, s.calls \in Seq(C), NEW t, t.handled = s.handled,
         t.calls = s.calls \/ \E c : c.kind # "own" /\ t.calls = Append(s.calls, c), OwnOK(s)
  PROVE  OwnOK(t)
<1>1. CASE t.calls = s.calls
  BY <1>1 DEF OwnOK
<1>2. CASE \E c : c.kind # "own" /\ t.calls = Append(s.calls, c)
  <2>1. PICK c : c.kind # "own" /\ t.calls = Append(s.calls, c)
    BY <1>2
  <2>2. /\ Len(s.calls) \in Nat /\ Len(t.calls) = Len(s.calls) + 1
        /\ t.calls[Len(s.calls) + 1] = c
        /\ \A k \in 1 .. Len(s.calls) : t.calls[k] = s.calls[k]
    BY <2>1
  <2>3. \A k \in 1 .. Len(t.calls) : k \in 1 .. Len(s.calls) \/ k = Len(s.calls) + 1
    BY <2>2
  <2> QED
    BY <2>1, <2>2, <2>3 DEF OwnOK
<1> QED
  BY <1>1, <1>2

\* A step that keeps the invariant for K keeps those of the node.
LEMMA KeepsGood ==
  ASSUME NEW n, NEW s, NEW t,
         NodeOK(n, Blocks, s) => Keeps(n, Blocks, s, t),
         NodeOK(n, Handed(s), s) => Keeps(n, Handed(s), s, t)
  PROVE  Good(n, s, t)
<1>0. ASSUME NEW K, NodeOK(n, K, s), Keeps(n, K, s, t), OwnOK(s) PROVE OwnOK(t)
  <2>1. s.calls \in Seq(Calls(Neighbours(n))) /\ t.handled = s.handled
    BY <1>0, NodeParts DEF Keeps
  <2>2. t.calls = s.calls \/ \E c : c.kind # "own" /\ t.calls = Append(s.calls, c)
    BY <1>0 DEF Keeps
  <2> QED
    BY <1>0, <2>1, <2>2, OwnKept
<1>1. ASSUME Sound(n, s) PROVE Sound(n, t)
  <2>1. NodeOK(n, Blocks, s) /\ Tracked(s) /\ OwnOK(s) /\ Keeps(n, Blocks, s, t)
    BY <1>1 DEF Sound
  <2>2. NodeOK(n, Blocks, t) /\ Tracked(t)
    BY <2>1 DEF Keeps
  <2> QED
    BY <1>0, <2>1, <2>2 DEF Sound
<1>2. ASSUME InOrder(n, s) PROVE InOrder(n, t)
  <2>1. NodeOK(n, Handed(s), s) /\ Keeps(n, Handed(s), s, t)
    BY <1>2 DEF InOrder
  <2>2. NodeOK(n, Handed(s), t) /\ Tracked(t) /\ t.known = s.known /\ t.handled = s.handled
    BY <1>2, <2>1 DEF InOrder, Keeps
  <2>3. s.calls \in Seq(Calls(Neighbours(n))) /\ t.calls \in Seq(Calls(Neighbours(n)))
    BY <2>1, <2>2, NodeParts
  <2>4. t.calls = s.calls \/ \E c : c.kind = "normal" /\ t.calls = Append(s.calls, c)
    BY <2>1 DEF Keeps
  <2>5. Handed(t) = Handed(s) /\ (Ordered(s) => Ordered(t))
    BY <2>2, <2>3, <2>4, OrderKept
  <2>6. Linked(t)
    BY <1>2, <2>2 DEF InOrder, Linked
  <2>7. OwnOK(t)
    BY <1>0, <1>2, <2>1 DEF InOrder
  <2> QED
    BY <1>2, <2>2, <2>5, <2>6, <2>7 DEF InOrder
<1> QED
  BY <1>1, <1>2 DEF Good

LEMMA GoodThen ==
  ASSUME NEW n, NEW s, NEW t, Good(n, s, t), NEW u, Good(n, t, u)
  PROVE  Good(n, s, u)
BY DEF Good

LEMMA GoodSelf == \A n, s : Good(n, s, s)
BY DEF Good

LEMMA BacklogRoundGood ==
  ASSUME NEW n, NEW s, NEW t, t = BacklogRound(s).state
  PROVE  Good(n, s, t)
<1>0. ASSUME NEW K, NodeOK(n, K, s), OwnOK(s),
             \/ Keeps(n, K, s, t) /\ t.calls = s.calls
             \/ \E b \in Blocks : Hands(n, K, s, t, b)
      PROVE  OwnOK(t)
  <2>1. s.calls \in Seq(Calls(Neighbours(n)))
    BY <1>0, NodeParts
  <2>2. t.handled = s.handled
    BY <1>0 DEF Keeps, Hands
  <2>3. t.calls = s.calls \/ \E c : c.kind # "own" /\ t.calls = Append(s.calls, c)
    <3>1. \A b : SyncCall(b).kind # "own"
      BY DEF SyncCall
    <3> QED
      BY <1>0, <3>1 DEF Hands
  <2> QED
    BY <1>0, <2>1, <2>2, <2>3, OwnKept
<1>1. ASSUME Sound(n, s) PROVE Sound(n, t)
  <2>1. NodeOK(n, Blocks, s) /\ Tracked(s) /\ OwnOK(s)
    BY <1>1 DEF Sound
  <2>2. \/ Keeps(n, Blocks, s, t) /\ t.calls = s.calls
        \/ \E b \in Blocks : Hands(n, Blocks, s, t, b)
    BY <2>1, BacklogRoundOK
  <2>2a. OwnOK(t)
    BY <1>0, <2>1, <2>2
  <2>3. CASE Keeps(n, Blocks, s, t)
    BY <2>1, <2>2a, <2>3 DEF Keeps, Sound
  <2>4. CASE \E b \in Blocks : Hands(n, Blocks, s, t, b)
    <3>1. PICK b \in Blocks : Hands(n, Blocks, s, t, b)
      BY <2>4
    <3>2. Blocks \cup {b} = Blocks
      OBVIOUS
    <3> QED
      BY <2>1, <2>2a, <3>1, <3>2 DEF Hands, Sound
  <2> QED
    BY <2>2, <2>3, <2>4
<1>2. ASSUME InOrder(n, s) PROVE InOrder(n, t)
  <2> DEFINE K == Handed(s)
  <2>1. NodeOK(n, K, s) /\ Tracked(s) /\ OwnOK(s)
    BY <1>2 DEF InOrder
  <2>2. \/ Keeps(n, K, s, t) /\ t.calls = s.calls
        \/ \E b \in Blocks : Hands(n, K, s, t, b)
    BY <2>1, BacklogRoundOK
  <2>2a. OwnOK(t)
    BY <1>0, <2>1, <2>2
  <2>3. ASSUME Keeps(n, K, s, t), t.calls = s.calls PROVE InOrder(n, t)
    <3>1. t.known = s.known /\ t.handled = s.handled /\ NodeOK(n, K, t) /\ Tracked(t)
      BY <2>1, <2>3 DEF Keeps
    <3>2. Handed(t) = Handed(s) /\ Ordered(t)
      BY <1>2, <2>3, <3>1 DEF Handed, SyncCalls, Ordered, InOrder
    <3>3. Linked(t)
      BY <1>2, <3>1 DEF Linked, InOrder
    <3> QED
      BY <2>2a, <3>1, <3>2, <3>3 DEF InOrder
  <2>4. CASE \E b \in Blocks : Hands(n, K, s, t, b)
    <3>1. PICK b \in Blocks : Hands(n, K, s, t, b)
      BY <2>4
    <3>2. /\ Parent[b] \in Handed(s) \cup {None} /\ NodeOK(n, K \cup {b}, t) /\ Tracked(t)
          /\ t.known = s.known /\ t.handled = s.handled /\ t.calls = Append(s.calls, SyncCall(b))
      BY <2>1, <3>1 DEF Hands
    <3>3. s.calls \in Seq(Calls(Neighbours(n)))
      BY <2>1, NodeParts
    <3>4. SyncCall(b) \in Calls(Neighbours(n))
      BY DEF Calls, SyncCall
    <3>5. Handed(t) = Handed(s) \cup {b} /\ (Ordered(s) => Ordered(t))
      BY <3>2, <3>3, <3>4, OrderMore
    <3>6. Linked(t)
      BY <1>2, <3>2 DEF Linked, InOrder
    <3> QED
      BY <1>2, <2>2a, <3>2, <3>5, <3>6 DEF InOrder
  <2> QED
    BY <2>2, <2>3, <2>4
<1> QED
  BY <1>1, <1>2 DEF Good

BacklogStart(s) == [state |-> Collected(s), more |-> TRUE]

BacklogStep(g, s, k) ==
  IF k = 0 THEN BacklogStart(s)
  ELSE IF ~g[k - 1].more \/ InProgress(g[k - 1].state) >= MaxBlocksToHandle THEN g[k - 1]
  ELSE BacklogRound(g[k - 1].state)

Backlog(s, n) == CHOOSE g : g = [k \in 0 .. n |-> BacklogStep(g, s, k)]

LEMMA BacklogDefined ==
  ASSUME NEW s, NEW N \in Nat
  PROVE  \A i \in 0 .. N : Backlog(s, N)[i] = BacklogStep(Backlog(s, N), s, i)
<1> DEFINE T == {n \in Nat : \E g : g = [i \in 0 .. n |-> BacklogStep(g, s, i)]}
<1>1. ASSUME NEW n \in Nat, \A m \in Nat : m < n => m \in T
      PROVE  n \in T
  <2>1. CASE n = 0
    <3> DEFINE g == [i \in 0 .. n |-> BacklogStart(s)]
    <3>1. \A i \in 0 .. n : BacklogStep(g, s, i) = BacklogStart(s)
      BY <2>1 DEF BacklogStep
    <3>2. g = [i \in 0 .. n |-> BacklogStep(g, s, i)]
      BY <3>1
    <3> QED
      BY <3>2, Zenon
  <2>2. CASE n > 0
    <3>1. n - 1 \in Nat /\ n - 1 < n
      BY <2>2
    <3>2. PICK g : g = [i \in 0 .. (n - 1) |-> BacklogStep(g, s, i)]
      BY <1>1, <3>1, Zenon
    <3> DEFINE h == [i \in 0 .. n |-> BacklogStep(g, s, i)]
    <3>3. ASSUME NEW i \in 0 .. n PROVE BacklogStep(h, s, i) = BacklogStep(g, s, i)
      <4>1. CASE i = 0
        BY <4>1 DEF BacklogStep
      <4>2. CASE i # 0
        <5>1. i - 1 \in 0 .. n /\ i - 1 \in 0 .. (n - 1)
          BY <4>2
        <5>2. h[i - 1] = BacklogStep(g, s, i - 1)
          BY <5>1
        <5>3. g[i - 1] = BacklogStep(g, s, i - 1)
          BY <3>2, <5>1
        <5>4. h[i - 1] = g[i - 1]
          BY <5>2, <5>3
        <5> HIDE DEF h
        <5> QED
          BY <5>4 DEF BacklogStep
      <4> QED
        BY <4>1, <4>2
    <3>4. h = [i \in 0 .. n |-> BacklogStep(h, s, i)]
      BY <3>3
    <3> QED
      BY <3>4, Zenon
  <2> QED
    BY <2>1, <2>2
<1> HIDE DEF T
<1>2. Nat \subseteq T
  BY <1>1, NatSetInduction
<1>3. \E g : g = [i \in 0 .. N |-> BacklogStep(g, s, i)]
  BY <1>2 DEF T
<1> DEFINE g == Backlog(s, N)
<1>4. g = [i \in 0 .. N |-> BacklogStep(g, s, i)]
  BY <1>3, Zenon DEF Backlog
<1> HIDE DEF g
<1>5. \A i \in 0 .. N : g[i] = BacklogStep(g, s, i)
  BY <1>4
<1> QED
  BY <1>5 DEF g

\* A change of what the invariant does not speak of.
LEMMA AsideGood ==
  ASSUME NEW n, NEW s, NEW x, NEW t,
         \/ t = [s EXCEPT !.suspended = x] \/ t = [s EXCEPT !.due = x]
  PROVE  Good(n, s, t)
<1>1. ASSUME NEW K, NodeOK(n, K, s) PROVE Keeps(n, K, s, t)
  <2>1. /\ DOMAIN s = NodeFields /\ DOMAIN s.peer = Neighbours(n)
        /\ s.items_to_fetch \subseteq Blocks
        /\ s.recent \subseteq s.known \cup {None} /\ s.new_inventory \subseteq Blocks
    BY <1>1, NodeParts
  <2>2. /\ DOMAIN t = NodeFields /\ t.peer = s.peer
        /\ t.known = s.known /\ t.head = s.head
        /\ t.received = s.received /\ t.new_received = s.new_received
        /\ t.calls = s.calls /\ t.handled = s.handled
        /\ t.active_sync = s.active_sync /\ t.recent = s.recent
        /\ t.items_to_fetch = s.items_to_fetch /\ t.new_inventory = s.new_inventory
    BY <2>1 DEF NodeFields
  <2>3. Rest(s, t)
    BY <2>1, <2>2 DEF Rest
  <2>4. \A m \in Neighbours(n) : Moves(K, s.peer[m], t.peer[m])
    BY <1>1, <2>2, MovesSelf, NodeParts
  <2> QED
    BY <1>1, <2>1, <2>2, <2>3, <2>4, NodeMoves
<1>2. (NodeOK(n, Blocks, s) => Keeps(n, Blocks, s, t))
      /\ (NodeOK(n, Handed(s), s) => Keeps(n, Handed(s), s, t))
  BY <1>1
<1> QED
  BY <1>2, KeepsGood

LEMMA ReverseFacts ==
  ASSUME NEW S, NEW u \in Seq(S)
  PROVE  Reverse(u) \in Seq(S)
<1>1. Len(u) \in Nat /\ \A i \in 1 .. Len(u) : u[i] \in S
  OBVIOUS
<1>2. \A i \in 1 .. Len(u) : (Len(u) - i) + 1 \in 1 .. Len(u)
  BY <1>1
<1>3. Reverse(u) \in [1 .. Len(u) -> S]
  BY <1>1, <1>2 DEF Reverse
<1> QED
  BY <1>1, <1>3, IsSeq

\* The new blocks join the received ones.
LEMMA CollectedFacts ==
  ASSUME NEW s, DOMAIN s = NodeFields, s.received \in Seq(Blocks), s.new_received \in Seq(Blocks)
  PROVE  LET t == Collected(s)
         IN  /\ DOMAIN t = NodeFields /\ t.peer = s.peer
             /\ t.known = s.known /\ t.head = s.head
             /\ t.received \in Seq(Blocks) /\ t.new_received = << >>
             /\ t.calls = s.calls /\ t.handled = s.handled
             /\ t.active_sync = s.active_sync /\ t.recent = s.recent
             /\ t.items_to_fetch = s.items_to_fetch /\ t.new_inventory = s.new_inventory
<1> DEFINE t == Collected(s)
           r == Reverse(s.new_received) \o s.received
<1>1. r \in Seq(Blocks)
  BY ReverseFacts, ConcatFacts
<1>2. t = [s EXCEPT !.received = r, !.new_received = << >>, !.suspended = FALSE]
  BY DEF Collected
<1> HIDE DEF t, r
<1>3. /\ DOMAIN t = NodeFields /\ t.peer = s.peer
      /\ t.known = s.known /\ t.head = s.head
      /\ t.received = r /\ t.new_received = << >>
      /\ t.calls = s.calls /\ t.handled = s.handled
      /\ t.active_sync = s.active_sync /\ t.recent = s.recent
      /\ t.items_to_fetch = s.items_to_fetch /\ t.new_inventory = s.new_inventory
  BY <1>2 DEF NodeFields
<1> QED
  BY <1>1, <1>3 DEF t

LEMMA CollectedGood ==
  ASSUME NEW n, NEW s
  PROVE  Good(n, s, Collected(s))
<1> DEFINE t == Collected(s)
<1>1. ASSUME NEW K, NodeOK(n, K, s) PROVE Keeps(n, K, s, t)
  <2>1. /\ DOMAIN s = NodeFields /\ DOMAIN s.peer = Neighbours(n)
        /\ s.received \in Seq(Blocks) /\ s.new_received \in Seq(Blocks)
    BY <1>1, NodeParts
  <2>2. /\ DOMAIN t = NodeFields /\ t.peer = s.peer
        /\ t.known = s.known /\ t.head = s.head
        /\ t.received \in Seq(Blocks) /\ t.new_received = << >>
        /\ t.calls = s.calls /\ t.handled = s.handled
        /\ t.active_sync = s.active_sync /\ t.recent = s.recent
        /\ t.items_to_fetch = s.items_to_fetch /\ t.new_inventory = s.new_inventory
    BY <2>1, CollectedFacts
  <2> HIDE DEF t
  <2>3. << >> \in Seq(Blocks)
    OBVIOUS
  <2>4. TasksOK(t)
    BY <1>1, <2>2, <2>3 DEF NodeOK, TasksOK
  <2>5. ChainOK(K, t)
    BY <1>1, <2>2 DEF NodeOK, ChainOK
  <2>6. NodeOK(n, K, t)
    BY <1>1, <2>2, <2>4, <2>5 DEF NodeOK
  <2>7. Tracked(s) => Tracked(t)
    BY <2>2 DEF Tracked
  <2> QED
    BY <2>1, <2>2, <2>6, <2>7 DEF Keeps
<1>2. (NodeOK(n, Blocks, s) => Keeps(n, Blocks, s, t))
      /\ (NodeOK(n, Handed(s), s) => Keeps(n, Handed(s), s, t))
  BY <1>1
<1> QED
  BY <1>2, KeepsGood

LEMMA BacklogRoundsGood ==
  ASSUME NEW n, NEW s, Len(Collected(s).received) \in Nat
  PROVE  Good(n, s, BacklogRounds(s))
<1> DEFINE N == Len(Collected(s).received)
           r == Backlog(s, N)
<1>1. N \in Nat
  OBVIOUS
<1>2. BacklogRounds(s) = r[N].state
  BY Zenon DEF BacklogRounds, BacklogStep, Backlog, BacklogStart
<1>3. \A i \in 0 .. N : r[i] = BacklogStep(r, s, i)
  BY <1>1, BacklogDefined
<1> HIDE DEF N, r
<1> DEFINE T == {i \in Nat : i <= N => Good(n, s, r[i].state)}
<1>5. ASSUME NEW i \in Nat, \A m \in Nat : m < i => m \in T
      PROVE  i \in T
  <2> SUFFICES ASSUME i <= N PROVE Good(n, s, r[i].state)
    OBVIOUS
  <2>1. CASE i = 0
    <3>1. r[i] = BacklogStart(s)
      BY <1>1, <1>3, <2>1 DEF BacklogStep
    <3>2. r[i].state = Collected(s)
      BY <3>1 DEF BacklogStart
    <3> QED
      BY <3>2, CollectedGood
  <2>2. CASE i > 0
    <3>1. i - 1 \in Nat /\ i - 1 < i /\ i - 1 <= N /\ i \in 0 .. N /\ i # 0
      BY <1>1, <2>2
    <3>2. Good(n, s, r[i - 1].state)
      BY <1>5, <3>1
    <3>3. r[i] = r[i - 1] \/ r[i] = BacklogRound(r[i - 1].state)
      BY <1>3, <3>1 DEF BacklogStep
    <3>4. Good(n, r[i - 1].state, BacklogRound(r[i - 1].state).state)
      BY BacklogRoundGood
    <3> QED
      BY <3>2, <3>3, <3>4, GoodThen
  <2> QED
    BY <2>1, <2>2
<1> HIDE DEF T
<1>6. Nat \subseteq T
  BY <1>5, NatSetInduction
<1>7. Good(n, s, r[N].state)
  BY <1>1, <1>6 DEF T
<1> QED
  BY <1>2, <1>7


-----------------------------------------------------------------------------
(* The chain takes a block.                                                *)

ChainStep(s) ==
    LET c == Head(s.calls)
    IN  [Pushed(s, c.block) EXCEPT
           !.calls = Tail(@),
           !.handled = Append(@, [c EXCEPT !.result = PushResult(s, c.block)])]

LEMMA ChainStepFacts ==
  ASSUME NEW n, NEW K, NEW s, NodeOK(n, K, s), s.calls # << >>, NEW t, t = ChainStep(s),
         NEW c, c = s.calls[1], NEW b, b = c.block,
         NEW d, d = [c EXCEPT !.result = PushResult(s, b)]
  PROVE  /\ DOMAIN t = NodeFields /\ t.peer = s.peer
         /\ t.received = s.received /\ t.new_received = s.new_received
         /\ t.calls = Tail(s.calls) /\ t.handled = Append(s.handled, d)
         /\ t.active_sync = s.active_sync /\ t.recent = s.recent
         /\ t.items_to_fetch = s.items_to_fetch /\ t.new_inventory = s.new_inventory
         /\ c \in Calls(Neighbours(n)) /\ d \in Calls(Neighbours(n)) /\ b \in Blocks
         /\ d.kind = c.kind /\ d.block = b /\ d.result = PushResult(s, b)
         /\ PushResult(s, b) = "accepted" => /\ t.known = s.known \cup {b} /\ t.head \in {s.head, b}
                                             /\ Parent[b] \in s.known \cup {None}
         /\ PushResult(s, b) # "accepted" => t.known = s.known /\ t.head = s.head
<1>1. DOMAIN s = NodeFields /\ s.calls \in Seq(Calls(Neighbours(n)))
  BY NodeParts
<1>2. c \in Calls(Neighbours(n)) /\ c = Head(s.calls)
  BY <1>1, TailFacts
<1>3. b \in Blocks
  BY <1>2 DEF Calls
<1>4. PushResult(s, b) \in {"accepted", "rejected", "unlinkable"}
  BY DEF PushResult
<1>5. PushResult(s, b) = "accepted" => Parent[b] \in s.known \cup {None}
  BY DEF PushResult
<1> DEFINE res == PushResult(s, b)
<1> HIDE DEF res
<1>6. /\ d \in Calls(Neighbours(n)) /\ d.kind = c.kind /\ d.block = b /\ d.result = res
  BY <1>2, <1>4 DEF Calls, res
<1> DEFINE p == Pushed(s, b)
<1>7. /\ DOMAIN p = NodeFields /\ p.peer = s.peer /\ p.received = s.received /\ p.new_received = s.new_received
      /\ p.calls = s.calls /\ p.handled = s.handled
      /\ p.active_sync = s.active_sync /\ p.recent = s.recent
      /\ p.items_to_fetch = s.items_to_fetch /\ p.new_inventory = s.new_inventory
      /\ res = "accepted" => p.known = s.known \cup {b} /\ p.head \in {s.head, b}
      /\ res # "accepted" => p.known = s.known /\ p.head = s.head
  <2>1. CASE res # "accepted"
    <3>1. p = s
      BY <2>1 DEF Pushed, res
    <3> HIDE DEF p
    <3> QED
      BY <1>1, <2>1, <3>1
  <2>2. CASE res = "accepted"
    <3> DEFINE e == IF Num[b] > Num[s.head] THEN b ELSE s.head
    <3>1. p = [s EXCEPT !.known = s.known \cup {b}, !.head = e]
      BY <2>2 DEF Pushed, res
    <3>2. e \in {s.head, b}
      OBVIOUS
    <3> HIDE DEF p, e
    <3> QED
      BY <1>1, <2>2, <3>1, <3>2 DEF NodeFields
  <2> QED
    BY <2>1, <2>2
<1>8. t = [p EXCEPT !.calls = Tail(p.calls), !.handled = Append(p.handled, d)]
  BY <1>2 DEF ChainStep
<1> HIDE DEF p
<1>9. /\ DOMAIN t = NodeFields /\ t.peer = p.peer
      /\ t.received = p.received /\ t.new_received = p.new_received
      /\ t.calls = Tail(p.calls) /\ t.handled = Append(p.handled, d)
      /\ t.active_sync = p.active_sync /\ t.recent = p.recent
      /\ t.items_to_fetch = p.items_to_fetch /\ t.new_inventory = p.new_inventory
      /\ t.known = p.known /\ t.head = p.head
  BY <1>7, <1>8 DEF NodeFields
<1>10. /\ t.peer = s.peer
       /\ t.received = s.received /\ t.new_received = s.new_received
       /\ t.calls = Tail(s.calls) /\ t.handled = Append(s.handled, d)
       /\ t.active_sync = s.active_sync /\ t.recent = s.recent
       /\ t.items_to_fetch = s.items_to_fetch /\ t.new_inventory = s.new_inventory
  BY <1>7, <1>9
<1>11. /\ res = "accepted" => t.known = s.known \cup {b} /\ t.head \in {s.head, b}
       /\ res # "accepted" => t.known = s.known /\ t.head = s.head
  BY <1>7, <1>9
<1> QED
  BY <1>2, <1>3, <1>5, <1>6, <1>9, <1>10, <1>11 DEF res

\* The chain's side of the invariant, when known blocks are added.
LEMMA GrownOK ==
  ASSUME NEW n, NEW K, NEW s, NodeOK(n, K, s), NEW t, NEW L, NEW d,
         DOMAIN t = NodeFields, t.peer = s.peer, t.received = s.received, t.new_received = s.new_received,
         t.calls \in Seq(Calls(Neighbours(n))), d \in Calls(Neighbours(n)),
         t.handled = Append(s.handled, d), d.result = "accepted" => d.block \in t.known,
         t.active_sync = s.active_sync, t.recent = s.recent,
         t.items_to_fetch = s.items_to_fetch, t.new_inventory = s.new_inventory,
         K \subseteq L, L \subseteq Blocks, PathClosed(L), s.known \subseteq t.known,
         t.known \subseteq L, PathClosed(t.known), t.head \in t.known \cup {None}
  PROVE  NodeOK(n, L, t) /\ (Tracked(s) => Tracked(t))
<1>1. ChainOK(L, t)
  <2>1. t.recent \subseteq t.known \cup {None}
    BY NodeParts
  <2> QED
    BY <2>1 DEF ChainOK
<1>2. DOMAIN t.peer = Neighbours(n) /\ s.handled \in Seq(Calls(Neighbours(n)))
  BY NodeParts
<1>3. t.handled \in Seq(Calls(DOMAIN t.peer))
  BY <1>2, AppendFacts
<1>4. ASSUME NEW k \in DOMAIN t.handled, t.handled[k].result = "accepted"
      PROVE  t.handled[k].block \in t.known
  <2>1. /\ Len(t.handled) = Len(s.handled) + 1 /\ Len(s.handled) \in Nat
        /\ t.handled[Len(s.handled) + 1] = d
        /\ \A i \in 1 .. Len(s.handled) : t.handled[i] = s.handled[i]
    BY <1>2, AppendFacts
  <2>2. DOMAIN t.handled = 1 .. Len(t.handled) /\ DOMAIN s.handled = 1 .. Len(s.handled)
    BY <1>2, <1>3, SeqParts
  <2>3. CASE k = Len(s.handled) + 1
    BY <1>4, <2>1, <2>3
  <2>4. CASE k # Len(s.handled) + 1
    <3>1. k \in DOMAIN s.handled /\ t.handled[k] = s.handled[k]
      BY <2>1, <2>2, <2>4
    <3>2. s.handled[k].block \in s.known
      BY <1>4, <3>1 DEF NodeOK, TasksOK
    <3> QED
      BY <3>1, <3>2
  <2> QED
    BY <2>3, <2>4
<1>5. t.calls \in Seq(Calls(DOMAIN t.peer))
  BY <1>2
<1>6. TasksOK(t)
  <2>1. t.received \in Seq(Blocks) /\ t.new_received \in Seq(Blocks)
        /\ t.items_to_fetch \subseteq Blocks /\ t.new_inventory \subseteq Blocks
    BY NodeParts
  <2> QED
    BY <1>3, <1>4, <1>5, <2>1 DEF TasksOK
<1>7. \A m \in Neighbours(n) : PeerOK(L, t.peer[m])
  BY PeerGrown, NodeParts
<1>8. NodeOK(n, L, t)
  BY <1>1, <1>2, <1>6, <1>7 DEF NodeOK
<1>9. Tracked(s) => Tracked(t)
  BY DEF Tracked
<1> QED
  BY <1>8, <1>9

LEMMA ChainStepOK ==
  ASSUME NEW n, NEW K, NEW s, NodeOK(n, K, s), s.calls # << >>, NEW t, t = ChainStep(s),
         NEW L, K \subseteq L, L \subseteq Blocks, PathClosed(L), t.known \subseteq L
  PROVE  NodeOK(n, L, t) /\ (Tracked(s) => Tracked(t))
<1> DEFINE c == s.calls[1]
           b == c.block
           d == [c EXCEPT !.result = PushResult(s, b)]
<1>1. /\ DOMAIN t = NodeFields /\ t.peer = s.peer
      /\ t.received = s.received /\ t.new_received = s.new_received
      /\ t.calls = Tail(s.calls) /\ t.handled = Append(s.handled, d)
      /\ t.active_sync = s.active_sync /\ t.recent = s.recent
      /\ t.items_to_fetch = s.items_to_fetch /\ t.new_inventory = s.new_inventory
      /\ c \in Calls(Neighbours(n)) /\ d \in Calls(Neighbours(n)) /\ b \in Blocks
      /\ d.kind = c.kind /\ d.block = b /\ d.result = PushResult(s, b)
      /\ PushResult(s, b) = "accepted" => /\ t.known = s.known \cup {b} /\ t.head \in {s.head, b}
                                          /\ Parent[b] \in s.known \cup {None}
      /\ PushResult(s, b) # "accepted" => t.known = s.known /\ t.head = s.head
  BY ChainStepFacts
<1> HIDE DEF d, b, c
<1>2. s.known \subseteq t.known /\ PathClosed(t.known) /\ t.head \in t.known \cup {None}
  <2>1. PathClosed(s.known) /\ s.head \in s.known \cup {None}
    BY DEF NodeOK, ChainOK
  <2>2. CASE PushResult(s, b) = "accepted"
    <3>1. PathClosed(s.known \cup {b})
      BY <1>1, <2>1, <2>2, WithChild
    <3> QED
      BY <1>1, <2>1, <2>2, <3>1
  <2>3. CASE PushResult(s, b) # "accepted"
    BY <1>1, <2>1, <2>3
  <2> QED
    BY <2>2, <2>3
<1>3. t.calls \in Seq(Calls(Neighbours(n)))
  <2>1. s.calls \in Seq(Calls(Neighbours(n)))
    BY NodeParts
  <2> QED
    BY <1>1, <2>1, TailFacts
<1>4. d.result = "accepted" => d.block \in t.known
  BY <1>1
<1>5. /\ DOMAIN t = NodeFields /\ t.peer = s.peer /\ t.received = s.received /\ t.new_received = s.new_received
      /\ t.handled = Append(s.handled, d) /\ d \in Calls(Neighbours(n)) /\ NodeOK(n, K, s)
      /\ t.active_sync = s.active_sync /\ t.recent = s.recent
      /\ t.items_to_fetch = s.items_to_fetch /\ t.new_inventory = s.new_inventory
  BY <1>1
<1>6. K \subseteq L /\ L \subseteq Blocks /\ PathClosed(L) /\ t.known \subseteq L
  OBVIOUS
<1> QED
  BY ONLY <1>2, <1>3, <1>4, <1>5, <1>6, GrownOK

LEMMA ChainStepKnown ==
  ASSUME NEW n, NEW K, NEW s, NodeOK(n, K, s), s.calls # << >>, NEW t, t = ChainStep(s)
  PROVE  \E b \in Blocks : t.known \subseteq s.known \cup {b}
<1> DEFINE c == s.calls[1]
           b == c.block
           d == [c EXCEPT !.result = PushResult(s, b)]
<1>1. /\ t.handled = Append(s.handled, d) /\ b \in Blocks
      /\ PushResult(s, b) = "accepted" => t.known = s.known \cup {b}
      /\ PushResult(s, b) # "accepted" => t.known = s.known
  BY ChainStepFacts
<1> HIDE DEF b
<1> QED
  BY <1>1

LEMMA ChainStepOwn ==
  ASSUME NEW n, NEW K, NEW s, NodeOK(n, K, s), s.calls # << >>, NEW t, t = ChainStep(s), OwnOK(s)
  PROVE  OwnOK(t)
<1> DEFINE c == s.calls[1]
           b == c.block
           d == [c EXCEPT !.result = PushResult(s, b)]
<1>1. /\ t.calls = Tail(s.calls) /\ t.handled = Append(s.handled, d)
      /\ d \in Calls(Neighbours(n)) /\ d.kind = c.kind
  BY ChainStepFacts
<1>2. s.calls \in Seq(Calls(Neighbours(n))) /\ s.handled \in Seq(Calls(Neighbours(n)))
  BY NodeParts
<1>3. /\ Len(t.calls) = Len(s.calls) - 1 /\ Len(s.calls) \in Nat /\ Len(s.calls) > 0
      /\ \A k \in 1 .. (Len(s.calls) - 1) : t.calls[k] = s.calls[k + 1]
  BY <1>1, <1>2, TailFacts
<1>4. c.kind # "own"
  <2>1. 1 \in 1 .. Len(s.calls)
    BY <1>3
  <2> QED
    BY <2>1 DEF OwnOK
<1> HIDE DEF c, d
<1>5. \A k \in 1 .. Len(t.calls) : t.calls[k].kind # "own"
  <2>1. \A k \in 1 .. Len(t.calls) : k + 1 \in 1 .. Len(s.calls) /\ t.calls[k] = s.calls[k + 1]
    BY <1>3
  <2> QED
    BY <2>1 DEF OwnOK
<1>6. ASSUME NEW k \in DOMAIN t.handled, t.handled[k].kind = "own"
      PROVE  t.handled[k].result = "accepted"
  <2>1. k \in DOMAIN s.handled /\ t.handled[k] = s.handled[k]
    <3>1. /\ Len(t.handled) = Len(s.handled) + 1 /\ Len(s.handled) \in Nat
          /\ t.handled[Len(s.handled) + 1] = d /\ t.handled \in Seq(Calls(Neighbours(n)))
          /\ \A i \in 1 .. Len(s.handled) : t.handled[i] = s.handled[i]
      BY <1>1, <1>2, AppendFacts
    <3>2. DOMAIN t.handled = 1 .. Len(t.handled) /\ DOMAIN s.handled = 1 .. Len(s.handled)
      BY <1>2, <3>1, SeqParts
    <3>3. k # Len(s.handled) + 1
      BY <1>1, <1>4, <1>6, <3>1
    <3> QED
      BY <3>1, <3>2, <3>3
  <2> QED
    BY <1>6, <2>1 DEF OwnOK
<1> QED
  BY <1>5, <1>6 DEF OwnOK

LEMMA ChainStepSound ==
  ASSUME NEW n, NEW s, s.calls # << >>, NEW t, t = ChainStep(s), Sound(n, s)
  PROVE  Sound(n, t)
<1>1. NodeOK(n, Blocks, s) /\ Tracked(s) /\ OwnOK(s)
  BY DEF Sound
<1>2. PathClosed(Blocks)
  BY <1>1, ChainFacts, NodeParts
<1>3. t.known \subseteq Blocks
  <2>1. s.known \subseteq Blocks
    BY <1>1, NodeParts
  <2>2. \E b \in Blocks : t.known \subseteq s.known \cup {b}
    BY <1>1, ChainStepKnown
  <2> QED
    BY <2>1, <2>2
<1>4. NodeOK(n, Blocks, t) /\ (Tracked(s) => Tracked(t))
  BY <1>1, <1>2, <1>3, ChainStepOK
<1>5. OwnOK(t)
  BY <1>1, ChainStepOwn
<1> QED
  BY <1>1, <1>4, <1>5 DEF Sound

LEMMA TailCalls ==
  ASSUME NEW C, NEW s, s.calls \in Seq(C), s.calls # << >>, NEW t, t.calls = Tail(s.calls)
  PROVE  /\ Len(t.calls) = Len(s.calls) - 1 /\ Len(s.calls) \in Nat /\ Len(s.calls) > 0
         /\ \A k \in 1 .. Len(t.calls) : t.calls[k] = s.calls[k + 1]
         /\ \A k \in 0 .. Len(t.calls) : SyncCalls(s, k + 1) = SyncCalls(t, k) \cup OfCall(s.calls[1])
         /\ SyncCalls(s, 0) = {}
<1>1. /\ Len(t.calls) = Len(s.calls) - 1 /\ Len(s.calls) \in Nat /\ Len(s.calls) > 0
      /\ \A k \in 1 .. (Len(s.calls) - 1) : t.calls[k] = s.calls[k + 1]
  BY TailFacts
<1>2. ASSUME NEW k \in 0 .. Len(t.calls)
      PROVE  SyncCalls(s, k + 1) = SyncCalls(t, k) \cup OfCall(s.calls[1])
  <2>1. ASSUME NEW z \in SyncCalls(s, k + 1) PROVE z \in SyncCalls(t, k) \cup OfCall(s.calls[1])
    <3>1. PICK j \in 1 .. (k + 1) : s.calls[j].kind = "sync" /\ z = s.calls[j].block
      BY <2>1 DEF SyncCalls
    <3>2. CASE j = 1
      BY <3>1, <3>2 DEF OfCall
    <3>3. CASE j > 1
      <4>1. j - 1 \in 1 .. k /\ j - 1 \in 1 .. (Len(s.calls) - 1) /\ (j - 1) + 1 = j
        BY <1>1, <3>3
      <4>2. t.calls[j - 1] = s.calls[j]
        BY <1>1, <4>1
      <4> QED
        BY <3>1, <4>1, <4>2 DEF SyncCalls
    <3> QED
      BY <3>2, <3>3
  <2>2. ASSUME NEW z \in SyncCalls(t, k) PROVE z \in SyncCalls(s, k + 1)
    <3>1. PICK j \in 1 .. k : t.calls[j].kind = "sync" /\ z = t.calls[j].block
      BY <2>2 DEF SyncCalls
    <3>2. j + 1 \in 1 .. (k + 1) /\ t.calls[j] = s.calls[j + 1]
      BY <1>1, <3>1
    <3> QED
      BY <3>1, <3>2 DEF SyncCalls
  <2>3. ASSUME NEW z \in OfCall(s.calls[1]) PROVE z \in SyncCalls(s, k + 1)
    <3>1. s.calls[1].kind = "sync" /\ z = s.calls[1].block /\ 1 \in 1 .. (k + 1)
      BY <1>1, <2>3 DEF OfCall
    <3> QED
      BY <3>1 DEF SyncCalls
  <2> QED
    BY <2>1, <2>2, <2>3
<1>3. SyncCalls(s, 0) = {}
  BY DEF SyncCalls
<1> QED
  BY <1>1, <1>2, <1>3

LEMMA ChainStepInOrder ==
  ASSUME FinalTree, NEW n, NEW s, s.calls # << >>, NEW t, t = ChainStep(s), InOrder(n, s)
  PROVE  InOrder(n, t)
<1> DEFINE K == Handed(s)
           c == s.calls[1]
           b == c.block
           d == [c EXCEPT !.result = PushResult(s, b)]
           N == Len(t.calls)
<1>0. NodeOK(n, K, s) /\ Tracked(s) /\ OwnOK(s) /\ Ordered(s) /\ Linked(s)
  BY DEF InOrder
<1>0a. s.calls \in Seq(Calls(Neighbours(n))) /\ s.handled \in Seq(Calls(Neighbours(n)))
       /\ K \subseteq Blocks /\ s.known \subseteq K
  BY <1>0, NodeParts
<1>1. /\ t.calls = Tail(s.calls) /\ t.handled = Append(s.handled, d)
      /\ c \in Calls(Neighbours(n)) /\ d \in Calls(Neighbours(n)) /\ b \in Blocks
      /\ d.kind = c.kind /\ d.block = b /\ d.result = PushResult(s, b)
      /\ PushResult(s, b) = "accepted" => /\ t.known = s.known \cup {b} /\ t.head \in {s.head, b}
                                          /\ Parent[b] \in s.known \cup {None}
      /\ PushResult(s, b) # "accepted" => t.known = s.known /\ t.head = s.head
  BY <1>0, ChainStepFacts
<1>2. /\ N = Len(s.calls) - 1 /\ Len(s.calls) \in Nat /\ Len(s.calls) > 0 /\ N \in Nat
      /\ \A k \in 1 .. N : t.calls[k] = s.calls[k + 1]
      /\ \A k \in 0 .. N : SyncCalls(s, k + 1) = SyncCalls(t, k) \cup OfCall(c)
      /\ SyncCalls(s, 0) = {}
  <2>0. s.calls \in Seq(Calls(Neighbours(n))) /\ s.calls # << >> /\ t.calls = Tail(s.calls)
    BY <1>0a, <1>1
  <2>1. /\ N = Len(s.calls) - 1 /\ Len(s.calls) \in Nat /\ Len(s.calls) > 0
        /\ \A k \in 1 .. N : t.calls[k] = s.calls[k + 1]
        /\ \A k \in 0 .. N : SyncCalls(s, k + 1) = SyncCalls(t, k) \cup OfCall(c)
        /\ SyncCalls(s, 0) = {}
    BY ONLY <2>0, TailCalls
  <2>2. N \in Nat
    <3> HIDE DEF N
    <3> QED
      BY <2>1
  <2> QED
    BY <2>1, <2>2
<1> HIDE DEF d, N
<1>2a. OfCall(c) \subseteq {b} /\ (c.kind = "sync" => OfCall(c) = {b})
  BY DEF OfCall
<1>3. c.kind = "sync" => Parent[b] \in s.known \cup {None}
  <2>1. 1 \in 1 .. Len(s.calls) /\ 1 - 1 = 0
    BY <1>2
  <2> QED
    BY <1>0, <1>2, <2>1 DEF Ordered
<1> HIDE DEF b, c
<1>4. c.kind = "sync" => PushResult(s, b) # "unlinkable" /\ b \in t.known
  <2> SUFFICES ASSUME c.kind = "sync" PROVE PushResult(s, b) # "unlinkable" /\ b \in t.known
    OBVIOUS
  <2>1. PushResult(s, b) # "unlinkable"
    BY <1>3 DEF PushResult
  <2>2. CASE PushResult(s, b) = "accepted"
    BY <1>1, <2>1, <2>2
  <2>3. CASE PushResult(s, b) # "accepted"
    <3>1. Num[b] <= Lib[s.head]
      BY <2>1, <2>3 DEF PushResult, last_non_undoable_block_num
    <3>2. s.head # None
      <4>1. Num[b] \in Nat /\ Num[b] > 0
        BY <1>1, Numbers
      <4> QED
        BY <3>1, <4>1, LibAssumption
    <3>3. s.head \in s.known /\ OnPath(s.head) \subseteq s.known /\ s.head \in Blocks
      BY <1>0, <1>0a, <3>2, ChainFacts, NodeParts DEF ChainOK
    <3>4. b \in OnPath(s.head)
      BY <1>1, <3>1, <3>3 DEF FinalTree
    <3> QED
      BY <1>1, <2>1, <2>3, <3>3, <3>4
  <2> QED
    BY <2>2, <2>3
<1>5. s.known \subseteq t.known /\ t.known \subseteq s.known \cup {b}
  BY <1>1
<1>6. K = s.known \cup SyncCalls(t, N) \cup OfCall(c)
  <2>1. Len(s.calls) = N + 1 /\ N \in 0 .. N
    BY <1>2
  <2>2. SyncCalls(s, Len(s.calls)) = SyncCalls(t, N) \cup OfCall(c)
    BY <1>2, <2>1
  <2> QED
    BY <2>2 DEF Handed
<1>7. Handed(t) = t.known \cup SyncCalls(t, N)
  BY DEF Handed, N
<1>7a. OfCall(c) \subseteq t.known
  BY <1>2a, <1>4 DEF OfCall
<1> HIDE DEF K
<1>8. K \subseteq Handed(t) /\ Handed(t) \subseteq K \cup {b}
      /\ (b \in Handed(t) => Handed(t) = K \cup {b}) /\ (b \notin Handed(t) => Handed(t) = K)
  BY <1>2a, <1>5, <1>6, <1>7, <1>7a
<1>9. PathClosed(Handed(t)) /\ Handed(t) \subseteq Blocks /\ t.known \subseteq Handed(t)
  <2>1. PathClosed(K)
    BY <1>0, ChainFacts, NodeParts
  <2>2. CASE PushResult(s, b) = "accepted"
    <3>1. Parent[b] \in K \cup {None} /\ b \in Handed(t)
      BY <1>0a, <1>1, <1>7, <2>2
    <3>2. PathClosed(K \cup {b})
      BY <1>1, <2>1, <3>1, WithChild
    <3> QED
      BY <1>0a, <1>1, <1>7, <1>8, <3>1, <3>2
  <2>3. CASE PushResult(s, b) # "accepted"
    <3>1. Handed(t) = K
      BY <1>1, <1>2a, <1>5, <1>6, <1>7, <1>7a, <2>3
    <3> QED
      BY <1>0a, <1>7, <2>1, <3>1
  <2> QED
    BY <2>2, <2>3
<1>10. NodeOK(n, Handed(t), t) /\ Tracked(t) /\ OwnOK(t)
  BY <1>0, <1>8, <1>9, ChainStepOK, ChainStepOwn
<1>11. Ordered(t)
  <2>1. ASSUME NEW k \in 1 .. N, t.calls[k].kind = "sync"
        PROVE  Parent[t.calls[k].block] \in t.known \cup SyncCalls(t, k - 1) \cup {None}
    <3>1. /\ k + 1 \in 1 .. Len(s.calls) /\ (k + 1) - 1 = (k - 1) + 1 /\ k - 1 \in 0 .. N
          /\ (k + 1) - 1 = k /\ (k - 1) + 1 = k
      BY <1>2
    <3>2. t.calls[k] = s.calls[k + 1] /\ SyncCalls(s, k) = SyncCalls(t, k - 1) \cup OfCall(c)
      BY <1>2, <3>1
    <3>3. Parent[s.calls[k + 1].block] \in s.known \cup SyncCalls(s, k) \cup {None}
      BY <1>0, <2>1, <3>1, <3>2 DEF Ordered
    <3> QED
      BY <1>5, <1>7a, <3>2, <3>3
  <2> QED
    BY <2>1 DEF Ordered, N
<1>12. Linked(t)
  <2>1. /\ Len(t.handled) = Len(s.handled) + 1 /\ Len(s.handled) \in Nat
        /\ t.handled[Len(s.handled) + 1] = d /\ t.handled \in Seq(Calls(Neighbours(n)))
        /\ \A i \in 1 .. Len(s.handled) : t.handled[i] = s.handled[i]
    BY <1>0a, <1>1, AppendFacts
  <2>2. DOMAIN t.handled = 1 .. Len(t.handled) /\ DOMAIN s.handled = 1 .. Len(s.handled)
    BY <1>0a, <2>1, SeqParts
  <2>3. ASSUME NEW k \in DOMAIN t.handled, t.handled[k].kind = "sync"
        PROVE  t.handled[k].result # "unlinkable"
    <3>1. CASE k = Len(s.handled) + 1
      BY <1>1, <1>4, <2>1, <2>3, <3>1
    <3>2. CASE k # Len(s.handled) + 1
      <4>1. k \in DOMAIN s.handled /\ t.handled[k] = s.handled[k]
        BY <2>1, <2>2, <3>2
      <4> QED
        BY <1>0, <2>3, <4>1 DEF Linked
    <3> QED
      BY <3>1, <3>2
  <2> QED
    BY <2>3 DEF Linked
<1> QED
  BY <1>10, <1>11, <1>12 DEF InOrder


-----------------------------------------------------------------------------
(* The steps of one node.                                                  *)

LEMMA ChainStepGood ==
  ASSUME NEW n, NEW s, s.calls # << >>
  PROVE  Good(n, s, ChainStep(s))
BY ChainStepSound, ChainStepInOrder DEF Good

\* What the node's own miner adds.
Mined(n, s, b) == [s EXCEPT !.known = @ \cup {b}, !.head = b,
                            !.handled = Append(@, [kind |-> "own", from |-> n,
                                                   block |-> b, result |-> "accepted"])]

LEMMA MinedFacts ==
  ASSUME NEW n \in Nodes, NEW K, NEW s, NodeOK(n, K, s), NEW b \in Blocks, Parent[b] = s.head,
         NEW t, t = Mined(n, s, b)
  PROVE  /\ t.known = s.known \cup {b} /\ t.calls = s.calls /\ Parent[b] \in s.known \cup {None}
         /\ NodeOK(n, K \cup {b}, t) /\ (Tracked(s) => Tracked(t)) /\ (OwnOK(s) => OwnOK(t))
         /\ Linked(s) => Linked(t)
<1> DEFINE d == [kind |-> "own", from |-> n, block |-> b, result |-> "accepted"]
<1>1. /\ d \in Calls(Neighbours(n)) /\ d.result = "accepted" /\ d.block = b /\ d.kind = "own"
  BY DEF Calls
<1>2. DOMAIN s = NodeFields /\ s.handled \in Seq(Calls(Neighbours(n)))
      /\ s.calls \in Seq(Calls(Neighbours(n))) /\ ChainOK(K, s)
  BY NodeParts
<1>3. t = [s EXCEPT !.known = s.known \cup {b}, !.head = b, !.handled = Append(s.handled, d)]
  BY DEF Mined
<1> HIDE DEF d
<1>4. /\ DOMAIN t = NodeFields /\ t.peer = s.peer /\ t.received = s.received /\ t.new_received = s.new_received
      /\ t.calls = s.calls /\ t.handled = Append(s.handled, d)
      /\ t.active_sync = s.active_sync /\ t.recent = s.recent
      /\ t.items_to_fetch = s.items_to_fetch /\ t.new_inventory = s.new_inventory
      /\ t.known = s.known \cup {b} /\ t.head = b
  BY <1>2, <1>3 DEF NodeFields
<1>5. /\ K \subseteq Blocks /\ PathClosed(K) /\ s.known \subseteq K /\ PathClosed(s.known)
      /\ Parent[b] \in s.known \cup {None}
  BY <1>2 DEF ChainOK
<1>6. PathClosed(K \cup {b}) /\ PathClosed(t.known)
  <2>1. PathClosed(K \cup {b})
    BY <1>5, WithChild
  <2>2. PathClosed(s.known \cup {b})
    BY <1>5, WithChild
  <2> QED
    BY <1>4, <2>1, <2>2
<1>7. NodeOK(n, K \cup {b}, t) /\ (Tracked(s) => Tracked(t))
  <2> DEFINE L == K \cup {b}
  <2>1. /\ K \subseteq L /\ L \subseteq Blocks /\ s.known \subseteq t.known /\ t.known \subseteq L
        /\ t.head \in t.known \cup {None} /\ (d.result = "accepted" => d.block \in t.known)
        /\ PathClosed(L) /\ PathClosed(t.known) /\ t.calls \in Seq(Calls(Neighbours(n)))
        /\ d \in Calls(Neighbours(n))
    BY <1>1, <1>2, <1>4, <1>5, <1>6
  <2>1a. /\ DOMAIN t = NodeFields /\ t.peer = s.peer
         /\ t.received = s.received /\ t.new_received = s.new_received
         /\ t.handled = Append(s.handled, d) /\ NodeOK(n, K, s)
         /\ t.active_sync = s.active_sync /\ t.recent = s.recent
         /\ t.items_to_fetch = s.items_to_fetch /\ t.new_inventory = s.new_inventory
    BY <1>4
  <2> HIDE DEF L
  <2>2. NodeOK(n, L, t) /\ (Tracked(s) => Tracked(t))
    BY ONLY <2>1, <2>1a, GrownOK
  <2> QED
    BY <2>2 DEF L
<1>8. \A k \in DOMAIN t.handled : \/ k \in DOMAIN s.handled /\ t.handled[k] = s.handled[k]
                                  \/ t.handled[k] = d
  <2>1. /\ Len(t.handled) = Len(s.handled) + 1 /\ Len(s.handled) \in Nat
        /\ t.handled[Len(s.handled) + 1] = d /\ t.handled \in Seq(Calls(Neighbours(n)))
        /\ \A i \in 1 .. Len(s.handled) : t.handled[i] = s.handled[i]
    BY <1>1, <1>2, <1>4, AppendFacts
  <2>2. DOMAIN t.handled = 1 .. Len(t.handled) /\ DOMAIN s.handled = 1 .. Len(s.handled)
    BY <1>2, <2>1, SeqParts
  <2> QED
    BY <2>1, <2>2
<1>9. OwnOK(s) => OwnOK(t)
  BY <1>1, <1>4, <1>8 DEF OwnOK
<1>10. Linked(s) => Linked(t)
  BY <1>1, <1>8 DEF Linked
<1> QED
  BY <1>4, <1>5, <1>7, <1>9, <1>10

LEMMA MinedGood ==
  ASSUME NEW n \in Nodes, NEW s, NEW b \in Blocks, Parent[b] = s.head, NEW t, t = Mined(n, s, b)
  PROVE  Good(n, s, t)
<1>1. ASSUME Sound(n, s) PROVE Sound(n, t)
  <2>1. NodeOK(n, Blocks, s) /\ Tracked(s) /\ OwnOK(s)
    BY <1>1 DEF Sound
  <2>2. NodeOK(n, Blocks \cup {b}, t) /\ Tracked(t) /\ OwnOK(t)
    BY <2>1, MinedFacts
  <2>3. Blocks \cup {b} = Blocks
    OBVIOUS
  <2> QED
    BY <2>2, <2>3 DEF Sound
<1>2. ASSUME InOrder(n, s) PROVE InOrder(n, t)
  <2>1. NodeOK(n, Handed(s), s) /\ Tracked(s) /\ OwnOK(s) /\ Ordered(s) /\ Linked(s)
    BY <1>2 DEF InOrder
  <2>2. NodeOK(n, Handed(s) \cup {b}, t) /\ Tracked(t) /\ OwnOK(t) /\ Linked(t)
        /\ t.known = s.known \cup {b} /\ t.calls = s.calls
    BY <2>1, MinedFacts
  <2>3. \A k : SyncCalls(t, k) = SyncCalls(s, k)
    BY <2>2 DEF SyncCalls
  <2>4. Handed(t) = Handed(s) \cup {b}
    BY <2>2, <2>3 DEF Handed
  <2>5. Ordered(t)
    BY <2>1, <2>2, <2>3 DEF Ordered
  <2> QED
    BY <2>2, <2>4, <2>5 DEF InOrder
<1> QED
  BY <1>1, <1>2 DEF Good

-----------------------------------------------------------------------------
(* The fiber that called handle_block resumes.                             *)

Taken(s) == [s EXCEPT !.handled = Tail(@)]

LEMMA TakenFacts ==
  ASSUME NEW n, NEW K, NEW s, NodeOK(n, K, s), s.handled # << >>, NEW t, t = Taken(s)
  PROVE  /\ NodeOK(n, K, t) /\ (Tracked(s) => Tracked(t)) /\ (OwnOK(s) => OwnOK(t))
         /\ (Linked(s) => Linked(t)) /\ t.calls = s.calls /\ t.known = s.known
         /\ Head(s.handled) \in Calls(Neighbours(n))
         /\ Head(s.handled).result = "accepted" => Head(s.handled).block \in t.known
         /\ OwnOK(s) /\ Head(s.handled).kind = "own" => Head(s.handled).result = "accepted"
<1>1. DOMAIN s = NodeFields /\ s.handled \in Seq(Calls(Neighbours(n)))
      /\ DOMAIN s.peer = Neighbours(n)
  BY NodeParts
<1>2. /\ DOMAIN t = NodeFields /\ t.peer = s.peer /\ t.received = s.received /\ t.new_received = s.new_received
      /\ t.calls = s.calls /\ t.handled = Tail(s.handled)
      /\ t.active_sync = s.active_sync /\ t.recent = s.recent
      /\ t.items_to_fetch = s.items_to_fetch /\ t.new_inventory = s.new_inventory
      /\ t.known = s.known /\ t.head = s.head
  BY <1>1 DEF NodeFields, Taken
<1>3. /\ s.handled[1] \in Calls(Neighbours(n)) /\ Head(s.handled) = s.handled[1]
      /\ Len(s.handled) \in Nat /\ Len(s.handled) > 0
      /\ Tail(s.handled) \in Seq(Calls(Neighbours(n)))
      /\ \A i \in 1 .. (Len(s.handled) - 1) : Tail(s.handled)[i] = s.handled[i + 1]
      /\ DOMAIN s.handled = 1 .. Len(s.handled)
      /\ DOMAIN Tail(s.handled) = 1 .. (Len(s.handled) - 1)
  BY <1>1, TailFacts
<1>4. \A k \in DOMAIN t.handled : \E j \in DOMAIN s.handled : t.handled[k] = s.handled[j]
  <2>1. \A k \in DOMAIN t.handled : k + 1 \in DOMAIN s.handled /\ t.handled[k] = s.handled[k + 1]
    BY <1>2, <1>3
  <2> QED
    BY <2>1
<1>5. \A k \in DOMAIN s.handled : s.handled[k].result = "accepted" => s.handled[k].block \in s.known
  BY DEF NodeOK, TasksOK
<1>6. TasksOK(t)
  <2>1. t.handled \in Seq(Calls(DOMAIN t.peer))
    BY <1>1, <1>2, <1>3
  <2>2. \A k \in DOMAIN t.handled : t.handled[k].result = "accepted" => t.handled[k].block \in t.known
    BY <1>2, <1>4, <1>5
  <2>3. /\ t.received \in Seq(Blocks) /\ t.new_received \in Seq(Blocks)
        /\ t.calls \in Seq(Calls(DOMAIN t.peer))
        /\ t.items_to_fetch \subseteq Blocks /\ t.new_inventory \subseteq Blocks
    BY <1>2 DEF NodeOK, TasksOK
  <2> QED
    BY <2>1, <2>2, <2>3 DEF TasksOK
<1>7. ChainOK(K, t)
  BY <1>2 DEF NodeOK, ChainOK
<1>8. NodeOK(n, K, t)
  BY <1>1, <1>2, <1>6, <1>7 DEF NodeOK
<1>9. Tracked(s) => Tracked(t)
  BY <1>2 DEF Tracked
<1>10. OwnOK(s) => OwnOK(t)
  BY <1>2, <1>4 DEF OwnOK
<1>11. Linked(s) => Linked(t)
  BY <1>4 DEF Linked
<1>12. 1 \in DOMAIN s.handled
  BY <1>3
<1>13. OwnOK(s) /\ Head(s.handled).kind = "own" => Head(s.handled).result = "accepted"
  BY <1>3, <1>12 DEF OwnOK
<1> QED
  BY <1>2, <1>3, <1>5, <1>8, <1>9, <1>10, <1>11, <1>12, <1>13

LEMMA TakenGood ==
  ASSUME NEW n, NEW s, s.handled # << >>, NEW t, t = Taken(s)
  PROVE  Good(n, s, t)
<1>1. ASSUME Sound(n, s) PROVE Sound(n, t)
  BY <1>1, TakenFacts DEF Sound
<1>2. ASSUME InOrder(n, s) PROVE InOrder(n, t)
  <2>1. NodeOK(n, Handed(s), s) /\ Tracked(s) /\ OwnOK(s) /\ Ordered(s) /\ Linked(s)
    BY <1>2 DEF InOrder
  <2>2. NodeOK(n, Handed(s), t) /\ Tracked(t) /\ OwnOK(t) /\ Linked(t)
        /\ t.known = s.known /\ t.calls = s.calls
    BY <2>1, TakenFacts
  <2>3. Handed(t) = Handed(s) /\ Ordered(t)
    BY <2>1, <2>2 DEF Handed, Ordered, SyncCalls
  <2> QED
    BY <2>2, <2>3 DEF InOrder
<1> QED
  BY <1>1, <1>2 DEF Good

Resumed(s, c) ==
    CASE c.kind = "sync"   -> SyncBlockHandled(s, c.block, c.result)
      [] c.kind = "normal" -> NormalBlockHandled(s, c.from, c.block, c.result)
      [] c.kind = "own"    -> broadcast(s, c.block)

LEMMA ResumedGood ==
  ASSUME NEW n, NEW K, NEW s, NodeOK(n, K, s), OwnOK(s), s.handled # << >>
  PROVE  Good(n, s, Resumed(Taken(s), Head(s.handled)))
<1> DEFINE t == Taken(s)
           c == Head(s.handled)
<1>1. Good(n, s, t)
  BY TakenGood
<1>2. /\ c \in Calls(Neighbours(n))
      /\ c.result = "accepted" => c.block \in t.known
      /\ c.kind = "own" => c.result = "accepted"
  BY TakenFacts
<1> HIDE DEF t, c
<1>3. /\ c.kind \in {"sync", "normal", "own"} /\ (c.kind = "normal" => c.from \in Neighbours(n))
      /\ c.result \in {"none", "accepted", "rejected", "unlinkable"}
  BY <1>2 DEF Calls
<1>4. ASSUME NEW L, NodeOK(n, L, t) PROVE Keeps(n, L, t, Resumed(t, c))
  <2>1. CASE c.kind = "sync"
    <3>1. Resumed(t, c) = SyncBlockHandled(t, c.block, c.result)
      BY <2>1 DEF Resumed
    <3> QED
      BY <1>2, <1>4, <3>1, SyncHandledOK
  <2>2. CASE c.kind = "normal"
    <3>1. Resumed(t, c) = NormalBlockHandled(t, c.from, c.block, c.result)
      BY <2>2 DEF Resumed
    <3> QED
      BY <1>2, <1>3, <1>4, <2>2, <3>1, NormalHandledOK
  <2>3. CASE c.kind = "own"
    <3>1. Resumed(t, c) = broadcast(t, c.block)
      BY <2>3 DEF Resumed
    <3> QED
      BY <1>2, <1>4, <2>3, <3>1, BroadcastOK
  <2> QED
    BY <1>3, <2>1, <2>2, <2>3
<1>5. Good(n, t, Resumed(t, c))
  BY <1>4, KeepsGood
<1>6. Good(n, s, Resumed(t, c))
  BY <1>1, <1>5, GoodThen
<1> QED
  BY <1>6 DEF t, c


-----------------------------------------------------------------------------
(* The loops of a node.                                                    *)

BacklogDone(s) ==
    LET t    == BacklogRounds(s)
        full == InProgress(t) >= MaxBlocksToHandle /\ Len(t.received) >= MaxBlocksToPrefetch
    IN  IF InProgress(s) >= MaxBlocksToHandle THEN s
        ELSE IF full THEN [t EXCEPT !.suspended = TRUE]
        ELSE Trigger(t, "fetch_sync_items")

LEMMA NodeReceived ==
  ASSUME NEW n, NEW K, NEW s, NodeOK(n, K, s), NEW x, NEW t, t = [s EXCEPT !.due = x]
  PROVE  /\ Len(Collected(t).received) \in Nat /\ NodeOK(n, K, t) /\ Good(n, s, t)
         /\ t.peer = s.peer /\ t.items_to_fetch = s.items_to_fetch
<1>1. /\ DOMAIN s = NodeFields
      /\ s.received \in Seq(Blocks) /\ s.new_received \in Seq(Blocks)
  BY NodeParts
<1>2. t.received = s.received /\ t.new_received = s.new_received
      /\ t.peer = s.peer /\ t.items_to_fetch = s.items_to_fetch
      /\ t.known = s.known /\ t.head = s.head /\ t.recent = s.recent /\ t.calls = s.calls
      /\ t.handled = s.handled /\ t.new_inventory = s.new_inventory /\ DOMAIN t = NodeFields
  BY <1>1 DEF NodeFields
<1>3. NodeOK(n, K, t)
  BY <1>2 DEF NodeOK, ChainOK, TasksOK
<1>4. Len(Collected(t).received) \in Nat
  <2>1. Collected(t).received \in Seq(Blocks)
    BY <1>1, <1>2, CollectedFacts
  <2> QED
    BY <2>1
<1>5. Good(n, s, t)
  BY AsideGood
<1> QED
  BY <1>2, <1>3, <1>4, <1>5

LEMMA BacklogGood ==
  ASSUME NEW n, NEW s, Len(Collected(s).received) \in Nat
  PROVE  Good(n, s, BacklogDone(s))
<1> DEFINE t == BacklogRounds(s)
<1>1. Good(n, s, t) /\ Good(n, s, s)
  BY BacklogRoundsGood, GoodSelf
<1>2. \/ BacklogDone(s) = s \/ BacklogDone(s) = [t EXCEPT !.suspended = TRUE]
      \/ BacklogDone(s) = Trigger(t, "fetch_sync_items")
  BY DEF BacklogDone
<1>3. Trigger(t, "fetch_sync_items") = [t EXCEPT !.due = t.due \cup {"fetch_sync_items"}]
  BY DEF Trigger
<1> HIDE DEF t
<1>4. Good(n, t, [t EXCEPT !.suspended = TRUE])
  BY AsideGood
<1>5. Good(n, t, Trigger(t, "fetch_sync_items"))
  BY <1>3, AsideGood
<1> QED
  BY <1>1, <1>2, <1>4, <1>5, GoodThen

LEMMA RequestsGood ==
  ASSUME NEW n, NEW s, DOMAIN s.peer \subseteq Nodes, NEW S, S \subseteq Active(s), NEW order \in SetToSeqs(S)
  PROVE  Good(n, s, RequestRounds(s, order))
<1>1. S \subseteq Nodes
  BY DEF Active
<1>2. Cardinality(S) \in Nat
  <2>1. IsFiniteSet(S)
    BY <1>1, LinksAssumption, FS_Subset
  <2> QED
    BY <2>1, FS_CardinalityType
<1>3. order \in [1 .. Cardinality(S) -> S]
  BY DEF SetToSeqs
<1>4. order \in [1 .. Cardinality(S) -> Active(s)]
  BY <1>3
<1>5. order \in Seq(Active(s))
  BY <1>2, <1>4, IsSeq
<1>6. \A K : NodeOK(n, K, s) => Keeps(n, K, s, RequestRounds(s, order))
  BY <1>5, RequestRoundsOK
<1> QED
  BY <1>6, KeepsGood

-----------------------------------------------------------------------------
(* The connections.                                                        *)

LEMMA LinkedNodes ==
  ASSUME NEW n \in Nodes, NEW m \in Neighbours(n)
  PROVE  m \in Nodes /\ n # m /\ n \in Neighbours(m)
BY LinksAssumption DEF Neighbours

LEMMA PeerGood ==
  ASSUME NEW n, NEW s, NEW m \in Neighbours(n), NEW q,
         \A K : PeerOK(K, s.peer[m]) => Moves(K, s.peer[m], q)
  PROVE  Good(n, s, WithPeer(s, m, q))
<1>1. ASSUME NEW K, NodeOK(n, K, s) PROVE Keeps(n, K, s, WithPeer(s, m, q))
  BY <1>1, NodeParts, WithPeerOK
<1> QED
  BY <1>1, KeepsGood

\* A connection that is on no list is replaced by a new one.
LEMMA ReopenedGood ==
  ASSUME NEW n, NEW s, NEW m \in Neighbours(n), s.peer[m].state = "closed", NEW q,
         \A K : ChainOK(K, s) => PeerOK(K, q), q.sync_items_requested = {}
  PROVE  Good(n, s, WithPeer(s, m, q))
<1>1. CASE Tracked(s)
  <2>1. ASSUME NEW K, NodeOK(n, K, s) PROVE Keeps(n, K, s, WithPeer(s, m, q))
    <3>1. m \in DOMAIN s.peer /\ ChainOK(K, s)
      BY <2>1, NodeParts
    <3>2. s.peer[m].sync_items_requested = {}
      BY <1>1, <3>1 DEF Tracked
    <3>3. Moves(K, s.peer[m], q)
      BY <3>1, <3>2 DEF Moves
    <3> QED
      BY <2>1, <3>3, WithPeerOK
  <2> QED
    BY <2>1, KeepsGood
<1>2. CASE ~Tracked(s)
  BY <1>2 DEF Good, Sound, InOrder
<1> QED
  BY <1>1, <1>2

LEMMA OpenOK ==
  ASSUME NEW K, NEW s, ChainOK(K, s), NEW p,
         p = [Closed EXCEPT !.state = "handshaking", !.shut = FALSE]
  PROVE  /\ PeerOK(K, p) /\ p.sync_items_requested = {}
         /\ PeerOK(K, new_peer_just_added(s, p))
         /\ new_peer_just_added(s, p).sync_items_requested = {}
<1>1. PeerOK(K, Closed) /\ DOMAIN Closed = PeerFields
  BY ClosedOK DEF PeerOK
<1>2. DOMAIN p = PeerFields /\ p.ids_of_items_to_get = Closed.ids_of_items_to_get
      /\ p.item_ids_requested = Closed.item_ids_requested
      /\ p.last_block_seen = Closed.last_block_seen /\ p.advertised_to_us = Closed.advertised_to_us
      /\ p.items_requested = Closed.items_requested /\ p.out = Closed.out
      /\ p.sync_items_requested = Closed.sync_items_requested
  BY <1>1 DEF PeerFields
<1>3. PeerOK(K, p)
  BY <1>1, <1>2, PeerKept
<1>4. p.sync_items_requested = {}
  BY <1>2 DEF Closed
<1>5. Moves(K, p, new_peer_just_added(s, p))
  BY <1>3, NewPeerOK
<1> QED
  BY <1>3, <1>4, <1>5 DEF Moves

LEMMA SentOK ==
  ASSUME NEW K, NEW p, PeerOK(K, p), p.out # << >>, NEW q, q = [p EXCEPT !.out = Tail(@)]
  PROVE  Moves(K, p, q) /\ Head(p.out) \in Messages
<1>1. DOMAIN p = PeerFields /\ p.out \in Seq(Messages)
  BY DEF PeerOK
<1>2. DOMAIN q = PeerFields /\ q.ids_of_items_to_get = p.ids_of_items_to_get
      /\ q.item_ids_requested = p.item_ids_requested
      /\ q.last_block_seen = p.last_block_seen /\ q.advertised_to_us = p.advertised_to_us
      /\ q.items_requested = p.items_requested /\ q.out = Tail(p.out)
      /\ q.sync_items_requested = p.sync_items_requested /\ q.state = p.state
  BY <1>1 DEF PeerFields
<1>3. Tail(p.out) \in Seq(Messages) /\ Head(p.out) \in Messages
  BY <1>1, TailFacts
<1>4. PeerOK(K, q)
  BY <1>2, <1>3 DEF PeerOK
<1> QED
  BY <1>2, <1>3, <1>4 DEF Moves

LEMMA TerminatedOK ==
  ASSUME NEW K, NEW p, PeerOK(K, p), NEW q, q = [p EXCEPT !.state = "terminating", !.shut = TRUE]
  PROVE  Moves(K, p, q)
<1>1. DOMAIN p = PeerFields
  BY DEF PeerOK
<1>2. DOMAIN q = PeerFields /\ q.ids_of_items_to_get = p.ids_of_items_to_get
      /\ q.item_ids_requested = p.item_ids_requested
      /\ q.last_block_seen = p.last_block_seen /\ q.advertised_to_us = p.advertised_to_us
      /\ q.items_requested = p.items_requested /\ q.out = p.out
      /\ q.sync_items_requested = p.sync_items_requested /\ q.state = "terminating"
  BY <1>1 DEF PeerFields
<1>3. Alike(p, q)
  BY <1>2 DEF Alike
<1> QED
  BY <1>3, AlikeOK

Taking(s, m, msg) ==
    CASE msg.type = "fetch_blockchain_item_ids" ->
           on_fetch_blockchain_item_ids_message(s, m, msg.synopsis)
      [] msg.type = "blockchain_item_ids_inventory" ->
           on_blockchain_item_ids_inventory_message(s, m, msg.ids, msg.remaining)
      [] msg.type = "fetch_items" -> on_fetch_items_message(s, m, msg.items)
      [] msg.type = "block" -> process_block_message(s, m, msg.block)
      [] msg.type = "item_ids_inventory" ->
           on_item_ids_inventory_message(s, m, msg.items)
      [] msg.type = "closing_connection" -> on_closing_connection_message(s, m)

LEMMA TakingGood ==
  ASSUME NEW n, NEW s, NEW m \in Neighbours(n), NEW msg \in Messages
  PROVE  Good(n, s, Taking(s, m, msg))
<1> DEFINE t == Taking(s, m, msg)
<1>1. ASSUME NEW K, NodeOK(n, K, s) PROVE Keeps(n, K, s, t)
  <2>1. ChainOK(K, s) /\ PeerOK(K, s.peer[m])
    BY <1>1, NodeParts
  <2>2. CASE msg.type = "fetch_blockchain_item_ids"
    <3>1. t = on_fetch_blockchain_item_ids_message(s, m, msg.synopsis)
      BY <2>2 DEF Taking
    <3>2. Turns(K, s, m, t)
      BY <2>1, <2>2, <3>1, IdsAskedTurns, MessageFields
    <3> QED
      BY <1>1, <3>2, TurnsOK
  <2>3. CASE msg.type = "blockchain_item_ids_inventory"
    <3>1. t = on_blockchain_item_ids_inventory_message(s, m, msg.ids, msg.remaining)
      BY <2>3 DEF Taking
    <3>2. Turns(K, s, m, t)
      BY <2>1, <2>3, <3>1, IdsToldTurns, MessageFields
    <3> QED
      BY <1>1, <3>2, TurnsOK
  <2>4. CASE msg.type = "fetch_items"
    <3>1. t = on_fetch_items_message(s, m, msg.items)
      BY <2>4 DEF Taking
    <3>2. Turns(K, s, m, t)
      BY <2>1, <2>4, <3>1, ItemsAskedTurns, MessageFields
    <3> QED
      BY <1>1, <3>2, TurnsOK
  <2>5. CASE msg.type = "block"
    <3>1. t = process_block_message(s, m, msg.block)
      BY <2>5 DEF Taking
    <3> QED
      BY <1>1, <2>5, <3>1, BlockArrived, MessageFields
  <2>6. CASE msg.type = "item_ids_inventory"
    <3>1. t = on_item_ids_inventory_message(s, m, msg.items)
      BY <2>6 DEF Taking
    <3> QED
      BY <1>1, <2>6, <3>1, InventoryTold, MessageFields
  <2>7. CASE msg.type = "closing_connection"
    <3>1. t = on_closing_connection_message(s, m)
      BY <2>7 DEF Taking
    <3>2. Turns(K, s, m, t)
      BY <2>1, <3>1, ClosingTurns
    <3> QED
      BY <1>1, <3>2, TurnsOK
  <2> QED
    BY <2>2, <2>3, <2>4, <2>5, <2>6, <2>7, MessageFields
<1> QED
  BY <1>1, KeepsGood


-----------------------------------------------------------------------------
(* The steps of the network.                                               *)

Fits == /\ DOMAIN node = Nodes
        /\ \A n \in Nodes : OwnOK(node[n]) /\ \E K : NodeOK(n, K, node[n])

Moved == DOMAIN node' = Nodes /\ \A n \in Nodes : Good(n, node[n], node'[n])

LEMMA OneMoved ==
  ASSUME DOMAIN node = Nodes, NEW n \in Nodes, NEW t, node' = [node EXCEPT ![n] = t],
         Good(n, node[n], t)
  PROVE  Moved
<1>1. DOMAIN node' = Nodes /\ node'[n] = t /\ \A k \in Nodes \ {n} : node'[k] = node[k]
  OBVIOUS
<1> QED
  BY <1>1, GoodSelf DEF Moved

LEMMA TwoMoved ==
  ASSUME DOMAIN node = Nodes, NEW n \in Nodes, NEW m \in Nodes, n # m, NEW t, NEW u,
         Good(n, node[n], t), Good(m, node[m], u),
         node' = [node EXCEPT ![n] = t, ![m] = u]
  PROVE  Moved
<1>1. /\ DOMAIN node' = Nodes /\ node'[n] = t /\ node'[m] = u
      /\ \A k \in Nodes \ {n, m} : node'[k] = node[k]
  OBVIOUS
<1> QED
  BY <1>1, GoodSelf DEF Moved

LEMMA ReceiveMoved ==
  ASSUME Fits, NEW n \in Nodes, NEW m \in Neighbours(n), Receive(n, m)
  PROVE  Moved
<1> DEFINE p == node[m].peer[n]
           q == [p EXCEPT !.out = Tail(@)]
           t == Taking(node[n], m, Head(p.out))
           u == WithPeer(node[m], n, q)
<1>1. m \in Nodes /\ n # m /\ n \in Neighbours(m) /\ DOMAIN node = Nodes
  BY LinkedNodes DEF Fits
<1>2. p.out # << >>
  BY DEF Receive
<1>3. Head(p.out) \in Messages
  <2>1. PICK K : NodeOK(m, K, node[m])
    BY <1>1 DEF Fits
  <2>2. PeerOK(K, p)
    BY <1>1, <2>1, NodeParts
  <2> QED
    BY <1>2, <2>2, SentOK
<1>4. Good(n, node[n], t)
  BY <1>3, TakingGood
<1>5. Good(m, node[m], u)
  <2>1. \A K : PeerOK(K, p) => Moves(K, p, q)
    BY <1>2, SentOK
  <2> QED
    BY <1>1, <2>1, PeerGood
<1>6. node' = [node EXCEPT ![n] = t, ![m] = u]
  <2>1. node' = [node EXCEPT ![n] = t, ![m].peer[n].out = Tail(@)]
    BY Zenon DEF Receive, Taking
  <2> HIDE DEF t
  <2>2. u = [node[m] EXCEPT !.peer[n].out = Tail(@)]
    BY DEF WithPeer
  <2> HIDE DEF u
  <2> QED
    BY <1>1, <2>1, <2>2
<1> HIDE DEF p, q, t, u
<1> QED
  BY <1>1, <1>4, <1>5, <1>6, TwoMoved

LEMMA ConnectMoved ==
  ASSUME Fits, NEW l \in Links, Connect(l)
  PROVE  Moved
<1> DEFINE n == l[1]
           m == l[2]
           open == [Closed EXCEPT !.state = "handshaking", !.shut = FALSE]
           q == new_peer_just_added(node[n], open)
           t == WithPeer(node[n], m, q)
           u == WithPeer(node[m], n, open)
<1>1. /\ n \in Nodes /\ m \in Nodes /\ n # m /\ m \in Neighbours(n) /\ n \in Neighbours(m)
      /\ DOMAIN node = Nodes
  <2>1. n \in Nodes /\ m \in Nodes /\ n # m /\ l = <<n, m>>
    BY LinksAssumption
  <2> HIDE DEF n, m
  <2>2. m \in Neighbours(n) /\ n \in Neighbours(m)
    BY <2>1 DEF Neighbours
  <2> QED
    BY <2>1, <2>2 DEF Fits
<1>2. /\ node[n].peer[m].state = "closed" /\ node[m].peer[n].state = "closed"
      /\ node' = [node EXCEPT ![n].peer[m] = q, ![m].peer[n] = open]
  BY Zenon DEF Connect
<1> HIDE DEF n, m
<1>3. \A K, s : ChainOK(K, s) => PeerOK(K, open) /\ PeerOK(K, new_peer_just_added(s, open))
  BY OpenOK
<1>4. q.sync_items_requested = {} /\ open.sync_items_requested = {}
  <2>1. PICK K : NodeOK(n, K, node[n])
    BY <1>1 DEF Fits
  <2>2. ChainOK(K, node[n])
    BY <2>1, NodeParts
  <2> QED
    BY <2>2, OpenOK
<1>5. Good(n, node[n], t)
  <2>1. \A K : ChainOK(K, node[n]) => PeerOK(K, q)
    BY <1>3
  <2> HIDE DEF q, open
  <2> QED
    BY <1>1, <1>2, <1>4, <2>1, ReopenedGood
<1>6. Good(m, node[m], u)
  <2>1. \A K : ChainOK(K, node[m]) => PeerOK(K, open)
    BY <1>3
  <2> HIDE DEF q, open
  <2> QED
    BY <1>1, <1>2, <1>4, <2>1, ReopenedGood
<1> HIDE DEF q, open
<1>7. node' = [node EXCEPT ![n] = t, ![m] = u]
  <2>1. t = [node[n] EXCEPT !.peer[m] = q] /\ u = [node[m] EXCEPT !.peer[n] = open]
    BY DEF WithPeer
  <2> HIDE DEF t, u
  <2> QED
    BY <1>1, <1>2, <2>1
<1> HIDE DEF t, u
<1> QED
  BY <1>1, <1>5, <1>6, <1>7, TwoMoved

LEMMA TerminateMoved ==
  ASSUME Fits, NEW n \in Nodes, NEW m \in Neighbours(n), terminate_inactive_connections_loop(n, m)
  PROVE  Moved
<1> DEFINE p == node[n].peer[m]
           q == [p EXCEPT !.state = "terminating", !.shut = TRUE]
           t == WithPeer(node[n], m, q)
<1>1. \A K : PeerOK(K, p) => Moves(K, p, q)
  BY TerminatedOK
<1>2. Good(n, node[n], t)
  BY <1>1, PeerGood
<1>3. node' = [node EXCEPT ![n] = t]
  <2>1. node' = [node EXCEPT ![n].peer[m].state = "terminating", ![n].peer[m].shut = TRUE]
    BY DEF terminate_inactive_connections_loop
  <2>2. PICK K : NodeOK(n, K, node[n])
    BY DEF Fits
  <2>3. /\ n \in DOMAIN node /\ DOMAIN node[n] = NodeFields /\ m \in DOMAIN node[n].peer
        /\ DOMAIN p = PeerFields
    BY <2>2, NodeParts DEF Fits, PeerOK
  <2>4. "peer" \in DOMAIN node[n] /\ "state" \in DOMAIN p /\ "shut" \in DOMAIN p
    BY <2>3 DEF NodeFields, PeerFields
  <2> QED
    BY <2>1, <2>3, <2>4 DEF WithPeer
<1> HIDE DEF t
<1> QED
  BY <1>2, <1>3, OneMoved DEF Fits

LEMMA ClosedMoved ==
  ASSUME Fits, NEW n \in Nodes, NEW m \in Neighbours(n), on_connection_closed(n, m)
  PROVE  Moved
<1> DEFINE s == node[n]
           p == s.peer[m]
           w == WithPeer(s, m, [Closed EXCEPT !.misjudged = p.misjudged])
           again == {b \in p.items_requested : \E o \in Active(w) : b \in w.peer[o].advertised_to_us}
           due == s.due \cup {l \in {"fetch_sync_items"} : p.sync_items_requested # {}}
                        \cup {l \in {"fetch_items"} : p.items_requested # {}}
           t == Ended(s, m, again, due)
<1>1. again \subseteq p.items_requested
  OBVIOUS
<1>2. PICK L : NodeOK(n, L, s)
  BY DEF Fits
<1>3. DOMAIN s = NodeFields /\ DOMAIN node = Nodes
  BY <1>2, NodeParts DEF Fits
<1>4. node' = [node EXCEPT ![n] = t]
  <2>1. node' = [node EXCEPT ![n] = [w EXCEPT !.active_sync = @ \ p.sync_items_requested,
                                !.items_to_fetch = @ \cup again,
                                !.due = @ \cup {l \in {"fetch_sync_items"} : p.sync_items_requested # {}}
                                          \cup {l \in {"fetch_items"} : p.items_requested # {}}]]
    BY Zenon DEF on_connection_closed
  <2> DEFINE v == [w EXCEPT !.active_sync = w.active_sync \ p.sync_items_requested,
                            !.items_to_fetch = w.items_to_fetch \cup again, 
                            !.due = w.due \cup {l \in {"fetch_sync_items"} : p.sync_items_requested # {}}
                                          \cup {l \in {"fetch_items"} : p.items_requested # {}}]
  <2>2. w.active_sync = s.active_sync /\ w.items_to_fetch = s.items_to_fetch /\ w.due = s.due
    BY <1>3 DEF WithPeer, NodeFields
  <2> HIDE DEF again
  <2>3. v = t
    <3>1. v = [w EXCEPT !.active_sync = s.active_sync \ p.sync_items_requested,
                        !.items_to_fetch = s.items_to_fetch \cup again, !.due = due]
      BY <2>2
    <3> QED
      BY <3>1 DEF Ended, WithPeer
  <2> QED
    BY <2>1, <2>3
<1> HIDE DEF again, due
<1>5. \A K : NodeOK(n, K, s) => Keeps(n, K, s, t)
  BY <1>1, EndedOK
<1> HIDE DEF t
<1>6. Good(n, s, t)
  BY <1>5, KeepsGood
<1> QED
  BY <1>3, <1>4, <1>6, OneMoved

LEMMA LoopsMoved ==
  ASSUME Fits, NEW n \in Nodes,
         \/ process_backlog_of_sync_blocks(n) \/ fetch_sync_items_loop(n)
         \/ fetch_items_loop(n) \/ advertise_inventory_loop(n)
  PROVE  Moved
<1>0. PICK L : NodeOK(n, L, node[n])
  BY DEF Fits
<1>0a. DOMAIN node = Nodes
  BY DEF Fits
<1>1. CASE process_backlog_of_sync_blocks(n)
  <2> DEFINE s == [node[n] EXCEPT !.due = @ \ {"backlog"}]
             t == BacklogDone(s)
  <2>1. node' = [node EXCEPT ![n] = t]
    BY <1>1, Zenon DEF process_backlog_of_sync_blocks, BacklogDone
  <2>2. Len(Collected(s).received) \in Nat /\ Good(n, node[n], s)
    BY <1>0, NodeReceived
  <2> HIDE DEF s
  <2>3. Good(n, s, t)
    BY <2>2, BacklogGood
  <2>4. Good(n, node[n], t)
    BY <2>2, <2>3, GoodThen
  <2> HIDE DEF t
  <2> QED
    BY <1>0a, <2>1, <2>4, OneMoved
<1>2. CASE fetch_sync_items_loop(n)
  <2> DEFINE s == [node[n] EXCEPT !.due = @ \ {"fetch_sync_items"}]
             S == {m \in Active(s) : CanBeAsked(s.peer[m])}
  <2>1. PICK order \in SetToSeqs(S) :
             node' = [node EXCEPT ![n] = IF s.suspended THEN s ELSE RequestRounds(s, order)]
    BY <1>2 DEF fetch_sync_items_loop
  <2>2. NodeOK(n, L, s) /\ Good(n, node[n], s)
    BY <1>0, NodeReceived
  <2>3. S \subseteq Active(s)
    OBVIOUS
  <2> HIDE DEF s, S
  <2>4. DOMAIN s.peer \subseteq Nodes
    <3>1. DOMAIN s.peer = Neighbours(n)
      BY <2>2, NodeParts
    <3> QED
      BY <3>1 DEF Neighbours
  <2>5. Good(n, s, RequestRounds(s, order))
    BY <2>3, <2>4, RequestsGood
  <2> DEFINE t == IF s.suspended THEN s ELSE RequestRounds(s, order)
  <2>6. Good(n, node[n], t)
    BY <2>2, <2>5, GoodThen
  <2> HIDE DEF t
  <2>7. node' = [node EXCEPT ![n] = t]
    BY <2>1 DEF t
  <2> QED
    BY <1>0a, <2>6, <2>7, OneMoved
<1>3. CASE fetch_items_loop(n)
  <2> DEFINE s == [node[n] EXCEPT !.due = @ \ {"fetch_items"}]
             from(b) == {m \in Active(s) : idle(s.peer[m]) /\ b \in s.peer[m].advertised_to_us}
             items == {b \in s.items_to_fetch : from(b) # {}}
  <2>1. PICK choice : node' = [node EXCEPT ![n] = ItemsAsked(s, items, choice)]
    <3> DEFINE Body(c) == [s EXCEPT
                          !.items_to_fetch = @ \ items,
                          !.peer = [m \in DOMAIN s.peer |->
                             LET mine == {b \in items : c[b] = m}
                             IN  IF mine = {} THEN s.peer[m]
                                 ELSE Send([s.peer[m] EXCEPT !.items_requested = @ \cup mine],
                                           [type |-> "fetch_items", items |-> SetToSeq(mine)])]]

    <3>1. \E choice \in [items -> Active(s)] :
            /\ \A b \in items : choice[b] \in from(b)
            /\ node' = [node EXCEPT ![n] = Body(choice)]
      BY <1>3, Zenon DEF fetch_items_loop
    <3>2. \A c : ItemsAsked(s, items, c) = Body(c)
      BY Zenon DEF ItemsAsked
    <3> HIDE DEF s, items, from, Body
    <3>3. PICK c : node' = [node EXCEPT ![n] = Body(c)]
      BY <3>1, Zenon
    <3>4. node' = [node EXCEPT ![n] = ItemsAsked(s, items, c)]
      BY <3>2, <3>3
    <3> QED
      BY <3>4
  <2>2. NodeOK(n, L, s) /\ Good(n, node[n], s)
    BY <1>0, NodeReceived
  <2>3. items \subseteq s.items_to_fetch
    OBVIOUS
  <2> HIDE DEF s, items
  <2>4. items \in SUBSET Blocks
    BY <2>2, <2>3, NodeParts
  <2> DEFINE t == ItemsAsked(s, items, choice)
  <2>5. \A K : NodeOK(n, K, s) => Keeps(n, K, s, t)
    BY <2>4, ItemsAskedOK
  <2> HIDE DEF t
  <2>6. Good(n, s, t)
    BY <2>5, KeepsGood
  <2>7. Good(n, node[n], t)
    BY <2>2, <2>6, GoodThen
  <2>8. node' = [node EXCEPT ![n] = t]
    BY <2>1 DEF t
  <2> QED
    BY <1>0a, <2>7, <2>8, OneMoved
<1>4. CASE advertise_inventory_loop(n)
  <2> DEFINE s == node[n]
             t == Announced(s)
  <2>1. node' = [node EXCEPT ![n] = t]
    BY <1>4, Zenon DEF advertise_inventory_loop, Announced, Told
  <2>2. \A K : NodeOK(n, K, s) => Keeps(n, K, s, t)
    BY AnnouncedOK
  <2> HIDE DEF t
  <2>3. Good(n, s, t)
    BY <2>2, KeepsGood
  <2> QED
    BY <1>0a, <2>1, <2>3, OneMoved
<1> QED
  BY <1>1, <1>2, <1>3, <1>4

LEMMA ChainMoved ==
  ASSUME Fits, NEW n \in Nodes,
         \/ handle_block(n) \/ BlockHandled(n) \/ \E b \in Blocks : generate_block(n, b)
  PROVE  Moved
<1>0. PICK L : NodeOK(n, L, node[n])
  BY DEF Fits
<1>0a. DOMAIN node = Nodes /\ OwnOK(node[n])
  BY DEF Fits
<1>1. CASE handle_block(n)
  <2>1. node[n].calls # << >> /\ node' = [node EXCEPT ![n] = ChainStep(node[n])]
    BY <1>1, Zenon DEF handle_block, ChainStep
  <2>2. Good(n, node[n], ChainStep(node[n]))
    BY <2>1, ChainStepGood
  <2> QED
    BY <1>0a, <2>1, <2>2, OneMoved
<1>2. CASE BlockHandled(n)
  <2> DEFINE t == Resumed(Taken(node[n]), Head(node[n].handled))
  <2>1. node[n].handled # << >> /\ node' = [node EXCEPT ![n] = t]
    BY <1>2, Zenon DEF BlockHandled, Resumed, Taken
  <2>2. Good(n, node[n], t)
    BY <1>0, <1>0a, <2>1, ResumedGood
  <2> HIDE DEF t
  <2> QED
    BY <1>0a, <2>1, <2>2, OneMoved
<1>3. CASE \E b \in Blocks : generate_block(n, b)
  <2>1. PICK b \in Blocks : generate_block(n, b)
    BY <1>3
  <2>2. Parent[b] = node[n].head /\ node' = [node EXCEPT ![n] = Mined(n, node[n], b)]
    BY <2>1, Zenon DEF generate_block, Mined
  <2>3. Good(n, node[n], Mined(n, node[n], b))
    BY <2>2, MinedGood
  <2> QED
    BY <1>0a, <2>2, <2>3, OneMoved
<1> QED
  BY <1>1, <1>2, <1>3

LEMMA NextMoved ==
  ASSUME Fits, [Next]_vars
  PROVE  Moved
<1>1. CASE UNCHANGED vars
  BY <1>1, GoodSelf DEF Moved, Fits, vars
<1>2. CASE \E n \in Nodes : Handlers(n)
  <2>1. PICK n \in Nodes : Handlers(n)
    BY <1>2
  <2>2. CASE \E m \in Neighbours(n) : Receive(n, m)
    BY <2>2, ReceiveMoved
  <2>3. CASE \E m \in Neighbours(n) : on_connection_closed(n, m)
    BY <2>3, ClosedMoved
  <2>4. CASE handle_block(n) \/ BlockHandled(n)
    BY <2>4, ChainMoved
  <2>5. CASE \/ process_backlog_of_sync_blocks(n) \/ fetch_sync_items_loop(n)
             \/ fetch_items_loop(n) \/ advertise_inventory_loop(n)
    BY <2>5, LoopsMoved
  <2> QED
    BY <2>1, <2>2, <2>3, <2>4, <2>5 DEF Handlers
<1>3. CASE \E n \in Nodes, b \in Blocks : generate_block(n, b)
  BY <1>3, ChainMoved
<1>4. CASE \E n \in Nodes : \E m \in Neighbours(n) : terminate_inactive_connections_loop(n, m)
  BY <1>4, TerminateMoved
<1>5. CASE \E l \in Links : Connect(l)
  BY <1>5, ConnectMoved
<1> QED
  BY <1>1, <1>2, <1>3, <1>4, <1>5 DEF Next


-----------------------------------------------------------------------------
(* The start of a node, and the theorems.                                  *)

LEMMA StartFacts ==
  ASSUME NEW n, NEW b \in BlockIds, NEW s, s = NodeStart(n, b)
  PROVE  Sound(n, s) /\ InOrder(n, s)
<1>1. /\ DOMAIN s = NodeFields /\ s.known = OnPath(b) /\ s.head = b /\ s.active_sync = {}
      /\ s.received = << >> /\ s.new_received = << >>
      /\ s.calls = << >> /\ s.handled = << >> /\ s.recent = {b}
      /\ s.items_to_fetch = {} /\ s.new_inventory = {}
      /\ s.peer = [m \in Neighbours(n) |-> Closed]
  BY DEF NodeStart, NodeFields
<1>2. OnPath(b) \subseteq Blocks /\ PathClosed(OnPath(b))
  BY PathParts DEF PathClosed
<1>3. b \in OnPath(b) \cup {None}
  <2>1. CASE b \in Blocks
    BY <2>1, PathStep
  <2>2. CASE b = None
    BY <2>2
  <2> QED
    BY <2>1, <2>2, Numbers
<1>4. PathClosed(Blocks)
  BY Numbers, PathParts DEF PathClosed
<1>5. TasksOK(s)
  <2>1. << >> \in Seq(Blocks) /\ << >> \in Seq(Calls(DOMAIN s.peer)) /\ DOMAIN << >> = {}
    OBVIOUS
  <2> QED
    BY <1>1, <2>1 DEF TasksOK
<1>6. DOMAIN s.peer = Neighbours(n) /\ \A m \in Neighbours(n) : s.peer[m] = Closed
  BY <1>1
<1>7. ASSUME NEW K, K \subseteq Blocks, PathClosed(K), OnPath(b) \subseteq K
      PROVE  NodeOK(n, K, s)
  <2>1. ChainOK(K, s)
    BY <1>1, <1>2, <1>3, <1>7 DEF ChainOK
  <2>2. \A m \in Neighbours(n) : PeerOK(K, s.peer[m])
    BY <1>6, ClosedOK
  <2> QED
    BY <1>1, <1>5, <1>6, <2>1, <2>2 DEF NodeOK
<1>8. Closed.sync_items_requested = {}
  BY DEF Closed
<1>9. Tracked(s)
  BY <1>1, <1>6, <1>8 DEF Tracked
<1>10. Len(s.calls) = 0 /\ 1 .. 0 = {} /\ DOMAIN s.handled = {}
  BY <1>1
<1>11. OwnOK(s) /\ Linked(s) /\ Ordered(s)
  BY <1>10 DEF OwnOK, Linked, Ordered
<1>12. Handed(s) = OnPath(b)
  BY <1>1, <1>10 DEF Handed, SyncCalls
<1>13. NodeOK(n, Blocks, s) /\ NodeOK(n, Handed(s), s)
  BY <1>2, <1>4, <1>7, <1>12
<1> QED
  BY <1>9, <1>11, <1>13 DEF Sound, InOrder

SoundInv == DOMAIN node = Nodes /\ \A n \in Nodes : Sound(n, node[n])

OrderInv == DOMAIN node = Nodes /\ \A n \in Nodes : InOrder(n, node[n])

LEMMA InitHolds == Init => SoundInv /\ OrderInv
<1> SUFFICES ASSUME Init PROVE SoundInv /\ OrderInv
  OBVIOUS
<1>1. node = [n \in Nodes |-> NodeStart(n, Starts[n])]
  BY DEF Init
<1>2. \A n \in Nodes : node[n] = NodeStart(n, Starts[n]) /\ Starts[n] \in BlockIds
  BY <1>1, LinksAssumption
<1>3. \A n \in Nodes : Sound(n, node[n]) /\ InOrder(n, node[n])
  BY <1>2, StartFacts
<1> QED
  BY <1>1, <1>3 DEF SoundInv, OrderInv

LEMMA SoundStep == SoundInv /\ [Next]_vars => SoundInv'
<1> SUFFICES ASSUME SoundInv, [Next]_vars PROVE SoundInv'
  OBVIOUS
<1>1. Fits
  BY DEF SoundInv, Sound, Fits
<1>2. Moved
  BY <1>1, NextMoved
<1> QED
  BY <1>2 DEF Moved, SoundInv, Good

LEMMA OrderStep ==
  ASSUME FinalTree
  PROVE  OrderInv /\ [Next]_vars => OrderInv'
<1> SUFFICES ASSUME OrderInv, [Next]_vars PROVE OrderInv'
  OBVIOUS
<1>1. Fits
  BY DEF OrderInv, InOrder, Fits
<1>2. Moved
  BY <1>1, NextMoved
<1> QED
  BY <1>2 DEF Moved, OrderInv, Good

(* The books of _active_sync_requests and of sync_items_requested agree in *)
(* every reachable state of every network, whatever its blocks, its links  *)
(* and its limits: process_block_message, request_sync_items_from_peer and *)
(* on_connection_closed between them ask for no sync block twice, and wait *)
(* for none that no peer owes.                                             *)
THEOREM RequestsTrackedHolds == Spec => []RequestsTracked
<1>1. Init => SoundInv
  BY InitHolds
<1>2. SoundInv /\ [Next]_vars => SoundInv'
  BY SoundStep
<1>3. SoundInv => RequestsTracked
  <2> SUFFICES ASSUME SoundInv, NEW n \in Nodes
               PROVE  /\ node[n].active_sync =
                           UNION {node[n].peer[m].sync_items_requested : m \in Neighbours(n)}
                      /\ \A m, o \in Neighbours(n) : m # o =>
                           node[n].peer[m].sync_items_requested
                             \cap node[n].peer[o].sync_items_requested = {}
    BY DEF RequestsTracked
  <2>1. Tracked(node[n]) /\ DOMAIN node[n].peer = Neighbours(n)
    BY DEF SoundInv, Sound, NodeOK
  <2> QED
    BY <2>1 DEF Tracked
<1> QED
  BY <1>1, <1>2, <1>3, PTL DEF Spec

(* process_backlog_of_sync_blocks hands the chain every sync block after   *)
(* its parent, in every network whose irreversible blocks no fork leaves:  *)
(* send_sync_block_to_node_delegate never sees an unlinkable block.        *)
THEOREM SyncInOrderHolds ==
  ASSUME FinalTree
  PROVE  Spec => []SyncInOrder
<1>1. Init => OrderInv
  BY InitHolds
<1>2. OrderInv /\ [Next]_vars => OrderInv'
  BY OrderStep
<1>3. OrderInv => SyncInOrder
  BY DEF OrderInv, InOrder, Linked, SyncInOrder
<1> QED
  BY <1>1, <1>2, <1>3, PTL DEF Spec
=============================================================================
