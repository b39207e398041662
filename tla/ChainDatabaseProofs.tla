------------------------ MODULE ChainDatabaseProofs ------------------------
(***************************************************************************)
(* For any tree of blocks, valid or not, any transactions, limits, plugin  *)
(* reactions, crashes and restarts.                                        *)
(***************************************************************************)
EXTENDS ChainDatabase, SumTheorems, TLAPS

-----------------------------------------------------------------------------
(* The path to a block is defined, because numbers decrease towards the    *)
(* first block.                                                            *)

LEMMA Numbers ==
  /\ \A b \in BlockIds : Num[b] \in Nat
  /\ \A b \in Blocks : /\ b # None /\ b \in BlockIds /\ Parent[b] \in BlockIds
                       /\ Num[b] = Num[Parent[b]] + 1 /\ Num[b] > 0
  /\ Num[None] = 0 /\ None \in BlockIds
  /\ \A b \in BlockIds : b # None => b \in Blocks
<1>1. \A b \in BlockIds : Num[b] \in Nat
  BY TreeAssumption DEF BlockIds
<1>2. \A b \in Blocks : /\ b # None /\ b \in BlockIds /\ Parent[b] \in BlockIds
                        /\ Num[b] = Num[Parent[b]] + 1
  BY TreeAssumption DEF BlockIds
<1>3. \A b \in Blocks : Num[b] > 0
  BY <1>1, <1>2
<1> QED
  BY <1>1, <1>2, <1>3, TreeAssumption DEF BlockIds

LEMMA Paths ==
  /\ Ids(Blocks, None) = BlockIds /\ IsTree(Blocks, None, Parent, Num)
  /\ IsPaths(Blocks, None, Parent, PathTo) /\ \A b : PathSet(PathTo, b) = OnPath(b)
<1>1. Ids(Blocks, None) = BlockIds /\ \A b : PathSet(PathTo, b) = OnPath(b)
  BY DEF Ids, BlockIds, PathSet, OnPath
<1>2. IsTree(Blocks, None, Parent, Num)
  BY TreeAssumption DEF IsTree, Ids
<1>3. PICK f : f = [b \in BlockIds |-> IF b = None THEN << >> ELSE Append(f[Parent[b]], b)]
  BY <1>1, <1>2, PathsDefined DEF IsPaths
<1>4. PathTo = [b \in BlockIds |-> IF b = None THEN << >> ELSE Append(PathTo[Parent[b]], b)]
  BY <1>3, Zenon DEF PathTo
<1> QED
  BY <1>1, <1>2, <1>4 DEF IsPaths

LEMMA PathDefined ==
  /\ PathTo[None] = << >>
  /\ \A b \in Blocks : PathTo[b] = Append(PathTo[Parent[b]], b)
BY Paths, PathsAt

LEMMA PathType == \A b \in BlockIds : PathTo[b] \in Seq(Blocks) /\ Len(PathTo[b]) = Num[b]
<1>1. \A b \in Ids(Blocks, None) : PathTo[b] \in Seq(Blocks) /\ Len(PathTo[b]) = Num[b]
  BY Paths, PathsType
<1> QED
  BY <1>1, Paths

\* The path to a block is the path to its parent and the block.
LEMMA PathStep ==
  ASSUME NEW b \in Blocks
  PROVE  /\ PathTo[b][Num[b]] = b
         /\ \A n \in 1 .. Num[Parent[b]] : PathTo[b][n] = PathTo[Parent[b]][n]
         /\ OnPath(b) = OnPath(Parent[b]) \cup {b}
<1>1. /\ PathTo[b][Num[b]] = b
      /\ \A n \in 1 .. Num[Parent[b]] : PathTo[b][n] = PathTo[Parent[b]][n]
      /\ PathSet(PathTo, b) = PathSet(PathTo, Parent[b]) \cup {b}
  BY Paths, PathsStep
<1> QED
  BY <1>1, Paths

-----------------------------------------------------------------------------
(* Sessions forget the oldest copies: what is left is an end of the        *)
(* history.                                                                *)

IsEnd(v, u) ==
  /\ Len(v) <= Len(u)
  /\ \A i \in 1 .. Len(v) : v[i] = u[i + (Len(u) - Len(v))]

LEMMA SeqFacts ==
  ASSUME NEW S, NEW u \in Seq(S), NEW d \in S
  PROVE  /\ Len(u) \in Nat /\ DOMAIN u = 1 .. Len(u) /\ \A i \in 1 .. Len(u) : u[i] \in S
         /\ u # << >> <=> Len(u) > 0
         /\ Append(u, d) \in Seq(S) /\ Len(Append(u, d)) = Len(u) + 1 /\ Append(u, d) # << >>
         /\ Append(u, d)[Len(u) + 1] = d /\ \A i \in 1 .. Len(u) : Append(u, d)[i] = u[i]
<1>1. u # << >> <=> Len(u) > 0
  OBVIOUS
<1>2. Append(u, d) \in Seq(S) /\ Len(Append(u, d)) = Len(u) + 1
  OBVIOUS
<1>3. Len(u) \in Nat /\ DOMAIN u = 1 .. Len(u) /\ \A i \in 1 .. Len(u) : u[i] \in S
  OBVIOUS
<1>4. Append(u, d)[Len(u) + 1] = d /\ \A i \in 1 .. Len(u) : Append(u, d)[i] = u[i]
  BY <1>3
<1>5. Append(u, d) # << >>
  <2>1. Len(Append(u, d)) > 0
    BY <1>2, <1>3
  <2> QED
    BY <1>2, <2>1
<1> QED
  BY <1>1, <1>2, <1>3, <1>4, <1>5

LEMMA SameSeq ==
  ASSUME NEW S, NEW u \in Seq(S), NEW v \in Seq(S), Len(u) = Len(v), \A i \in 1 .. Len(u) : u[i] = v[i]
  PROVE  u = v
<1>1. u = [i \in 1 .. Len(u) |-> u[i]] /\ v = [i \in 1 .. Len(v) |-> v[i]]
  OBVIOUS
<1> QED
  BY <1>1

LEMMA FrontFacts ==
  ASSUME NEW S, NEW u \in Seq(S), u # << >>
  PROVE  /\ Front(u) \in Seq(S) /\ Len(Front(u)) = Len(u) - 1 /\ Top(u) \in S
         /\ \A i \in 1 .. (Len(u) - 1) : Front(u)[i] = u[i]
         /\ Append(Front(u), Top(u)) = u
<1> DEFINE n == Len(u)
<1>1. n \in Nat /\ n > 0 /\ \A i \in 1 .. n : u[i] \in S
  OBVIOUS
<1>2. Front(u) = [i \in 1 .. (n - 1) |-> u[i]]
  BY <1>1 DEF Front
<1>3. Front(u) \in Seq(S) /\ Len(Front(u)) = n - 1 /\ \A i \in 1 .. (n - 1) : Front(u)[i] = u[i]
  <2>1. \A i \in 1 .. (n - 1) : u[i] \in S
    BY <1>1
  <2> QED
    BY <1>1, <1>2, <2>1
<1>4. Top(u) \in S /\ Top(u) = u[n]
  BY <1>1 DEF Top
<1> DEFINE w == Append(Front(u), Top(u))
<1>5. w \in Seq(S) /\ Len(w) = n /\ w[n] = u[n] /\ \A i \in 1 .. (n - 1) : w[i] = u[i]
  BY <1>1, <1>3, <1>4
<1> HIDE DEF w, n
<1>6. \A i \in 1 .. n : w[i] = u[i]
  BY <1>1, <1>5
<1>7. w = u
  BY <1>5, <1>6, SameSeq DEF n
<1> QED
  BY <1>3, <1>4, <1>7 DEF w, n

LEMMA FrontAppend ==
  ASSUME NEW S, NEW u \in Seq(S), NEW d \in S
  PROVE  Front(Append(u, d)) = u /\ Top(Append(u, d)) = d
<1> DEFINE w == Append(u, d)
<1>1. w \in Seq(S) /\ Len(w) = Len(u) + 1 /\ w # << >> /\ w[Len(u) + 1] = d /\ Len(u) \in Nat
      /\ \A i \in 1 .. Len(u) : w[i] = u[i]
  BY SeqFacts
<1> HIDE DEF w
<1>2. Front(w) \in Seq(S) /\ Len(Front(w)) = Len(w) - 1
      /\ \A i \in 1 .. (Len(w) - 1) : Front(w)[i] = w[i]
  BY <1>1, FrontFacts
<1>3. Len(Front(w)) = Len(u) /\ \A i \in 1 .. Len(Front(w)) : Front(w)[i] = u[i]
  BY <1>1, <1>2
<1>4. Front(w) = u
  BY <1>2, <1>3, SameSeq
<1> QED
  BY <1>1, <1>4 DEF w, Top

LEMMA EndFacts ==
  ASSUME NEW S, NEW u \in Seq(S), NEW v \in Seq(S), IsEnd(v, u)
  PROVE  /\ v # << >> => u # << >> /\ Top(v) = Top(u)
         /\ \A w \in Seq(S) : IsEnd(w, v) => IsEnd(w, u)
         /\ \A d \in S : IsEnd(Append(v, d), Append(u, d))
         /\ IsEnd(u, u)
<1> DEFINE m == Len(u)
           n == Len(v)
<1>1. m \in Nat /\ n \in Nat /\ n <= m /\ \A i \in 1 .. n : v[i] = u[i + (m - n)]
  BY DEF IsEnd
<1>2. ASSUME v # << >> PROVE u # << >> /\ Top(v) = Top(u)
  <2>1. n > 0
    BY <1>2
  <2>2. n \in 1 .. n /\ n + (m - n) = m
    BY <1>1, <2>1
  <2>3. v[n] = u[m]
    BY <1>1, <2>2
  <2> QED
    BY <1>1, <2>1, <2>3 DEF Top
<1>3. ASSUME NEW w \in Seq(S), IsEnd(w, v) PROVE IsEnd(w, u)
  <2> DEFINE k == Len(w)
  <2>1. k \in Nat /\ k <= n /\ \A i \in 1 .. k : w[i] = v[i + (n - k)]
    BY <1>3 DEF IsEnd
  <2> HIDE DEF k, n, m
  <2>2. ASSUME NEW i \in 1 .. k PROVE w[i] = u[i + (m - k)]
    <3>1. i + (n - k) \in 1 .. n /\ (i + (n - k)) + (m - n) = i + (m - k)
      BY <1>1, <2>1
    <3> QED
      BY <1>1, <2>1, <3>1
  <2>3. k <= m
    BY <1>1, <2>1
  <2> QED
    BY <2>2, <2>3 DEF IsEnd, k, m
<1>4. ASSUME NEW d \in S PROVE IsEnd(Append(v, d), Append(u, d))
  <2> DEFINE a == Append(v, d)
             b == Append(u, d)
  <2>1. /\ Len(a) = n + 1 /\ Len(b) = m + 1 /\ a[n + 1] = d /\ b[m + 1] = d
        /\ \A i \in 1 .. n : a[i] = v[i]
        /\ \A i \in 1 .. m : b[i] = u[i]
    BY SeqFacts
  <2> HIDE DEF a, b, n, m
  <2>2. ASSUME NEW i \in 1 .. (n + 1) PROVE a[i] = b[i + ((m + 1) - (n + 1))]
    <3>1. CASE i = n + 1
      <4>1. i + ((m + 1) - (n + 1)) = m + 1
        BY <1>1, <3>1
      <4> QED
        BY <2>1, <3>1, <4>1
    <3>2. CASE i \in 1 .. n
      <4>1. i + ((m + 1) - (n + 1)) = i + (m - n) /\ i + (m - n) \in 1 .. m
        BY <1>1, <3>2
      <4> QED
        BY <1>1, <2>1, <3>2, <4>1
    <3> QED
      BY <1>1, <3>1, <3>2
  <2>3. n + 1 <= m + 1
    BY <1>1
  <2>4. IsEnd(a, b)
    BY <2>1, <2>2, <2>3 DEF IsEnd
  <2> QED
    BY <2>4 DEF a, b
<1>5. IsEnd(u, u)
  BY <1>1 DEF IsEnd
<1> QED
  BY <1>2, <1>3, <1>4, <1>5

LEMMA EndSelf == ASSUME NEW S, NEW u \in Seq(S) PROVE IsEnd(u, u)
  BY DEF IsEnd

\* The front of an end is an end of the front.
LEMMA FrontEnd ==
  ASSUME NEW S, NEW u \in Seq(S), NEW v \in Seq(S), IsEnd(v, u), v # << >>
  PROVE  IsEnd(Front(v), Front(u))
<1> DEFINE m == Len(u)
           n == Len(v)
           a == Front(v)
           b == Front(u)
<1>1. m \in Nat /\ n \in Nat /\ n <= m /\ n > 0 /\ \A i \in 1 .. n : v[i] = u[i + (m - n)]
  BY DEF IsEnd
<1>2. u # << >>
  BY <1>1
<1>3. /\ Len(a) = n - 1 /\ Len(b) = m - 1
      /\ \A i \in 1 .. (n - 1) : a[i] = v[i]
      /\ \A i \in 1 .. (m - 1) : b[i] = u[i]
  BY <1>2, FrontFacts
<1> HIDE DEF m, n, a, b
<1>4. ASSUME NEW i \in 1 .. (n - 1) PROVE a[i] = b[i + ((m - 1) - (n - 1))]
  <2>1. i + ((m - 1) - (n - 1)) = i + (m - n) /\ i + (m - n) \in 1 .. (m - 1) /\ i \in 1 .. n
    BY <1>1
  <2> QED
    BY <1>1, <1>3, <2>1
<1>5. n - 1 <= m - 1
  BY <1>1
<1>6. IsEnd(a, b)
  BY <1>3, <1>4, <1>5 DEF IsEnd
<1> QED
  BY <1>6 DEF a, b

LEMMA TrimEnd ==
  ASSUME NEW S, NEW u \in Seq(S), NEW m \in Nat
  PROVE  /\ Trim(u, m) \in Seq(S) /\ IsEnd(Trim(u, m), u)
         /\ Len(Trim(u, m)) = Smaller(m, Len(u))
<1> DEFINE n == Len(u)
           v == Trim(u, m)
<1>1. n \in Nat /\ \A i \in 1 .. n : u[i] \in S
  OBVIOUS
<1>2. CASE n > m
  <2>1. v = SubSeq(u, n - m + 1, n)
    BY <1>2 DEF Trim
  <2>2. v = [i \in 1 .. m |-> u[i + (n - m)]]
    <3>1. n - (n - m + 1) + 1 = m /\ \A i \in 1 .. m : i + (n - m + 1) - 1 = i + (n - m)
      BY <1>1
    <3>2. v = [i \in 1 .. (n - (n - m + 1) + 1) |-> u[i + (n - m + 1) - 1]]
      BY <1>1, <1>2, <2>1
    <3> HIDE DEF v, n
    <3> QED
      BY <3>1, <3>2
  <2>3. \A i \in 1 .. m : u[i + (n - m)] \in S
    BY <1>1, <1>2
  <2> HIDE DEF v
  <2>4. v \in Seq(S) /\ Len(v) = m
    BY <2>2, <2>3
  <2>5. IsEnd(v, u)
    BY <1>1, <1>2, <2>2, <2>4 DEF IsEnd
  <2>6. Smaller(m, n) = m
    BY <1>1, <1>2 DEF Smaller
  <2> QED
    BY <2>4, <2>5, <2>6 DEF v
<1>3. CASE ~(n > m)
  <2>1. v = u
    BY <1>3 DEF Trim
  <2>2. Smaller(m, n) = n
    BY <1>1, <1>3 DEF Smaller
  <2>3. IsEnd(u, u)
    BY EndSelf
  <2> HIDE DEF v
  <2> QED
    BY <2>1, <2>2, <2>3 DEF v
<1> QED
  BY <1>2, <1>3

LEMMA StartEnd ==
  ASSUME NEW S, NEW u \in Seq(S), NEW m \in Nat, NEW d \in S
  PROVE  /\ Start(u, m, d) \in Seq(S) /\ IsEnd(Start(u, m, d), Append(u, d))
         /\ Start(u, m, d) # << >> /\ Len(Start(u, m, d)) = Smaller(m, Len(u)) + 1
         /\ Front(Start(u, m, d)) = Trim(u, m) /\ Top(Start(u, m, d)) = d
<1> DEFINE v == Trim(u, m)
<1>1. v \in Seq(S) /\ IsEnd(v, u) /\ Len(v) = Smaller(m, Len(u))
  BY TrimEnd
<1>2. Start(u, m, d) = Append(v, d)
  BY DEF Start
<1> HIDE DEF v
<1>3. IsEnd(Append(v, d), Append(u, d))
  BY <1>1, EndFacts
<1>4. Front(Append(v, d)) = v /\ Top(Append(v, d)) = d
  BY <1>1, FrontAppend
<1>5. Append(v, d) \in Seq(S) /\ Len(Append(v, d)) = Len(v) + 1 /\ Append(v, d) # << >>
  BY <1>1, SeqFacts
<1> QED
  BY <1>1, <1>2, <1>3, <1>4, <1>5 DEF v

\* What nested sessions leave of a history that is not empty is not empty.
LEMMA NestedEnd ==
  ASSUME NEW u \in Seq(DbState), u # << >>, NEW m \in Nat, m >= 2, NEW ts, db \in DbState
  PROVE  /\ Nested(u, m, ts) \in Seq(DbState) /\ IsEnd(Nested(u, m, ts), u)
         /\ Nested(u, m, ts) # << >>
         /\ Len(Nested(u, m, ts)) = Len(u) \/ Len(Nested(u, m, ts)) >= m - 1
<1> DEFINE n == Len(u)
<1>0. n \in Nat /\ n > 0
  OBVIOUS
<1>1. CASE ts \cap ProposalTxs = {}
  <2>1. Nested(u, m, ts) = Trim(u, m)
    BY <1>1 DEF Nested
  <2>2. Trim(u, m) \in Seq(DbState) /\ IsEnd(Trim(u, m), u) /\ Len(Trim(u, m)) = Smaller(m, n)
    BY TrimEnd
  <2>3. Len(Trim(u, m)) > 0 /\ (Len(Trim(u, m)) = n \/ Len(Trim(u, m)) >= m - 1)
    BY <1>0, <2>2 DEF Smaller
  <2> QED
    BY <2>1, <2>2, <2>3
<1>2. CASE ts \cap ProposalTxs # {}
  <2> DEFINE s == Start(u, m, db)
             v == Trim(s, m)
  <2>1. Nested(u, m, ts) = Front(v)
    BY <1>2 DEF Nested
  <2>2. s \in Seq(DbState) /\ s # << >> /\ Len(s) = Smaller(m, n) + 1 /\ Front(s) = Trim(u, m)
    <3> HIDE DEF s, v
    <3>1. Start(u, m, db) \in Seq(DbState)
      BY StartEnd
    <3>2. Start(u, m, db) # << >>
      BY StartEnd
    <3>3. Len(Start(u, m, db)) = Smaller(m, Len(u)) + 1
      BY StartEnd
    <3>4. Front(Start(u, m, db)) = Trim(u, m)
      BY StartEnd
    <3> QED
      BY <3>1, <3>2, <3>3, <3>4, Zenon DEF s
  <2> HIDE DEF s
  <2>3. v \in Seq(DbState) /\ IsEnd(v, s) /\ Len(v) = Smaller(m, Len(s))
    BY <2>2, TrimEnd
  <2> HIDE DEF v
  <2>4. Len(v) >= 2 /\ v # << >>
    BY <1>0, <2>2, <2>3 DEF Smaller
  <2>5. IsEnd(Front(v), Trim(u, m))
    BY <2>2, <2>3, <2>4, FrontEnd
  <2>6. Trim(u, m) \in Seq(DbState) /\ IsEnd(Trim(u, m), u)
    BY TrimEnd
  <2>7. Front(v) \in Seq(DbState) /\ Len(Front(v)) = Len(v) - 1
    BY <2>3, <2>4, FrontFacts
  <2>8. IsEnd(Front(v), u)
    BY <2>5, <2>6, <2>7, EndFacts
  <2>9. Front(v) # << >>
    BY <2>4, <2>7
  <2>10. Len(v) - 1 = n \/ Len(v) - 1 >= m - 1
    BY <1>0, <2>2, <2>3 DEF Smaller
  <2>11. Len(Front(v)) = n \/ Len(Front(v)) >= m - 1
    BY <2>7, <2>10
  <2> QED
    BY <2>1, <2>7, <2>8, <2>9, <2>11
<1> QED
  BY <1>1, <1>2


-----------------------------------------------------------------------------
(* One block of the history: b is the state that a block of a's head made. *)

BlockStep(a, b) ==
  /\ b.head \in Blocks /\ Parent[b.head] = a.head
  /\ a.txs \subseteq b.txs /\ b.txs \subseteq a.txs \cup BlockTxs[b.head]

Chainlike(h) == \A n \in 1 .. (Len(h) - 1) : BlockStep(h[n], h[n + 1])

LEMMA ChainEnd ==
  ASSUME NEW S, NEW u \in Seq(S), NEW v \in Seq(S), IsEnd(v, u), Chainlike(u)
  PROVE  Chainlike(v)
<1> DEFINE m == Len(u)
           n == Len(v)
<1>0. m \in Nat /\ n \in Nat
  OBVIOUS
<1>1. m \in Nat /\ n \in Nat /\ n <= m /\ \A i \in 1 .. n : v[i] = u[i + (m - n)]
  BY <1>0, Zenon DEF IsEnd
<1>2. \A i \in 1 .. (m - 1) : BlockStep(u[i], u[i + 1])
  BY Zenon DEF Chainlike
<1> HIDE DEF m, n
<1>3. ASSUME NEW i \in 1 .. (n - 1) PROVE BlockStep(v[i], v[i + 1])
  <2>1. /\ i \in 1 .. n /\ i + 1 \in 1 .. n /\ i + (m - n) \in 1 .. (m - 1)
        /\ (i + 1) + (m - n) = (i + (m - n)) + 1
    BY <1>1
  <2>2. v[i] = u[i + (m - n)] /\ v[i + 1] = u[(i + 1) + (m - n)]
    BY <1>1, <2>1, Zenon
  <2>3. BlockStep(u[i + (m - n)], u[(i + (m - n)) + 1])
    BY <1>2, <2>1, Zenon
  <2> QED
    BY <2>1, <2>2, <2>3, Zenon
<1> QED
  BY <1>3, Zenon DEF Chainlike, n

LEMMA ChainAppend ==
  ASSUME NEW S, NEW u \in Seq(S), NEW d \in S
  PROVE  Chainlike(Append(u, d)) <=> Chainlike(u) /\ (u # << >> => BlockStep(Top(u), d))
<1> DEFINE n == Len(u)
           w == Append(u, d)
<1>1. /\ n \in Nat /\ Len(w) = n + 1 /\ w[n + 1] = d /\ \A i \in 1 .. n : w[i] = u[i]
      /\ u # << >> <=> n > 0
  BY SeqFacts
<1>2. Top(u) = u[n]
  BY DEF Top
<1> HIDE DEF w
<1>3. ASSUME Chainlike(w) PROVE Chainlike(u) /\ (u # << >> => BlockStep(Top(u), d))
  <2>1. \A i \in 1 .. n : BlockStep(w[i], w[i + 1])
    BY <1>1, <1>3 DEF Chainlike
  <2>2. ASSUME NEW i \in 1 .. (n - 1) PROVE BlockStep(u[i], u[i + 1])
    <3>1. i \in 1 .. n /\ i + 1 \in 1 .. n
      BY <1>1
    <3>2. w[i] = u[i] /\ w[i + 1] = u[i + 1]
      BY <1>1, <3>1
    <3> QED
      BY <2>1, <3>1, <3>2
  <2>3. ASSUME u # << >> PROVE BlockStep(Top(u), d)
    <3>1. n \in 1 .. n
      BY <1>1, <2>3
    <3>2. w[n] = u[n]
      BY <1>1, <3>1
    <3> QED
      BY <1>1, <1>2, <2>1, <3>1, <3>2
  <2> QED
    BY <2>2, <2>3 DEF Chainlike
<1>4. ASSUME Chainlike(u), u # << >> => BlockStep(Top(u), d) PROVE Chainlike(w)
  <2>1. \A i \in 1 .. (n - 1) : BlockStep(u[i], u[i + 1])
    BY <1>4 DEF Chainlike
  <2> HIDE DEF n
  <2>2. ASSUME NEW i \in 1 .. n PROVE BlockStep(w[i], w[i + 1])
    <3>1. w[i] = u[i] /\ u # << >>
      BY <1>1
    <3>2. CASE i = n
      <4>1. w[i + 1] = d
        BY <1>1, <3>2
      <4> QED
        BY <1>2, <1>4, <3>1, <3>2, <4>1
    <3>3. CASE i \in 1 .. (n - 1)
      <4>1. i + 1 \in 1 .. n
        BY <1>1, <3>3
      <4>2. w[i + 1] = u[i + 1]
        BY <1>1, <4>1
      <4> QED
        BY <2>1, <3>1, <3>3, <4>2
    <3> QED
      BY <1>1, <3>2, <3>3
  <2> QED
    BY <1>1, <2>2 DEF Chainlike
<1> QED
  BY <1>3, <1>4 DEF w

\* An end of a sequence over S that is a sequence at all is one over S.
LEMMA EndType ==
  ASSUME NEW S, NEW T, NEW u \in Seq(S), NEW v \in Seq(T), IsEnd(v, u)
  PROVE  v \in Seq(S)
<1> DEFINE m == Len(u)
           n == Len(v)
<1>0. m \in Nat /\ n \in Nat
  OBVIOUS
<1>1. m \in Nat /\ n \in Nat /\ n <= m /\ \A i \in 1 .. n : v[i] = u[i + (m - n)]
  BY <1>0, Zenon DEF IsEnd
<1>2. \A i \in 1 .. m : u[i] \in S
  OBVIOUS
<1>3. v = [i \in 1 .. n |-> v[i]]
  OBVIOUS
<1> HIDE DEF m, n
<1>4. ASSUME NEW i \in 1 .. n PROVE v[i] \in S
  <2>1. i + (m - n) \in 1 .. m
    BY <1>1
  <2> QED
    BY <1>1, <1>2, <2>1
<1> QED
  BY <1>1, <1>3, <1>4

-----------------------------------------------------------------------------
(* The history as it stands: undo history u, object database d, pending    *)
(* session ps and the transactions p that were pushed in it.  The copies   *)
(* are members of G.                                                       *)

Closed(G) ==
  /\ G \subseteq DbState
  /\ \A d \in G, b \in Blocks : Applies(b, d) => Applied(b, d) \in G
  /\ \A d \in G, r \in SUBSET Blocks : [d EXCEPT !.records = r] \in G

Above(d, c, p) == d.head = c.head /\ d.txs = c.txs \cup p /\ p \cap c.txs = {}

HistOK(G, u, d, ps, p) ==
  /\ u \in Seq(G) /\ d \in DbState /\ ps \in BOOLEAN /\ p \in SUBSET Txs
  /\ ps => u # << >> /\ Chainlike(u) /\ Above(d, Top(u), p)
  /\ ~ps => d \in G /\ Chainlike(Append(u, d)) /\ p = {}

LEMMA HistClear ==
  ASSUME NEW G, Closed(G), NEW u, NEW d, NEW p, HistOK(G, u, d, TRUE, p)
  PROVE  /\ HistOK(G, Front(u), Top(u), FALSE, {})
         /\ Above(d, Top(u), p)
<1>1. u \in Seq(G) /\ u # << >> /\ Chainlike(u) /\ Above(d, Top(u), p)
  BY DEF HistOK
<1>2. Front(u) \in Seq(G) /\ Top(u) \in G /\ Append(Front(u), Top(u)) = u
  BY <1>1, FrontFacts
<1>3. Top(u) \in DbState
  BY <1>2 DEF Closed
<1> QED
  BY <1>1, <1>2, <1>3 DEF HistOK

LEMMA HistApply ==
  ASSUME NEW G, Closed(G), NEW u, NEW d, HistOK(G, u, d, FALSE, {}),
         NEW b \in Blocks, Applies(b, d), NEW m \in Nat
  PROVE  HistOK(G, Start(u, m, d), Applied(b, d), FALSE, {}) /\ Applied(b, d) \in DbState
<1> DEFINE s == Start(u, m, d)
           e == Applied(b, d)
<1>1. u \in Seq(G) /\ d \in G /\ Chainlike(Append(u, d)) /\ d \in DbState
  BY DEF HistOK
<1>2. e \in G /\ e \in DbState
  BY <1>1 DEF Closed
<1> HIDE DEF s
<1>3. s \in Seq(G) /\ IsEnd(s, Append(u, d)) /\ Top(s) = d
  <2>1. s = Start(u, m, d)
    BY DEF s
  <2> QED
    BY <1>1, <2>1, StartEnd
<1>4. Append(u, d) \in Seq(G)
  BY <1>1, SeqFacts
<1>5. BlockStep(d, e)
  <2>1. Parent[b] = d.head
    BY DEF Applies
  <2>2. e.head = b /\ e.txs = d.txs \cup BlockTxs[b]
    BY <1>1 DEF Applied, DbState
  <2> QED
    BY <2>1, <2>2 DEF BlockStep
<1> HIDE DEF s, e
<1>6. Chainlike(s)
  BY <1>1, <1>3, <1>4, ChainEnd
<1>7. Chainlike(Append(s, e))
  BY <1>2, <1>3, <1>5, <1>6, ChainAppend
<1> QED
  BY <1>2, <1>3, <1>7 DEF HistOK, s, e

LEMMA HistTrim ==
  ASSUME NEW G, Closed(G), NEW u, NEW d, HistOK(G, u, d, FALSE, {}), NEW m \in Nat
  PROVE  HistOK(G, Trim(u, m), d, FALSE, {})
<1> DEFINE v == Trim(u, m)
<1>1. u \in Seq(G) /\ d \in G /\ Chainlike(Append(u, d)) /\ d \in DbState
  BY DEF HistOK
<1>2. v \in Seq(G) /\ IsEnd(v, u)
  BY <1>1, TrimEnd
<1> HIDE DEF v
<1>3. IsEnd(Append(v, d), Append(u, d)) /\ Append(v, d) \in Seq(G) /\ Append(u, d) \in Seq(G)
  BY <1>1, <1>2, EndFacts, SeqFacts
<1>4. Chainlike(Append(v, d))
  BY <1>1, <1>3, ChainEnd
<1> QED
  BY <1>1, <1>2, <1>4 DEF HistOK, v

LEMMA HistPop ==
  ASSUME NEW G, Closed(G), NEW u, NEW d, HistOK(G, u, d, FALSE, {}), u # << >>
  PROVE  /\ HistOK(G, Front(u), Top(u), FALSE, {})
         /\ BlockStep(Top(u), d) /\ Top(u) \in DbState
<1>1. u \in Seq(G) /\ d \in G /\ Chainlike(Append(u, d)) /\ d \in DbState
  BY DEF HistOK
<1>2. Chainlike(u) /\ BlockStep(Top(u), d)
  BY <1>1, ChainAppend
<1>3. Front(u) \in Seq(G) /\ Top(u) \in G /\ Append(Front(u), Top(u)) = u
  BY <1>1, FrontFacts
<1>4. Top(u) \in DbState
  BY <1>3 DEF Closed
<1> QED
  BY <1>2, <1>3, <1>4 DEF HistOK

LEMMA HistRecord ==
  ASSUME NEW G, Closed(G), NEW u, NEW d, HistOK(G, u, d, FALSE, {}),
         NEW r \in SUBSET Blocks
  PROVE  HistOK(G, u, [d EXCEPT !.records = r], FALSE, {})
<1> DEFINE e == [d EXCEPT !.records = r]
<1>1. u \in Seq(G) /\ d \in G /\ Chainlike(Append(u, d)) /\ d \in DbState
  BY DEF HistOK
<1>2. e \in G /\ e \in DbState /\ e.head = d.head /\ e.txs = d.txs
  BY <1>1 DEF Closed, DbState
<1> HIDE DEF e
<1>3. Chainlike(u) /\ (u # << >> => BlockStep(Top(u), d))
  BY <1>1, ChainAppend
<1>4. u # << >> => BlockStep(Top(u), e)
  BY <1>2, <1>3 DEF BlockStep
<1>5. Chainlike(Append(u, e))
  BY <1>1, <1>2, <1>3, <1>4, ChainAppend
<1> QED
  BY <1>1, <1>2, <1>5 DEF HistOK, e

\* Transactions ts pushed in the pending session, which is opened first.
LEMMA HistPending ==
  ASSUME NEW G, Closed(G), NEW u, NEW d, NEW ps, NEW p, HistOK(G, u, d, ps, p),
         NEW m \in Nat, m >= 2, NEW v, ps => v = u, ~ps => v = Start(u, m, d), db \in DbState,
         NEW ts \in SUBSET Txs, ts \cap d.txs = {}, NEW us
  PROVE  HistOK(G, Nested(v, m, us), [d EXCEPT !.txs = @ \cup ts], TRUE, p \cup ts)
<1> DEFINE w == Nested(v, m, us)
           e == [d EXCEPT !.txs = @ \cup ts]
<1>1. u \in Seq(G) /\ d \in DbState /\ ps \in BOOLEAN /\ p \in SUBSET Txs
  BY DEF HistOK
<1>2. v \in Seq(G) /\ v # << >> /\ Chainlike(v) /\ Above(d, Top(v), p)
  <2>1. CASE ps
    BY <1>1, <2>1 DEF HistOK
  <2>2. CASE ~ps
    <3>1. d \in G /\ Chainlike(Append(u, d)) /\ p = {} /\ v = Start(u, m, d)
      BY <2>2 DEF HistOK
    <3>2. v \in Seq(G) /\ IsEnd(v, Append(u, d)) /\ v # << >> /\ Top(v) = d
      BY <1>1, <3>1, StartEnd
    <3>3. Append(u, d) \in Seq(G)
      BY <1>1, <3>1, SeqFacts
    <3>4. Chainlike(v)
      BY <3>1, <3>2, <3>3, ChainEnd
    <3> QED
      BY <3>1, <3>2, <3>4 DEF Above
  <2> QED
    BY <1>1, <2>1, <2>2
<1>3. v \in Seq(DbState)
  <2>1. IsEnd(v, v)
    BY <1>2, EndSelf
  <2>2. G \subseteq DbState
    BY DEF Closed
  <2> QED
    BY <1>2, <2>2
<1>4. w \in Seq(DbState) /\ IsEnd(w, v) /\ w # << >>
  BY <1>2, <1>3, NestedEnd
<1> HIDE DEF w
<1>5. w \in Seq(G)
  BY <1>2, <1>4, EndType
<1>6. Top(w) = Top(v) /\ Chainlike(w)
  BY <1>2, <1>4, <1>5, EndFacts, ChainEnd
<1>7. e \in DbState /\ e.head = d.head /\ e.txs = d.txs \cup ts
  BY <1>1 DEF DbState
<1> HIDE DEF e
<1>8. Above(e, Top(w), p \cup ts)
  BY <1>2, <1>6, <1>7 DEF Above
<1> QED
  BY <1>1, <1>4, <1>5, <1>6, <1>7, <1>8 DEF HistOK, w, e

LEMMA StartChain ==
  ASSUME NEW S, NEW u \in Seq(S), NEW d \in S, NEW m \in Nat, Chainlike(Append(u, d)), NEW o, o = Start(u, m, d)
  PROVE  o \in Seq(S) /\ o # << >> /\ Top(o) = d /\ Chainlike(o) /\ Len(o) \in Nat /\ Len(o) > 0
<1>1. o \in Seq(S) /\ IsEnd(o, Append(u, d)) /\ o # << >> /\ Top(o) = d
  BY StartEnd
<1>2. Append(u, d) \in Seq(S)
  BY SeqFacts
<1>3. Chainlike(o)
  BY <1>1, <1>2, ChainEnd
<1>4. Len(o) \in Nat /\ Len(o) > 0
  BY <1>1, SeqFacts
<1> QED
  BY <1>1, <1>3, <1>4

\* A second session on top, both but the first one's copy taken off again.
LEMMA TwoSessions ==
  ASSUME NEW S, NEW o \in Seq(S), o # << >>, NEW e \in S, NEW m \in Nat, m >= 2, Chainlike(o),
         NEW q, q = Start(o, m, e), NEW x, x = Front(Trim(q, m))
  PROVE  /\ x \in Seq(S) /\ x # << >> /\ Top(x) = Top(o) /\ Chainlike(x)
         /\ IsEnd(x, o) /\ (Len(x) = Len(o) \/ Len(x) >= m - 1)
<1> DEFINE w == Trim(q, m)
<1>6. Len(o) \in Nat /\ Len(o) > 0
  BY SeqFacts
<1>7. /\ q \in Seq(S) /\ q # << >> /\ Len(q) = Smaller(m, Len(o)) + 1
      /\ Front(q) = Trim(o, m)
  BY StartEnd
<1>8. w \in Seq(S) /\ IsEnd(w, q) /\ Len(w) = Smaller(m, Len(q))
  BY <1>7, TrimEnd
<1> HIDE DEF w
<1>9. Len(w) >= 2
  BY <1>6, <1>7, <1>8 DEF Smaller
<1>10. w # << >> /\ x = Front(w)
  BY <1>8, <1>9 DEF w
<1>11. x \in Seq(S) /\ Len(x) = Len(w) - 1
  BY <1>8, <1>10, FrontFacts
<1>16. IsEnd(x, Trim(o, m))
  BY <1>7, <1>8, <1>10, FrontEnd
<1>12. Trim(o, m) \in Seq(S) /\ IsEnd(Trim(o, m), o)
  BY TrimEnd
<1>13. x # << >>
  BY <1>9, <1>11
<1>14. IsEnd(x, o)
  BY <1>11, <1>12, <1>16, EndFacts
<1>15. Top(x) = Top(o) /\ Chainlike(x)
  BY <1>11, <1>13, <1>14, EndFacts, ChainEnd
<1>17. Len(x) = Len(o) \/ Len(x) >= m - 1
  BY <1>6, <1>7, <1>8, <1>11 DEF Smaller
<1> QED
  BY <1>11, <1>13, <1>14, <1>15, <1>17

\* A plugin pushes t while it is notified in a session of its own: that session
\* becomes the pending one.
LEMMA HistBought ==
  ASSUME NEW G, Closed(G), NEW u, NEW d, HistOK(G, u, d, FALSE, {}),
         NEW m \in Nat, m >= 2, db \in DbState, NEW r \in SUBSET Blocks, NEW t \in Txs \ ProposalTxs,
         NEW e, e = [d EXCEPT !.records = r]
  PROVE  HistOK(G, Front(Nested(Start(Start(u, m, d), m, e), m, {t})),
                [e EXCEPT !.txs = @ \cup {t}], TRUE, {t} \ d.txs)
<1> DEFINE o == Start(u, m, d)
           q == Start(o, m, e)
           x == Front(Trim(q, m))
           c == [e EXCEPT !.txs = @ \cup {t}]
<1>1. u \in Seq(G) /\ d \in G /\ Chainlike(Append(u, d)) /\ d \in DbState
  BY DEF HistOK
<1>2. e \in G /\ e \in DbState /\ e.head = d.head /\ e.txs = d.txs
  BY <1>1 DEF Closed, DbState
<1>3. Nested(q, m, {t}) = Trim(q, m)
  BY DEF Nested
<1>4. o = Start(u, m, d) /\ q = Start(o, m, e) /\ x = Front(Trim(q, m))
  OBVIOUS
<1> HIDE DEF o, q, x
<1>5. o \in Seq(G) /\ o # << >> /\ Top(o) = d /\ Chainlike(o)
  BY <1>1, <1>4, StartChain
<1>6. x \in Seq(G) /\ x # << >> /\ Top(x) = d /\ Chainlike(x)
  BY <1>2, <1>4, <1>5, TwoSessions
<1>16. c \in DbState /\ c.head = d.head /\ c.txs = d.txs \cup {t}
  BY <1>2 DEF DbState
<1> HIDE DEF c
<1>17. Above(c, Top(x), {t} \ d.txs)
  BY <1>6, <1>16 DEF Above
<1>18. HistOK(G, x, c, TRUE, {t} \ d.txs)
  BY <1>6, <1>16, <1>17 DEF HistOK
<1> QED
  BY <1>3, <1>4, <1>18 DEF c

LEMMA HistEmpty ==
  ASSUME NEW G, Closed(G), NEW d \in G
  PROVE  HistOK(G, << >>, d, FALSE, {})
<1>1. << >> \in Seq(G) /\ Chainlike(<< >>)
  BY DEF Chainlike
<1>2. Chainlike(Append(<< >>, d))
  BY <1>1, ChainAppend
<1> QED
  BY <1>1, <1>2 DEF HistOK, Closed


-----------------------------------------------------------------------------
(* The fork database keeps its type.                                       *)

LEMMA ForkTypes ==
  ASSUME NEW f \in Fork!ForkState, NEW b \in Blocks
  PROVE  /\ Fork!push_block(f, b) \in Fork!ForkState /\ Fork!push_block(f, b).head \in Blocks
         /\ Fork!remove(f, b) \in Fork!ForkState
         /\ \A ids : \A c \in BlockIds : Fork!set_head(Fork!Erase(f, ids), c) \in Fork!ForkState
         /\ \A n \in Nat : Fork!set_max_size(f, n) \in Fork!ForkState
         /\ Fork!start_block(f, b) \in Fork!ForkState
<1>1. ASSUME NEW g \in Fork!ForkState, NEW ids PROVE Fork!Erase(g, ids) \in Fork!ForkState /\ Fork!Erase(g, ids).head = g.head
  BY DEF Fork!Erase, Fork!ForkState
<1>2. ASSUME NEW g \in Fork!ForkState, NEW n PROVE Fork!EraseBelow(g, n) \in Fork!ForkState /\ Fork!EraseBelow(g, n).head = g.head
  BY <1>1 DEF Fork!EraseBelow
<1>3. b \in BlockIds
  BY DEF BlockIds
<1>4. Fork!push_block(f, b) \in Fork!ForkState /\ Fork!push_block(f, b).head \in Blocks
  <2> DEFINE g == Fork!Inserted(f, b)
             h == [g EXCEPT !.head = b]
  <2>1. g \in Fork!ForkState /\ g.head = f.head
    BY DEF Fork!Inserted, Fork!ForkState
  <2> HIDE DEF g
  <2>2. h \in Fork!ForkState /\ h.head = b
    BY <1>3, <2>1 DEF Fork!ForkState, BlockIds, Fork!BlockIds
  <2> HIDE DEF h
  <2>3. f.head \in BlockIds
    BY DEF Fork!ForkState, BlockIds, Fork!BlockIds
  <2>4. Fork!push_block(f, b) = IF f.head = None THEN h
           ELSE IF Num[b] > Num[f.head]
                THEN Fork!EraseBelow(h, Num[b] - Fork!Smaller(f.max_size, Num[b]))
                ELSE g
    BY DEF Fork!push_block, g, h
  <2>5. CASE f.head = None
    BY <2>2, <2>4, <2>5
  <2>6. CASE f.head # None /\ Num[b] > Num[f.head]
    BY <1>2, <2>2, <2>4, <2>6
  <2>7. CASE f.head # None /\ ~(Num[b] > Num[f.head])
    BY <2>1, <2>3, <2>4, <2>7 DEF BlockIds
  <2> QED
    BY <2>5, <2>6, <2>7
<1>5. Fork!remove(f, b) \in Fork!ForkState
  BY <1>1 DEF Fork!remove
<1>6. ASSUME NEW ids, NEW c \in BlockIds PROVE Fork!set_head(Fork!Erase(f, ids), c) \in Fork!ForkState
  <2> DEFINE g == Fork!Erase(f, ids)
  <2>1. g \in Fork!ForkState
    BY <1>1
  <2> HIDE DEF g
  <2>2. [g EXCEPT !.head = c] \in Fork!ForkState
    BY <2>1 DEF Fork!ForkState, BlockIds, Fork!BlockIds
  <2> QED
    BY <2>2 DEF Fork!set_head, g
<1>7. ASSUME NEW n \in Nat PROVE Fork!set_max_size(f, n) \in Fork!ForkState
  <2> DEFINE g == [f EXCEPT !.max_size = n]
  <2>1. g \in Fork!ForkState
    BY DEF Fork!ForkState
  <2> HIDE DEF g
  <2>2. Fork!set_max_size(f, n) = g \/ \E k : Fork!set_max_size(f, n) = Fork!EraseBelow(g, k)
    BY DEF Fork!set_max_size, g
  <2> QED
    BY <1>2, <2>1, <2>2
<1>8. Fork!start_block(f, b) \in Fork!ForkState
  BY DEF Fork!start_block, Fork!ForkState, Fork!BlockIds
<1> QED
  BY <1>4, <1>5, <1>6, <1>7, <1>8

LEMMA ForkPops ==
  ASSUME NEW f \in Fork!ForkState, Fork!CanPop(f), NEW b \in Blocks
  PROVE  /\ Fork!pop_block(f) \in Fork!ForkState
         /\ Fork!remove(Fork!pop_block(f), b) \in Fork!ForkState
<1>1. f.head \in Blocks
  BY DEF Fork!CanPop, Fork!ForkState, Fork!BlockIds
<1>2. Parent[f.head] \in Fork!BlockIds
  BY <1>1, TreeAssumption DEF Fork!BlockIds
<1>3. Fork!pop_block(f) \in Fork!ForkState
  BY <1>2 DEF Fork!pop_block, Fork!ForkState
<1> QED
  BY <1>3, ForkTypes

LEMMA ForkStarts ==
  /\ Fork!ForkEmpty \in Fork!ForkState
  /\ \A f \in Fork!ForkState : Fork!reset(f) \in Fork!ForkState
<1>1. Fork!ForkEmpty \in Fork!ForkState
  BY PluginAssumption DEF Fork!ForkEmpty, Fork!ForkState, Fork!BlockIds
<1>2. \A f \in Fork!ForkState : Fork!reset(f) \in Fork!ForkState
  BY DEF Fork!reset, Fork!ForkState, Fork!BlockIds
<1> QED
  BY <1>1, <1>2

\* fetch_branch_from: two branches that are not empty.
LEMMA SamePaths == Fork!PathTo = PathTo
  BY DEF Fork!PathTo, PathTo, Fork!BlockIds, BlockIds

LEMMA BranchesExist ==
  ASSUME NEW f \in Fork!ForkState, NEW g \in BlockIds, NEW h \in BlockIds, Fork!CanFetchBranches(f, g, h),
         NEW c, c = Fork!ForkPoint(g, h)
  PROVE  /\ Fork!BranchAfter(g, c) \in Seq(Blocks) /\ Fork!BranchAfter(g, c) # << >>
         /\ Fork!BranchAfter(h, c) \in Seq(Blocks) /\ Fork!BranchAfter(h, c) # << >>
<1> DEFINE p == PathTo[g]
           q == PathTo[h]
           m == Smaller(Len(p), Len(q))
           K == {k \in 0 .. m - 1 : SubSeq(p, 1, k) = SubSeq(q, 1, k)}
<1>1. g \in Blocks /\ h \in Blocks
  BY DEF Fork!CanFetchBranches, Fork!ForkState
<1>2. /\ p \in Seq(Blocks) /\ Len(p) = Num[g] /\ Num[g] \in Nat /\ Num[g] > 0
      /\ q \in Seq(Blocks) /\ Len(q) = Num[h] /\ Num[h] \in Nat /\ Num[h] > 0
  BY <1>1, PathType, Numbers
<1>3. m \in Nat /\ m > 0 /\ m <= Num[g] /\ m <= Num[h]
  BY <1>2 DEF Smaller
<1>4. SubSeq(p, 1, 0) = SubSeq(q, 1, 0)
  <2> HIDE DEF p, q
  <2> QED
    BY <1>2
<1> HIDE DEF m
<1>5. \E k \in K : \A j \in K : j <= k
  <2> DEFINE T == {j \in Nat : (m - 1) - j \in K}
  <2>1. m - 1 \in T
    <3>1. (m - 1) - (m - 1) = 0 /\ m - 1 \in Nat /\ 0 \in 0 .. m - 1
      BY <1>3
    <3> QED
      BY <1>4, <3>1
  <2> HIDE DEF K
  <2>2. T \subseteq Nat
    OBVIOUS
  <2>3. PICK x \in T : \A y \in T : x <= y
    <3> HIDE DEF T
    <3> QED
      BY <2>1, <2>2, LeastNat
  <2>4. ASSUME NEW j \in K PROVE j <= (m - 1) - x
    <3>1. j \in 0 .. m - 1
      BY DEF K
    <3>2. (m - 1) - j \in Nat /\ (m - 1) - ((m - 1) - j) = j
      BY <1>3, <3>1
    <3>3. x <= (m - 1) - j
      BY <2>3, <3>2
    <3> QED
      BY <1>3, <3>1, <3>3
  <2> QED
    BY <2>3, <2>4
<1>6. PICK k \in K : \A j \in K : j <= k
  BY <1>5
<1>7. /\ k \in 0 .. m - 1 /\ SubSeq(p, 1, k) = SubSeq(q, 1, k)
      /\ \A j \in k + 1 .. m - 1 : SubSeq(p, 1, j) # SubSeq(q, 1, j)
  <2>1. k \in 0 .. m - 1 /\ SubSeq(p, 1, k) = SubSeq(q, 1, k)
    OBVIOUS
  <2>2. ASSUME NEW j \in k + 1 .. m - 1, SubSeq(p, 1, j) = SubSeq(q, 1, j) PROVE FALSE
    <3>1. j \in 0 .. m - 1 /\ ~(j <= k)
      BY <1>3, <2>1
    <3>2. j \in K
      BY <2>2, <3>1
    <3> QED
      BY <1>6, <3>1, <3>2
  <2> QED
    BY <2>1, <2>2
<1>8. c = CHOOSE e \in 0 .. m - 1 :
             /\ SubSeq(p, 1, e) = SubSeq(q, 1, e)
             /\ \A j \in e + 1 .. m - 1 : SubSeq(p, 1, j) # SubSeq(q, 1, j)
  BY SamePaths, Zenon DEF Fork!ForkPoint, Fork!Smaller, Smaller, m
<1> HIDE DEF p, q, K
<1>9. c \in 0 .. m - 1
  BY <1>7, <1>8
<1>10. ASSUME NEW s \in Seq(Blocks), NEW N \in Nat, Len(s) = N, m <= N
       PROVE  SubSeq(s, c + 1, N) \in Seq(Blocks) /\ SubSeq(s, c + 1, N) # << >>
  <2>1. c + 1 \in 1 .. N /\ N \in 1 .. N
    BY <1>3, <1>9, <1>10
  <2>2. SubSeq(s, c + 1, N) \in Seq(Blocks) /\ Len(SubSeq(s, c + 1, N)) = N - (c + 1) + 1
    BY <1>10, <2>1
  <2>3. N - (c + 1) + 1 > 0
    BY <2>1, <1>9, <1>3
  <2> DEFINE w == SubSeq(s, c + 1, N)
  <2>4. w \in Seq(Blocks) /\ Len(w) > 0
    BY <2>2, <2>3
  <2> HIDE DEF w
  <2>5. w \in Seq(Blocks) /\ w # << >>
    BY <2>4
  <2> QED
    BY <2>5 DEF w
<1> QED
  BY <1>2, <1>3, <1>10, SamePaths DEF Fork!BranchAfter, p, q


-----------------------------------------------------------------------------
(* The block log keeps its type.                                           *)

LogState == [1 .. MaxNum -> Log!Entry]

LEMMA LogTypes ==
  ASSUME NEW l \in LogState
  PROVE  /\ \A id \in BlockIds, b \in Blocks : Log!store(l, id, b) \in LogState
         /\ \A id : Log!remove(l, id) \in LogState
         /\ \A n : Log!DropAbove(l, n) \in LogState
<1>1. ASSUME NEW id \in BlockIds, NEW b \in Blocks PROVE Log!store(l, id, b) \in LogState
  BY DEF Log!store, LogState, Log!Entry, Log!BlockIds, BlockIds
<1>2. ASSUME NEW id PROVE Log!remove(l, id) \in LogState
  <2> DEFINE n == Num[id]
  <2>1. [l EXCEPT ![n].live = FALSE] \in LogState
    <3> HIDE DEF n
    <3> QED
      BY DEF LogState, Log!Entry
  <2> QED
    BY <2>1 DEF Log!remove
<1>3. ASSUME NEW n PROVE Log!DropAbove(l, n) \in LogState
  <2>1. ASSUME NEW m \in 1 .. MaxNum PROVE [l[m] EXCEPT !.live = FALSE] \in Log!Entry /\ l[m] \in Log!Entry
    BY DEF LogState, Log!Entry
  <2> QED
    BY <2>1 DEF Log!DropAbove, LogState
<1> QED
  BY <1>1, <1>2, <1>3

LEMMA Largest ==
  ASSUME NEW N \in Nat, NEW T, T \subseteq 0 .. N, T # {}
  PROVE  \E x \in T : \A y \in T : y <= x
<1> DEFINE U == {j \in Nat : N - j \in T}
<1>1. \A k \in T : k \in Int /\ N - k \in Nat /\ N - (N - k) = k
  OBVIOUS
<1>2. U \subseteq Nat /\ U # {}
  BY <1>1
<1>3. PICK x \in U : \A y \in U : x <= y
  <2> HIDE DEF U
  <2> QED
    BY <1>2, LeastNat
<1>4. ASSUME NEW y \in T PROVE y <= N - x
  <2>1. N - y \in U
    BY <1>1
  <2>2. x <= N - y
    BY <1>3, <2>1
  <2> QED
    BY <1>1, <2>2
<1> QED
  BY <1>3, <1>4

LEMMA LastEntry ==
  ASSUME NEW l \in LogState
  PROVE  /\ Log!last(l) \in BlockIds
         /\ Log!Live(l) = {} => Log!last(l) = None /\ Log!LastNum(l) = 0
         /\ Log!Live(l) # {} => /\ Log!LastNum(l) \in Log!Live(l) /\ \A m \in Log!Live(l) : m <= Log!LastNum(l)
                                /\ Log!last(l) = l[Log!LastNum(l)].data
<1> DEFINE V == Log!Live(l)
<1>1. V \subseteq 1 .. MaxNum
  BY DEF Log!Live
<1>2. CASE V = {}
  BY <1>2 DEF Log!last, Log!LastNum, BlockIds
<1>3. CASE V # {}
  <2>1. V \subseteq 0 .. MaxNum /\ MaxNum \in Nat
    BY <1>1, PluginAssumption
  <2> HIDE DEF V
  <2>2. \E x \in V : \A y \in V : y <= x
    BY <1>3, <2>1, Largest
  <2>3. Log!LastNum(l) = CHOOSE n \in V : \A m \in V : m <= n
    BY <1>3 DEF Log!LastNum, V
  <2>4. Log!LastNum(l) \in V /\ \A m \in V : m <= Log!LastNum(l)
    BY <2>2, <2>3
  <2>5. Log!last(l) = l[Log!LastNum(l)].data
    BY <1>3 DEF Log!last, V
  <2>6. l[Log!LastNum(l)].data \in BlockIds
    BY <1>1, <2>4 DEF LogState, Log!Entry, Log!BlockIds, BlockIds
  <2> QED
    BY <1>3, <2>4, <2>5, <2>6 DEF V
<1> QED
  BY <1>2, <1>3

LEMMA ReplayableEntries ==
  ASSUME NEW l \in LogState, NEW r, r = Log!Replayable(l)
  PROVE  /\ r \in 0 .. MaxNum
         /\ \A n \in 1 .. r : Log!CanFetchNumber(l, n)
         /\ r + 1 \in 1 .. MaxNum => ~Log!CanFetchNumber(l, r + 1)
<1> DEFINE good == {n \in 0 .. MaxNum : \A m \in 1 .. n : Log!CanFetchNumber(l, m)}
<1>0. MaxNum \in Nat
  BY PluginAssumption
<1>1. 0 \in good /\ good \subseteq 0 .. MaxNum
  BY <1>0
<1>2. r = CHOOSE n \in good : \A m \in good : m <= n
  BY DEF Log!Replayable
<1>3. r \in good /\ \A m \in good : m <= r
  <2> HIDE DEF good
  <2>1. \E x \in good : \A y \in good : y <= x
    BY <1>0, <1>1, Largest
  <2> QED
    BY <1>2, <2>1
<1>4. r \in 0 .. MaxNum /\ \A n \in 1 .. r : Log!CanFetchNumber(l, n)
  BY <1>3
<1>5. ASSUME r + 1 \in 1 .. MaxNum, Log!CanFetchNumber(l, r + 1) PROVE FALSE
  <2>1. \A m \in 1 .. r + 1 : Log!CanFetchNumber(l, m)
    BY <1>4, <1>5
  <2>2. r + 1 \in good
    BY <1>0, <1>5, <2>1
  <2> HIDE DEF good
  <2>3. r + 1 <= r
    BY <1>3, <2>2
  <2> QED
    BY <1>4, <2>3
<1> QED
  BY <1>4, <1>5

LEMMA HistorySizes ==
  ASSUME NEW b \in Blocks
  PROVE  HistorySize(b) \in Nat /\ HistorySize(b) >= 2
<1> DEFINE p == Parent[b]
<1>1. p \in BlockIds /\ Num[b] = Num[p] + 1 /\ Num[p] \in Nat
  BY Numbers
<1>2. Lib[p] \in Nat /\ Lib[p] <= Num[p]
  <2>1. CASE p \in Blocks
    BY <1>1, <2>1, LibAssumption
  <2>2. CASE p = None
    BY <2>2, LibAssumption, Numbers
  <2> QED
    BY <1>1, <2>1, <2>2 DEF BlockIds
<1> HIDE DEF p
<1> QED
  BY <1>1, <1>2 DEF HistorySize, p


-----------------------------------------------------------------------------
(* The invariant.                                                          *)

Places == {"idle", "apply", "notify", "pop", "switch", "unwind", "redo", "restore", "rewind", "down"}

Results == {"none", "rejected", "kept", "failed", "thrown", "applied", "switched"}

CallState == [block : BlockIds, held : SUBSET Txs, first : Seq(Blocks), second : Seq(Blocks),
              next : Nat, result : Results, before : DbState, cutoff : Nat]

StateOK ==
  /\ fork \in Fork!ForkState
  /\ log \in LogState /\ synced \in LogState
  /\ undo_max \in Nat /\ undo_max >= 2
  /\ popped \in SUBSET Txs
  /\ clean \in BOOLEAN /\ base \in BlockIds /\ final \in Nat /\ crashes \in 0 .. Crashes
  /\ call \in CallState

(* What a place in push_block may rely on. *)
Control(p, c, ps, u) ==
  /\ p \in Places
  /\ p \notin {"idle", "restore"} => ~ps
  /\ p = "down" => u = << >>
  /\ p \in {"idle", "down"} => c.held = {}
  /\ p \in {"apply", "notify", "pop", "switch", "unwind", "redo"} => c.block \in Blocks
  /\ p \in {"pop", "switch"} => c.next \in 1 .. Len(c.first) /\ c.second # << >>
  /\ p \in {"unwind", "redo"} => c.next \in 1 .. Len(c.second) /\ c.second # << >>

CInv(G) ==
  /\ StateOK
  /\ Control(pc, call, pending_session, undo)
  /\ HistOK(G, undo, db, pending_session, pending)
  /\ disk \in G

LEMMA HistQuiet ==
  ASSUME NEW G, NEW u, NEW d, NEW ps, NEW p
  PROVE  /\ HistOK(G, u, d, ps, p) /\ ~ps => HistOK(G, u, d, FALSE, {}) /\ p = {}
         /\ HistOK(G, u, d, FALSE, {}) /\ ps = FALSE /\ p = {} => HistOK(G, u, d, ps, p)
<1>1. ASSUME HistOK(G, u, d, ps, p), ~ps PROVE HistOK(G, u, d, FALSE, {}) /\ p = {}
  <2>1. u \in Seq(G) /\ d \in DbState /\ d \in G /\ Chainlike(Append(u, d)) /\ p = {}
    BY <1>1 DEF HistOK
  <2> QED
    BY <2>1 DEF HistOK
<1> QED
  BY <1>1

LEMMA DbFields ==
  ASSUME NEW d \in DbState
  PROVE  d.head \in BlockIds /\ d.txs \in SUBSET Txs /\ d.records \in SUBSET Blocks
  BY DEF DbState

\* clear_pending() leaves a history of blocks.
LEMMA Cleared ==
  ASSUME NEW G, Closed(G), HistOK(G, undo, db, pending_session, pending)
  PROVE  /\ HistOK(G, ClearedUndo, ClearedDb, FALSE, {}) /\ ClearedDb \in DbState /\ ClearedDb \in G
         /\ db.txs = ClearedDb.txs \cup pending /\ pending \in SUBSET Txs
<1>1. pending_session \in BOOLEAN /\ pending \in SUBSET Txs
  BY DEF HistOK
<1>2. CASE pending_session
  <2>1. ClearedUndo = Front(undo) /\ ClearedDb = Top(undo)
    BY <1>2 DEF ClearedUndo, ClearedDb
  <2>2. HistOK(G, Front(undo), Top(undo), FALSE, {}) /\ db.txs = Top(undo).txs \cup pending
    <3>1. HistOK(G, undo, db, TRUE, pending)
      <4>1. pending_session = TRUE
        BY <1>1, <1>2
      <4> QED
        BY <4>1
    <3>2. HistOK(G, Front(undo), Top(undo), FALSE, {}) /\ Above(db, Top(undo), pending)
      BY <3>1, HistClear
    <3> QED
      BY <3>2 DEF Above
  <2>3. HistOK(G, ClearedUndo, ClearedDb, FALSE, {}) /\ db.txs = ClearedDb.txs \cup pending
    BY <2>1, <2>2
  <2> QED
    BY <1>1, <2>3 DEF HistOK
<1>3. CASE ~pending_session
  <2>1. ClearedUndo = undo /\ ClearedDb = db
    BY <1>3 DEF ClearedUndo, ClearedDb
  <2>2. HistOK(G, undo, db, FALSE, {}) /\ pending = {}
    <3>1. pending_session = FALSE
      BY <1>1, <1>3
    <3>2. HistOK(G, undo, db, FALSE, pending)
      BY <3>1
    <3>3. pending = {}
      BY <3>2 DEF HistOK
    <3> QED
      BY <3>2, <3>3
  <2>3. HistOK(G, ClearedUndo, ClearedDb, FALSE, {})
    BY <2>1, <2>2
  <2> QED
    BY <1>1, <2>1, <2>2, <2>3 DEF HistOK
<1> QED
  BY <1>1, <1>2, <1>3

LEMMA NoCallType == NoCall \in CallState /\ NoCall.held = {} /\ Genesis \in DbState
<1>1. Genesis \in DbState
  BY DEF Genesis, DbState, BlockIds
<1>2. << >> \in Seq(Blocks) /\ None \in BlockIds /\ {} \in SUBSET Txs /\ "none" \in Results
  BY DEF BlockIds, Results
<1> HIDE DEF Genesis
<1>3. NoCall \in CallState
  BY <1>1, <1>2, Zenon DEF NoCall, CallState
<1> QED
  BY <1>1, <1>3 DEF NoCall

LEMMA CInit ==
  ASSUME NEW G, Closed(G), Genesis \in G, Init PROVE CInv(G)
<1>1. Log!EmptyLog \in LogState
  BY DEF Log!EmptyLog, LogState, Log!Entry, Log!BlockIds
<1>2. StateOK
  <2>1. /\ fork \in Fork!ForkState /\ log \in LogState /\ synced \in LogState
        /\ call \in CallState /\ base \in BlockIds /\ popped \in SUBSET Txs
    BY <1>1, NoCallType, ForkStarts DEF Init, BlockIds
  <2>2. undo_max \in Nat /\ undo_max >= 2 /\ crashes \in 0 .. Crashes
    BY PluginAssumption DEF Init
  <2>3. clean \in BOOLEAN /\ final \in Nat
    BY DEF Init
  <2> QED
    BY <2>1, <2>2, <2>3 DEF StateOK
<1>3. Control(pc, call, pending_session, undo)
  BY NoCallType DEF Init, Control, Places
<1>4. HistOK(G, undo, db, pending_session, pending)
  <2>1. HistOK(G, << >>, Genesis, FALSE, {})
    BY HistEmpty
  <2> QED
    BY <2>1 DEF Init
<1> QED
  BY <1>2, <1>3, <1>4 DEF Init, CInv

-----------------------------------------------------------------------------
(* Each action keeps it.                                                   *)

LEMMA CPushBlock ==
  ASSUME NEW G, Closed(G), CInv(G), NEW b \in Blocks, PushBlock(b) PROVE CInv(G)'
<1> DEFINE f == IF Fork!TooOld(fork, b) \/ Fork!Unlinkable(fork, b) THEN fork
                ELSE Fork!push_block(fork, b)
           h == f.head
           c == Fork!ForkPoint(h, ClearedDb.head)
           plain == [NoCall EXCEPT !.block = b, !.held = pending, !.before = ClearedDb]
           one == Fork!BranchAfter(h, c)
           two == Fork!BranchAfter(ClearedDb.head, c)
           switch == [plain EXCEPT !.first = one, !.second = two]
<1>1. /\ db' = ClearedDb /\ undo' = ClearedUndo /\ pending' = {} /\ pending_session' = FALSE /\ fork' = f
      /\ log' = log /\ synced' = synced /\ undo_max' = undo_max /\ popped' = popped
      /\ disk' = disk /\ clean' = clean /\ base' = base /\ crashes' = crashes /\ final' = final
  BY DEF PushBlock, blocklog, node
<1>2. \/ pc' = "restore" /\ \E r \in {"rejected", "kept", "failed"} : call' = [plain EXCEPT !.result = r]
      \/ pc' = "apply" /\ call' = plain
      \/ pc' = "pop" /\ call' = switch /\ Fork!CanFetchBranches(f, h, ClearedDb.head)
  BY DEF PushBlock
<1>3. /\ HistOK(G, ClearedUndo, ClearedDb, FALSE, {}) /\ ClearedDb \in DbState /\ pending \in SUBSET Txs
  BY Cleared DEF CInv
<1>4. fork \in Fork!ForkState
  BY DEF CInv, StateOK
<1>5. f \in Fork!ForkState
  BY <1>4, ForkTypes
<1> HIDE DEF f
<1>6. h \in BlockIds /\ ClearedDb.head \in BlockIds
  BY <1>3, <1>5 DEF Fork!ForkState, Fork!BlockIds, BlockIds, DbState
<1>7. plain \in CallState /\ plain.block = b /\ plain.next = 1 /\ \A r \in Results : [plain EXCEPT !.result = r] \in CallState
  <2>1. b \in BlockIds
    BY DEF BlockIds
  <2>2. plain \in CallState /\ plain.block = b /\ plain.next = 1
    BY <1>3, <2>1, NoCallType DEF CallState, NoCall
  <2> HIDE DEF plain
  <2> QED
    BY <2>2 DEF CallState
<1>8. HistOK(G, undo', db', pending_session', pending')
  BY <1>1, <1>3
<1>9. call' \in CallState /\ Control(pc', call', pending_session', undo')
  <2>1. CASE pc' = "restore" /\ \E r \in {"rejected", "kept", "failed"} : call' = [plain EXCEPT !.result = r]
    <3>1. call' \in CallState
      <4> HIDE DEF plain
      <4> QED
        BY <1>7, <2>1 DEF Results
    <3> QED
      BY <1>1, <2>1, <3>1 DEF Control, Places
  <2>2. CASE pc' = "apply" /\ call' = plain
    <3> HIDE DEF plain
    <3> QED
      BY <1>1, <1>7, <2>2 DEF Control, Places
  <2>3. CASE pc' = "pop" /\ call' = switch /\ Fork!CanFetchBranches(f, h, ClearedDb.head)
    <3>1. one \in Seq(Blocks) /\ one # << >> /\ two \in Seq(Blocks) /\ two # << >>
      <4> HIDE DEF h, c
      <4>1. c = Fork!ForkPoint(h, ClearedDb.head)
        BY DEF c
      <4> QED
        BY <1>5, <1>6, <2>3, <4>1, BranchesExist DEF h
    <3> HIDE DEF one, two, plain
    <3>2. switch \in CallState /\ switch.next = 1 /\ switch.first = one /\ switch.second = two /\ switch.block = b
      BY <1>7, <3>1 DEF CallState
    <3>3. 1 \in 1 .. Len(one)
      BY <3>1
    <3> HIDE DEF switch
    <3> QED
      BY <1>1, <2>3, <3>1, <3>2, <3>3 DEF Control, Places
  <2> QED
    BY <1>2, <2>1, <2>2, <2>3
<1>10. StateOK'
  BY <1>1, <1>5, <1>9 DEF CInv, StateOK
<1> QED
  BY <1>1, <1>8, <1>9, <1>10 DEF CInv

\* A block applied on top of the head, in a session that is committed.
LEMMA CApplied ==
  ASSUME NEW G, Closed(G), CInv(G), NEW b \in Blocks, NEW id \in BlockIds, Applies(b, db),
         ApplyAndStore(b, id), ~pending_session, UNCHANGED <<popped, mempool, node>>, call' \in CallState
  PROVE  StateOK' /\ HistOK(G, undo', db', pending_session', pending') /\ disk' \in G
<1>1. HistOK(G, undo, db, FALSE, {}) /\ pending = {} /\ pending_session = FALSE
  BY HistQuiet DEF CInv, HistOK
<1>2. BlockLimit(b) \in Nat
  BY DEF CInv, StateOK, BlockLimit
<1>3. HistOK(G, Start(undo, BlockLimit(b), db), Applied(b, db), FALSE, {})
  BY <1>1, <1>2, HistApply
<1>4. /\ undo' = Start(undo, BlockLimit(b), db) /\ db' = Applied(b, db) /\ pending_session' = FALSE /\ pending' = {}
      /\ undo_max' = HistorySize(b) /\ fork' = Fork!set_max_size(fork, HistorySize(b))
      /\ log' = Log!store(log, id, b) /\ synced' = log
      /\ popped' = popped /\ disk' = disk /\ clean' = clean /\ base' = base /\ crashes' = crashes /\ final' = Larger(final, Lib[b])
  BY <1>1 DEF ApplyAndStore, Write, mempool, node
<1>5. HistOK(G, undo', db', pending_session', pending')
  BY <1>3, <1>4
<1>6. undo_max' \in Nat /\ undo_max' >= 2 /\ fork' \in Fork!ForkState
  BY <1>4, HistorySizes, ForkTypes DEF CInv, StateOK
<1>7. log' \in LogState /\ synced' \in LogState
  BY <1>4, LogTypes DEF CInv, StateOK
<1>9. final' \in Nat
  BY <1>4, LibAssumption DEF CInv, StateOK, Larger
<1>8. StateOK'
  BY <1>4, <1>6, <1>7, <1>9 DEF CInv, StateOK
<1> QED
  BY <1>4, <1>5, <1>8 DEF CInv

LEMMA CApplyNew ==
  ASSUME NEW G, Closed(G), CInv(G), ApplyNew PROVE CInv(G)'
<1>1. /\ pc = "apply" /\ Applies(call.block, db) /\ ApplyAndStore(call.block, call.block)
      /\ pc' = "notify" /\ call' = call /\ UNCHANGED <<popped, mempool, node>>
  BY DEF ApplyNew
<1>2. call.block \in Blocks /\ ~pending_session /\ call \in CallState
  BY <1>1 DEF CInv, Control, StateOK
<1>3. call.block \in BlockIds
  BY <1>2 DEF BlockIds
<1>4. StateOK' /\ HistOK(G, undo', db', pending_session', pending') /\ disk' \in G
  BY <1>1, <1>2, <1>3, CApplied
<1>5. Control(pc', call', pending_session', undo')
  BY <1>1, <1>2 DEF Control, Places, mempool
<1> QED
  BY <1>4, <1>5 DEF CInv

LEMMA CApplyNewFails ==
  ASSUME NEW G, Closed(G), CInv(G), ApplyNewFails PROVE CInv(G)'
<1>1. /\ pc = "apply" /\ undo' \in {Trim(undo, m) : m \in {undo_max, BlockLimit(call.block)}} /\ fork' = Fork!remove(fork, call.block)
      /\ pc' = "restore" /\ call' = [call EXCEPT !.result = "failed"]
      /\ log' = log /\ synced' = synced /\ db' = db /\ undo_max' = undo_max /\ popped' = popped
      /\ pending' = pending /\ pending_session' = pending_session
      /\ disk' = disk /\ clean' = clean /\ base' = base /\ crashes' = crashes /\ final' = final
  BY DEF ApplyNewFails, blocklog, mempool, node
<1>2. call.block \in Blocks /\ ~pending_session /\ call \in CallState /\ undo_max \in Nat
  BY <1>1 DEF CInv, Control, StateOK
<1>3. HistOK(G, undo, db, FALSE, {}) /\ pending = {} /\ pending_session = FALSE
  BY <1>2, HistQuiet DEF CInv, HistOK
<1>4. HistOK(G, undo', db, FALSE, {})
  <2>1. BlockLimit(call.block) \in Nat
    BY DEF CInv, StateOK, BlockLimit
  <2>2. PICK m \in Nat : undo' = Trim(undo, m)
    BY <1>1, <1>2, <2>1
  <2> QED
    BY <1>3, <2>2, HistTrim
<1>5. HistOK(G, undo', db', pending_session', pending')
  BY <1>1, <1>3, <1>4
<1>6. call' \in CallState
  BY <1>1, <1>2 DEF CallState, Results
<1>7. fork' \in Fork!ForkState
  BY <1>1, <1>2, ForkTypes DEF CInv, StateOK
<1>8. StateOK'
  BY <1>1, <1>6, <1>7 DEF CInv, StateOK
<1>9. Control(pc', call', pending_session', undo')
  BY <1>1 DEF Control, Places
<1> QED
  BY <1>1, <1>5, <1>8, <1>9 DEF CInv


LEMMA Quiet ==
  ASSUME NEW G, CInv(G), ~pending_session
  PROVE  HistOK(G, undo, db, FALSE, {}) /\ pending = {} /\ pending_session = FALSE /\ db \in DbState /\ db \in G
<1>1. pending_session = FALSE
  BY DEF CInv, HistOK
<1>2. HistOK(G, undo, db, FALSE, pending)
  BY <1>1 DEF CInv
<1>3. pending = {} /\ db \in DbState /\ db \in G
  BY <1>2 DEF HistOK
<1> QED
  BY <1>1, <1>2, <1>3

LEMMA CNotify ==
  ASSUME NEW G, Closed(G), CInv(G), Notify PROVE CInv(G)'
<1> DEFINE b == call.block
           recorded == IF b \in Seeded THEN [db EXCEPT !.records = @ \cup {b}] ELSE db
           own == Start(undo, undo_max, db)
           t == KeyTx[b]
<1>1. /\ pc = "notify"
      /\ IF b \in Bought
         THEN /\ db' = [recorded EXCEPT !.txs = @ \cup {t}]
              /\ undo' = Front(Nested(Start(own, undo_max, recorded), undo_max, {t}))
              /\ pending' = (IF t \in db.txs THEN {} ELSE {t})
              /\ pending_session' = TRUE
         ELSE /\ db' = recorded
              /\ undo' = Front(own)
              /\ pending' = pending /\ pending_session' = pending_session
      /\ pc' = "restore" /\ call' = [call EXCEPT !.result = "applied"]
      /\ fork' = fork /\ log' = log /\ synced' = synced /\ undo_max' = undo_max /\ popped' = popped
      /\ disk' = disk /\ clean' = clean /\ base' = base /\ crashes' = crashes /\ final' = final
  BY DEF Notify, blocklog, node
<1>2. b \in Blocks /\ ~pending_session /\ call \in CallState /\ undo_max \in Nat /\ undo_max >= 2
  BY <1>1 DEF CInv, Control, StateOK
<1>3. HistOK(G, undo, db, FALSE, {}) /\ pending = {} /\ pending_session = FALSE /\ db \in DbState /\ db \in G
  BY <1>2, Quiet
<1>4. \E r \in SUBSET Blocks : recorded = [db EXCEPT !.records = r]
  <2>1. CASE b \in Seeded
    <3>1. db.records \cup {b} \in SUBSET Blocks
      BY <1>2, <1>3, DbFields
    <3> QED
      BY <2>1, <3>1
  <2>2. CASE b \notin Seeded
    <3>1. db.records \in SUBSET Blocks /\ db = [db EXCEPT !.records = db.records]
      BY <1>3 DEF DbState
    <3> QED
      BY <2>2, <3>1
  <2> QED
    BY <2>1, <2>2
<1> HIDE DEF recorded
<1>5. PICK r \in SUBSET Blocks : recorded = [db EXCEPT !.records = r]
  BY <1>4
<1>6. HistOK(G, undo', db', pending_session', pending')
  <2>1. CASE b \in Bought
    <3>1. t \in Txs \ ProposalTxs
      BY <2>1, PluginAssumption
    <3>2. HistOK(G, Front(Nested(Start(Start(undo, undo_max, db), undo_max, recorded), undo_max, {t})),
                 [recorded EXCEPT !.txs = @ \cup {t}], TRUE, {t} \ db.txs)
      <4> HIDE DEF t
      <4> QED
        BY <1>2, <1>3, <1>5, <3>1, HistBought
    <3>3. pending' = {t} \ db.txs
      BY <1>1, <2>1
    <3> QED
      BY <1>1, <2>1, <3>2, <3>3
  <2>2. CASE b \notin Bought
    <3>1. undo \in Seq(G) /\ db \in G
      BY <1>3 DEF HistOK
    <3>2. Front(own) = Trim(undo, undo_max)
      BY <1>2, <3>1, StartEnd
    <3>3. HistOK(G, Trim(undo, undo_max), db, FALSE, {})
      BY <1>2, <1>3, HistTrim
    <3>4. HistOK(G, Trim(undo, undo_max), recorded, FALSE, {})
      BY <1>5, <3>3, HistRecord
    <3> QED
      BY <1>1, <1>3, <2>2, <3>2, <3>4
  <2> QED
    BY <2>1, <2>2
<1>7. call' \in CallState
  BY <1>1, <1>2 DEF CallState, Results
<1>8. StateOK'
  BY <1>1, <1>7 DEF CInv, StateOK
<1>9. Control(pc', call', pending_session', undo')
  BY <1>1 DEF Control, Places
<1> QED
  BY <1>1, <1>6, <1>8, <1>9 DEF CInv

\* pop_block, the fork database changed in either way.
LEMMA CPopped ==
  ASSUME NEW G, Closed(G), CInv(G), ~pending_session, PopStarts, undo # << >>,
         fork' = Fork!pop_block(fork) \/ fork' = Fork!remove(Fork!pop_block(fork), db.head),
         Write(Log!remove(log, db.head)), db' = Top(undo), undo' = Front(undo),
         popped' = popped \cup BlockTxs[db.head], UNCHANGED <<undo_max, pc, call, mempool, node, final>>,
         pc # "down"
  PROVE  CInv(G)' /\ BlockStep(db', db)
<1>1. HistOK(G, undo, db, FALSE, {}) /\ pending = {} /\ pending_session = FALSE /\ db \in DbState
  BY Quiet
<1>2. HistOK(G, Front(undo), Top(undo), FALSE, {}) /\ BlockStep(Top(undo), db)
  BY <1>1, HistPop
<1>3. /\ pc' = pc /\ call' = call /\ pending_session' = FALSE /\ pending' = {} /\ undo_max' = undo_max
      /\ log' = Log!remove(log, db.head) /\ synced' = log
      /\ disk' = disk /\ clean' = clean /\ base' = base /\ crashes' = crashes /\ final' = final
  BY <1>1 DEF mempool, node, Write
<1>4. HistOK(G, undo', db', pending_session', pending')
  BY <1>2, <1>3
<1>5. db.head \in Blocks
  BY <1>2 DEF BlockStep
<1>6. fork' \in Fork!ForkState
  BY <1>5, ForkPops DEF CInv, StateOK, PopStarts
<1>7. log' \in LogState /\ synced' \in LogState
  BY <1>3, LogTypes DEF CInv, StateOK
<1>8. popped' \in SUBSET Txs
  <2>1. BlockTxs[db.head] \in SUBSET Txs
    BY <1>5, BlockContentsAssumption
  <2> QED
    BY <2>1 DEF CInv, StateOK
<1>9. StateOK'
  BY <1>3, <1>6, <1>7, <1>8 DEF CInv, StateOK
<1>10. Control(pc', call', pending_session', undo')
  BY <1>3 DEF CInv, Control
<1> QED
  BY <1>2, <1>3, <1>4, <1>9, <1>10 DEF CInv

LEMMA CPop ==
  ASSUME NEW G, Closed(G), CInv(G), SwitchPop \/ UnwindPop PROVE CInv(G)' /\ BlockStep(db', db)
<1>1. pc \in {"pop", "unwind"} /\ PopBlock /\ UNCHANGED <<pc, call, mempool, node, final>>
  BY DEF SwitchPop, UnwindPop
<1>2. ~pending_session /\ pc # "down"
  BY <1>1 DEF CInv, Control
<1> QED
  BY <1>1, <1>2, CPopped DEF PopBlock

LEMMA CRewind ==
  ASSUME NEW G, Closed(G), CInv(G), Rewind PROVE CInv(G)'
<1>1. pc = "rewind"
  BY DEF Rewind
<1>2. ~pending_session /\ pc # "down"
  BY <1>1 DEF CInv, Control
<1> QED
  BY <1>1, <1>2, CPopped DEF Rewind

\* The block a loop of the fork switch is at.
LEMMA LoopBlock ==
  ASSUME NEW s \in Seq(Blocks), NEW n \in 1 .. Len(s) PROVE s[n] \in Blocks /\ n \in Nat /\ Len(s) \in Nat
  OBVIOUS

LEMMA CSwitchApply ==
  ASSUME NEW G, Closed(G), CInv(G), SwitchApply PROVE CInv(G)'
<1> DEFINE n == call.next
           s == call.first
           b == s[n]
<1>1. /\ pc \in {"pop", "switch"} /\ Applies(b, db) /\ ApplyAndStore(b, b)
      /\ IF n = Len(s)
         THEN pc' = "restore" /\ call' = [call EXCEPT !.result = "switched"]
         ELSE pc' = "switch" /\ call' = [call EXCEPT !.next = n + 1]
      /\ UNCHANGED <<popped, mempool, node>>
  BY DEF SwitchApply
<1>2. ~pending_session /\ call \in CallState /\ n \in 1 .. Len(s) /\ s \in Seq(Blocks) /\ call.block \in Blocks /\ call.second # << >>
  BY <1>1 DEF CInv, Control, StateOK, CallState
<1>3. b \in Blocks /\ b \in BlockIds /\ n \in Nat /\ Len(s) \in Nat
  BY <1>2, LoopBlock DEF BlockIds
<1>4. call' \in CallState
  <2>1. n + 1 \in Nat
    BY <1>3
  <2>2. [call EXCEPT !.result = "switched"] \in CallState
    BY <1>2 DEF CallState, Results
  <2>3. [call EXCEPT !.next = n + 1] \in CallState
    BY <1>2, <2>1 DEF CallState
  <2> QED
    BY <1>1, <2>2, <2>3
<1> HIDE DEF b
<1>5. StateOK' /\ HistOK(G, undo', db', pending_session', pending') /\ disk' \in G
  BY <1>1, <1>2, <1>3, <1>4, CApplied
<1>6. Control(pc', call', pending_session', undo')
  <2>1. CASE n = Len(s)
    BY <1>1, <2>1 DEF Control, Places
  <2>2. CASE n # Len(s)
    <3>1. pc' = "switch" /\ call'.next = n + 1 /\ call'.first = s /\ call'.second = call.second /\ call'.block = call.block
      BY <1>1, <1>2, <2>2 DEF CallState
    <3>2. n + 1 \in 1 .. Len(s)
      BY <1>2, <1>3, <2>2
    <3>3. ~pending_session'
      BY <1>1, <1>2 DEF mempool
    <3> HIDE DEF n, s
    <3> QED
      BY <1>2, <3>1, <3>2, <3>3 DEF Control, Places
  <2> QED
    BY <2>1, <2>2
<1> QED
  BY <1>5, <1>6 DEF CInv

LEMMA CUnwindApply ==
  ASSUME NEW G, Closed(G), CInv(G), UnwindApply PROVE CInv(G)'
<1> DEFINE n == call.next
           s == call.second
           b == s[n]
<1>1. /\ pc \in {"unwind", "redo"} /\ Applies(b, db) /\ ApplyAndStore(b, call.block)
      /\ IF n = Len(s)
         THEN pc' = "restore" /\ call' = [call EXCEPT !.result = "failed"]
         ELSE pc' = "redo" /\ call' = [call EXCEPT !.next = n + 1]
      /\ UNCHANGED <<popped, mempool, node>>
  BY DEF UnwindApply
<1>2. ~pending_session /\ call \in CallState /\ n \in 1 .. Len(s) /\ s \in Seq(Blocks) /\ call.block \in Blocks /\ s # << >>
  BY <1>1 DEF CInv, Control, StateOK, CallState
<1>3. b \in Blocks /\ call.block \in BlockIds /\ n \in Nat /\ Len(s) \in Nat
  BY <1>2, LoopBlock DEF BlockIds
<1>4. call' \in CallState
  <2>1. n + 1 \in Nat
    BY <1>3
  <2>2. [call EXCEPT !.result = "failed"] \in CallState
    BY <1>2 DEF CallState, Results
  <2>3. [call EXCEPT !.next = n + 1] \in CallState
    BY <1>2, <2>1 DEF CallState
  <2> QED
    BY <1>1, <2>2, <2>3
<1> HIDE DEF b
<1>5. StateOK' /\ HistOK(G, undo', db', pending_session', pending') /\ disk' \in G
  BY <1>1, <1>2, <1>3, <1>4, CApplied
<1>6. Control(pc', call', pending_session', undo')
  <2>1. CASE n = Len(s)
    BY <1>1, <2>1 DEF Control, Places
  <2>2. CASE n # Len(s)
    <3>1. pc' = "redo" /\ call'.next = n + 1 /\ call'.second = s /\ call'.block = call.block
      BY <1>1, <1>2, <2>2 DEF CallState
    <3>2. n + 1 \in 1 .. Len(s)
      BY <1>2, <1>3, <2>2
    <3>3. ~pending_session'
      BY <1>1, <1>2 DEF mempool
    <3> HIDE DEF n, s
    <3> QED
      BY <1>2, <3>1, <3>2, <3>3 DEF Control, Places
  <2> QED
    BY <2>1, <2>2
<1> QED
  BY <1>5, <1>6 DEF CInv

LEMMA CSwitchFails ==
  ASSUME NEW G, Closed(G), CInv(G), SwitchFails PROVE CInv(G)'
<1> DEFINE s == call.second
           rest == {call.first[n] : n \in call.next .. Len(call.first)}
<1>1. /\ pc \in {"pop", "switch"} /\ undo' \in {Trim(undo, m) : m \in {undo_max, BlockLimit(call.first[call.next])}}
      /\ fork' = Fork!set_head(Fork!Erase(fork, rest), Top(s))
      /\ pc' = "unwind" /\ call' = [call EXCEPT !.next = 1]
      /\ log' = log /\ synced' = synced /\ db' = db /\ undo_max' = undo_max /\ popped' = popped
      /\ pending' = pending /\ pending_session' = pending_session
      /\ disk' = disk /\ clean' = clean /\ base' = base /\ crashes' = crashes /\ final' = final
  BY DEF SwitchFails, blocklog, mempool, node
<1>2. ~pending_session /\ call \in CallState /\ s \in Seq(Blocks) /\ s # << >> /\ call.block \in Blocks /\ undo_max \in Nat
  BY <1>1 DEF CInv, Control, StateOK, CallState
<1>3. HistOK(G, undo, db, FALSE, {}) /\ pending = {} /\ pending_session = FALSE
  BY <1>2, Quiet
<1>4. HistOK(G, undo', db, FALSE, {})
  <2>1. BlockLimit(call.first[call.next]) \in Nat
    BY DEF CInv, StateOK, BlockLimit
  <2>2. PICK m \in Nat : undo' = Trim(undo, m)
    BY <1>1, <1>2, <2>1
  <2> QED
    BY <1>3, <2>2, HistTrim
<1>5. HistOK(G, undo', db', pending_session', pending')
  BY <1>1, <1>3, <1>4
<1>6. call' \in CallState /\ call'.next = 1 /\ call'.second = s /\ call'.block = call.block
  BY <1>1, <1>2 DEF CallState
<1>7. fork' \in Fork!ForkState
  <2>1. Top(s) \in Blocks
    BY <1>2, FrontFacts
  <2>2. Top(s) \in BlockIds /\ fork \in Fork!ForkState
    BY <2>1 DEF BlockIds, CInv, StateOK
  <2>3. Fork!set_head(Fork!Erase(fork, rest), Top(s)) \in Fork!ForkState
    <3> HIDE DEF rest, s
    <3> QED
      BY <2>1, <2>2, ForkTypes
  <2> QED
    BY <1>1, <2>3
<1>8. StateOK'
  BY <1>1, <1>6, <1>7 DEF CInv, StateOK
<1>9. Control(pc', call', pending_session', undo')
  <2>1. 1 \in 1 .. Len(s)
    BY <1>2
  <2> HIDE DEF s
  <2> QED
    BY <1>1, <1>2, <1>3, <1>6, <2>1 DEF Control, Places
<1> QED
  BY <1>1, <1>5, <1>8, <1>9 DEF CInv

LEMMA CSwitchThrows ==
  ASSUME NEW G, Closed(G), CInv(G), SwitchThrows PROVE CInv(G)'
<1>1. /\ pc \in {"pop", "unwind"}
      /\ \/ PopStarts /\ fork' = Fork!pop_block(fork) /\ log' = Log!remove(log, db.head) /\ synced' = log
         \/ fork' = fork /\ log' = log /\ synced' = synced
      /\ pc' = "restore" /\ call' = [call EXCEPT !.result = "thrown"]
      /\ db' = db /\ undo' = undo /\ undo_max' = undo_max /\ popped' = popped
      /\ pending' = pending /\ pending_session' = pending_session
      /\ disk' = disk /\ clean' = clean /\ base' = base /\ crashes' = crashes /\ final' = final
  BY DEF SwitchThrows, blocklog, mempool, node, Write
<1>2. call \in CallState /\ ~pending_session /\ call.block \in Blocks
  BY <1>1 DEF CInv, StateOK, Control
<1>3. fork' \in Fork!ForkState
  BY <1>1, <1>2, ForkPops DEF CInv, StateOK, PopStarts
<1>4. log' \in LogState /\ synced' \in LogState
  BY <1>1, LogTypes DEF CInv, StateOK
<1>5. call' \in CallState
  BY <1>1, <1>2 DEF CallState, Results
<1>6. StateOK'
  BY <1>1, <1>3, <1>4, <1>5 DEF CInv, StateOK
<1>7. Control(pc', call', pending_session', undo')
  BY <1>1 DEF Control, Places
<1> QED
  BY <1>1, <1>6, <1>7 DEF CInv


\* Unknown transactions ts pushed, as the code does it from either state of the
\* pending session.
LEMMA PushedPending ==
  ASSUME NEW G, Closed(G), CInv(G), NEW ts \in SUBSET Txs, ts \cap db.txs = {}, NEW us
  PROVE  HistOK(G, Nested(PendingOpened(db), undo_max, us), [db EXCEPT !.txs = @ \cup ts], TRUE, pending \cup ts)
<1>1. /\ undo_max \in Nat /\ undo_max >= 2 /\ HistOK(G, undo, db, pending_session, pending)
      /\ pending_session \in BOOLEAN /\ db \in DbState
  BY DEF CInv, StateOK, HistOK
<1> DEFINE v == PendingOpened(db)
<1>2. CASE pending_session = TRUE
  <2>1. v = undo
    BY <1>2 DEF PendingOpened
  <2>2. HistOK(G, undo, db, TRUE, pending)
    BY <1>1, <1>2
  <2> HIDE DEF v
  <2>3. HistOK(G, Nested(v, undo_max, us), [db EXCEPT !.txs = @ \cup ts], TRUE, pending \cup ts)
    BY <1>1, <2>1, <2>2, HistPending
  <2> QED
    BY <2>3 DEF v
<1>3. CASE pending_session = FALSE
  <2>1. v = Start(undo, undo_max, db)
    BY <1>3 DEF PendingOpened
  <2>2. HistOK(G, undo, db, FALSE, pending)
    BY <1>1, <1>3
  <2> HIDE DEF v
  <2>3. HistOK(G, Nested(v, undo_max, us), [db EXCEPT !.txs = @ \cup ts], TRUE, pending \cup ts)
    BY <1>1, <2>1, <2>2, HistPending
  <2> QED
    BY <2>3 DEF v
<1> QED
  BY <1>1, <1>2, <1>3

LEMMA CRestore ==
  ASSUME NEW G, Closed(G), CInv(G), Restore PROVE CInv(G)'
<1> DEFINE again == ToRestore
<1>1. /\ pc = "restore"
      /\ db' = [db EXCEPT !.txs = @ \cup again]
      /\ pending' = pending \cup again
      /\ pending_session' = (pending_session \/ again # {})
      /\ undo' = (IF again = {} THEN undo ELSE Nested(PendingOpened(db), undo_max, again))
      /\ popped' = {} /\ pc' = "idle" /\ call' = NoCall
      /\ fork' = fork /\ log' = log /\ synced' = synced /\ undo_max' = undo_max
      /\ disk' = disk /\ clean' = clean /\ base' = base /\ crashes' = crashes /\ final' = final
  BY DEF Restore, blocklog, node
<1>2. again \in SUBSET Txs /\ again \cap db.txs = {}
  BY DEF CInv, StateOK, CallState, ToRestore
<1>3. db \in DbState /\ pending_session \in BOOLEAN
  BY DEF CInv, HistOK
<1> HIDE DEF again
<1>4. HistOK(G, undo', db', pending_session', pending')
  <2>1. CASE again = {}
    <3>1. db' = db /\ pending' = pending
      BY <1>1, <1>3, <2>1 DEF DbState
    <3>2. pending_session' = pending_session
      BY <1>1, <1>3, <2>1
    <3>3. undo' = undo
      BY <1>1, <2>1
    <3> QED
      BY <3>1, <3>2, <3>3 DEF CInv
  <2>2. CASE again # {}
    <3>1. HistOK(G, Nested(PendingOpened(db), undo_max, again), [db EXCEPT !.txs = @ \cup again], TRUE, pending \cup again)
      BY <1>2, PushedPending
    <3>2. pending_session' = TRUE
      BY <1>1, <2>2
    <3>3. undo' = Nested(PendingOpened(db), undo_max, again)
      BY <1>1, <2>2
    <3> QED
      BY <1>1, <3>1, <3>2, <3>3
  <2> QED
    BY <2>1, <2>2
<1>5. StateOK'
  BY <1>1, NoCallType DEF CInv, StateOK
<1>6. Control(pc', call', pending_session', undo')
  BY <1>1, NoCallType DEF Control, Places
<1> QED
  BY <1>1, <1>4, <1>5, <1>6 DEF CInv

LEMMA CPushTransaction ==
  ASSUME NEW G, Closed(G), CInv(G), NEW t \in Txs, PushTransaction(t) PROVE CInv(G)'
<1> DEFINE ts == {t} \ db.txs
<1>1. /\ pc = "idle"
      /\ undo' = Nested(PendingOpened(db), undo_max, ts)
      /\ pending_session' = TRUE
      /\ pending' = pending \cup ts
      /\ db' = [db EXCEPT !.txs = @ \cup {t}]
      /\ fork' = fork /\ log' = log /\ synced' = synced /\ undo_max' = undo_max /\ popped' = popped
      /\ pc' = pc /\ call' = call
      /\ disk' = disk /\ clean' = clean /\ base' = base /\ crashes' = crashes /\ final' = final
  BY DEF PushTransaction, blocklog, node
<1>2. ts \in SUBSET Txs /\ ts \cap db.txs = {} /\ db.txs \cup {t} = db.txs \cup ts
  OBVIOUS
<1> HIDE DEF ts
<1>3. db' = [db EXCEPT !.txs = @ \cup ts]
  BY <1>1, <1>2
<1>4. HistOK(G, undo', db', pending_session', pending')
  <2>1. HistOK(G, Nested(PendingOpened(db), undo_max, ts), [db EXCEPT !.txs = @ \cup ts], TRUE, pending \cup ts)
    BY <1>2, PushedPending
  <2> QED
    BY <1>1, <1>3, <2>1
<1>5. StateOK'
  BY <1>1 DEF CInv, StateOK
<1>6. Control(pc', call', pending_session', undo')
  BY <1>1 DEF CInv, Control, Places
<1> QED
  BY <1>1, <1>4, <1>5, <1>6 DEF CInv

LEMMA CClose ==
  ASSUME NEW G, Closed(G), CInv(G), Close PROVE CInv(G)'
<1>1. /\ pc = "idle" /\ db' = ClearedDb /\ undo' = ClearedUndo /\ pending' = {} /\ pending_session' = FALSE
      /\ pc' = "rewind" /\ call' = [NoCall EXCEPT !.cutoff = Lib[ClearedDb.head]]
      /\ fork' = fork /\ log' = log /\ synced' = synced /\ undo_max' = undo_max /\ popped' = popped
      /\ disk' = disk /\ clean' = clean /\ base' = base /\ crashes' = crashes /\ final' = final
  BY DEF Close, blocklog, node
<1>2. HistOK(G, ClearedUndo, ClearedDb, FALSE, {}) /\ ClearedDb \in DbState
  BY Cleared DEF CInv
<1>3. HistOK(G, undo', db', pending_session', pending')
  BY <1>1, <1>2
<1>4. call' \in CallState
  <2>1. Lib[ClearedDb.head] \in Nat
    BY <1>2, LibAssumption DEF DbState, BlockIds
  <2> QED
    BY <1>1, <2>1, NoCallType DEF CallState
<1>5. StateOK'
  BY <1>1, <1>4 DEF CInv, StateOK
<1>6. Control(pc', call', pending_session', undo')
  BY <1>1 DEF Control, Places
<1> QED
  BY <1>1, <1>3, <1>5, <1>6 DEF CInv

LEMMA CFlush ==
  ASSUME NEW G, Closed(G), CInv(G), Flush PROVE CInv(G)'
<1>1. /\ pc = "rewind" /\ log' \in {log, Log!remove(log, db.head)} /\ synced' = log' /\ disk' = db /\ clean' = TRUE
      /\ fork' = Fork!reset(fork) /\ popped' = {} /\ undo' = << >> /\ pc' = "down" /\ call' = NoCall
      /\ db' = db /\ undo_max' = undo_max /\ base' = base /\ crashes' = crashes /\ final' = final
      /\ pending' = pending /\ pending_session' = pending_session
  BY DEF Flush, mempool
<1>2. ~pending_session
  BY <1>1 DEF CInv, Control
<1>3. pending = {} /\ pending_session = FALSE /\ db \in G
  BY <1>2, Quiet
<1>4. HistOK(G, << >>, db, FALSE, {})
  BY <1>3, HistEmpty
<1>5. HistOK(G, undo', db', pending_session', pending')
  BY <1>1, <1>3, <1>4
<1>6. log' \in LogState /\ synced' \in LogState /\ fork' \in Fork!ForkState
  BY <1>1, LogTypes, ForkStarts DEF CInv, StateOK
<1>7. StateOK'
  BY <1>1, <1>6, NoCallType DEF CInv, StateOK
<1>8. Control(pc', call', pending_session', undo')
  BY <1>1, <1>2, NoCallType DEF Control, Places
<1> QED
  BY <1>1, <1>3, <1>5, <1>7, <1>8 DEF CInv

LEMMA CCrash ==
  ASSUME NEW G, Closed(G), CInv(G), Crash PROVE CInv(G)'
<1>1. /\ crashes < Crashes /\ crashes' = crashes + 1 /\ clean' = FALSE /\ db' = disk /\ undo' = << >>
      /\ fork' = Fork!ForkEmpty /\ pending' = {} /\ pending_session' = FALSE /\ popped' = {}
      /\ pc' = "down" /\ call' = NoCall /\ log' \in {log, synced} /\ synced' = log'
      /\ undo_max' = undo_max /\ disk' = disk /\ base' = base /\ final' = final
  BY DEF Crash
<1>2. HistOK(G, << >>, disk, FALSE, {})
  BY HistEmpty DEF CInv
<1>3. HistOK(G, undo', db', pending_session', pending')
  BY <1>1, <1>2
<1>4. crashes' \in 0 .. Crashes
  BY <1>1, PluginAssumption DEF CInv, StateOK
<1>5. StateOK'
  BY <1>1, <1>4, NoCallType, ForkStarts DEF CInv, StateOK
<1>6. Control(pc', call', pending_session', undo')
  BY <1>1, NoCallType DEF Control, Places
<1> QED
  BY <1>1, <1>3, <1>5, <1>6 DEF CInv

LEMMA COpen ==
  ASSUME NEW G, Closed(G), CInv(G), Open PROVE CInv(G)'
<1> DEFINE top == Log!last(log)
<1>1. /\ pc = "down" /\ clean
      /\ fork' = (IF top = None THEN Fork!ForkEmpty ELSE Fork!start_block(Fork!ForkEmpty, top))
      /\ undo_max' = DefaultMaxSize /\ clean' = FALSE /\ base' = db.head /\ final' = Lib[db.head] /\ pc' = "idle"
      /\ log' = log /\ synced' = synced /\ db' = db /\ undo' = undo /\ popped' = popped
      /\ disk' = disk /\ crashes' = crashes /\ call' = call
      /\ pending' = pending /\ pending_session' = pending_session
  BY DEF Open, blocklog, mempool
<1>2. top \in BlockIds
  BY LastEntry DEF CInv, StateOK
<1> HIDE DEF top
<1>3. fork' \in Fork!ForkState
  BY <1>1, <1>2, ForkStarts, ForkTypes DEF BlockIds
<1>4. base' \in BlockIds /\ final' \in Nat
  BY <1>1, LibAssumption DEF CInv, HistOK, DbState, BlockIds
<1>5. StateOK'
  <2>1. undo_max' \in Nat /\ undo_max' >= 2
    BY <1>1, PluginAssumption
  <2> QED
    BY <1>1, <1>3, <1>4, <2>1 DEF CInv, StateOK
<1>6. Control(pc', call', pending_session', undo')
  BY <1>1 DEF CInv, Control, Places
<1>7. HistOK(G, undo', db', pending_session', pending')
  BY <1>1 DEF CInv
<1> QED
  BY <1>1, <1>5, <1>6, <1>7 DEF CInv

\* The block a replay ends at.
ReplayCount(l) == Smaller(Log!Replayable(l), Num[Log!last(l)])
ReplayHead(l) == IF ReplayCount(l) = 0 THEN None ELSE l[ReplayCount(l)].data

LEMMA ReplayTypes ==
  ASSUME NEW l \in LogState
  PROVE  ReplayCount(l) \in 0 .. MaxNum /\ ReplayHead(l) \in BlockIds
<1> DEFINE r == Log!Replayable(l)
           k == Num[Log!last(l)]
           n == ReplayCount(l)
<1>0. MaxNum \in Nat
  BY PluginAssumption
<1>1. r \in 0 .. MaxNum
  <2> HIDE DEF r
  <2> QED
    BY ReplayableEntries DEF r
<1>2. k \in Nat
  BY LastEntry, Numbers
<1> HIDE DEF r, k
<1>3. n = Smaller(r, k)
  BY DEF ReplayCount, r, k
<1>4. n \in 0 .. MaxNum
  BY <1>0, <1>1, <1>2, <1>3 DEF Smaller
<1> HIDE DEF n
<1>5. ASSUME n # 0 PROVE l[n].data \in BlockIds
  <2>1. n \in 1 .. MaxNum
    BY <1>0, <1>4, <1>5
  <2> QED
    BY <2>1 DEF LogState, Log!Entry, Log!BlockIds, BlockIds
<1>6. ReplayHead(l) = IF n = 0 THEN None ELSE l[n].data
  BY DEF ReplayHead, n
<1>7. ReplayHead(l) \in BlockIds
  BY <1>5, <1>6 DEF BlockIds
<1> QED
  BY <1>4, <1>7 DEF n

LEMMA ReindexSteps ==
  ASSUME Reindex
  PROVE  /\ pc = "down"
         /\ db' = [Genesis EXCEPT !.head = ReplayHead(log)]
         /\ undo_max' = (IF ReplayHead(log) = None THEN DefaultMaxSize ELSE HistorySize(ReplayHead(log)))
         /\ fork' = (IF Log!last(log) = None THEN Fork!ForkEmpty
                     ELSE IF ReplayHead(log) = None THEN Fork!start_block(Fork!ForkEmpty, Log!last(log))
                     ELSE Fork!set_max_size(Fork!start_block(Fork!ForkEmpty, Log!last(log)), HistorySize(ReplayHead(log))))
         /\ log' = (IF ReplayCount(log) < Num[Log!last(log)] THEN Log!DropAbove(log, ReplayCount(log) + 1) ELSE log)
         /\ synced' = (IF ReplayCount(log) < Num[Log!last(log)] THEN Log!DropAbove(log, ReplayCount(log) + 2) ELSE log)
         /\ clean' = FALSE /\ base' = ReplayHead(log) /\ final' = Lib[ReplayHead(log)] /\ pc' = "idle"
         /\ undo' = undo /\ popped' = popped /\ disk' = disk /\ crashes' = crashes /\ call' = call
         /\ pending' = pending /\ pending_session' = pending_session
BY DEF Reindex, ReplayHead, ReplayCount, mempool

LEMMA CReindex ==
  ASSUME NEW G, Closed(G), CInv(G), Reindex, db' \in G PROVE CInv(G)'
<1> DEFINE h == ReplayHead(log)
           top == Log!last(log)
<1>1. h \in BlockIds /\ top \in BlockIds
  BY ReplayTypes, LastEntry DEF CInv, StateOK
<1>2. undo_max' \in Nat /\ undo_max' >= 2
  <2>1. CASE h = None
    BY <2>1, ReindexSteps, PluginAssumption
  <2>2. CASE h # None
    <3>1. h \in Blocks
      BY <1>1, <2>2 DEF BlockIds
    <3>2. HistorySize(h) \in Nat /\ HistorySize(h) >= 2
      BY <3>1, HistorySizes
    <3> QED
      BY <2>2, <3>2, ReindexSteps
  <2> QED
    BY <2>1, <2>2
<1>3. fork' \in Fork!ForkState
  <2> DEFINE started == Fork!start_block(Fork!ForkEmpty, top)
  <2>1. top # None => started \in Fork!ForkState
    BY <1>1, ForkStarts, ForkTypes DEF BlockIds
  <2>2. top # None /\ h # None => Fork!set_max_size(started, HistorySize(h)) \in Fork!ForkState
    <3> SUFFICES ASSUME top # None, h # None PROVE Fork!set_max_size(started, HistorySize(h)) \in Fork!ForkState
      OBVIOUS
    <3>1. h \in Blocks /\ started \in Fork!ForkState
      BY <1>1, <2>1 DEF BlockIds
    <3>2. HistorySize(h) \in Nat
      BY <3>1, HistorySizes
    <3> HIDE DEF started, h
    <3> QED
      BY <3>1, <3>2, ForkTypes
  <2>3. fork' = IF top = None THEN Fork!ForkEmpty ELSE IF h = None THEN started
                ELSE Fork!set_max_size(started, HistorySize(h))
    BY ReindexSteps
  <2> HIDE DEF started, h, top
  <2> QED
    BY <2>1, <2>2, <2>3, ForkStarts
<1>4. log' \in LogState /\ synced' \in LogState
  BY ReindexSteps, LogTypes DEF CInv, StateOK
<1>5. /\ pc = "down" /\ clean' = FALSE /\ base' = h /\ final' = Lib[h] /\ pc' = "idle"
      /\ undo' = undo /\ popped' = popped /\ disk' = disk /\ crashes' = crashes /\ call' = call
      /\ pending' = pending /\ pending_session' = pending_session
  BY ReindexSteps
<1>12. final' \in Nat
  BY <1>1, <1>5, LibAssumption DEF BlockIds
<1>6. StateOK'
  BY <1>1, <1>2, <1>3, <1>4, <1>5, <1>12 DEF CInv, StateOK
<1>7. Control(pc', call', pending_session', undo')
  BY <1>5 DEF CInv, Control, Places
<1>8. ~pending_session /\ undo = << >>
  BY <1>5 DEF CInv, Control
<1>9. pending = {} /\ pending_session = FALSE
  BY <1>8, Quiet
<1>10. HistOK(G, << >>, db', FALSE, {})
  BY HistEmpty
<1>11. HistOK(G, undo', db', pending_session', pending')
  BY <1>5, <1>8, <1>9, <1>10
<1> QED
  BY <1>5, <1>6, <1>7, <1>11 DEF CInv

LEMMA CStutter ==
  ASSUME NEW G, CInv(G), UNCHANGED vars PROVE CInv(G)'
<1>1. /\ fork' = fork /\ log' = log /\ synced' = synced /\ db' = db /\ undo' = undo /\ undo_max' = undo_max
      /\ pending' = pending /\ pending_session' = pending_session /\ popped' = popped
      /\ disk' = disk /\ clean' = clean /\ base' = base /\ final' = final /\ crashes' = crashes /\ pc' = pc /\ call' = call
  BY DEF vars
<1> QED
  BY <1>1 DEF CInv, StateOK

LEMMA CStep ==
  ASSUME NEW G, Closed(G), CInv(G), [Next]_vars, Reindex => db' \in G PROVE CInv(G)'
<1>1. ASSUME NEW b \in Blocks, PushBlock(b) PROVE CInv(G)'
  BY <1>1, CPushBlock
<1>2. CASE PushStep
  BY <1>2, CApplyNew, CApplyNewFails, CNotify, CPop, CSwitchApply, CSwitchFails, CUnwindApply,
     CSwitchThrows, CRestore DEF PushStep
<1>3. ASSUME NEW t \in Txs, PushTransaction(t) PROVE CInv(G)'
  BY <1>3, CPushTransaction
<1>4. CASE Close \/ Rewind \/ Flush \/ Crash \/ Open \/ Reindex
  BY <1>4, CClose, CRewind, CFlush, CCrash, COpen, CReindex
<1>5. CASE UNCHANGED vars
  BY <1>5, CStutter
<1> QED
  BY <1>1, <1>2, <1>3, <1>4, <1>5 DEF Next

-----------------------------------------------------------------------------
(* The states of the object database: any, and those that know every       *)
(* transaction of their chain.                                             *)

LEMMA AnyState == Closed(DbState) /\ Genesis \in DbState
<1>1. ASSUME NEW d \in DbState, NEW b \in Blocks PROVE Applied(b, d) \in DbState
  <2>1. b \in BlockIds /\ d.txs \cup BlockTxs[b] \in SUBSET Txs
    BY BlockContentsAssumption DEF BlockIds, DbState
  <2> QED
    BY <2>1 DEF Applied, DbState
<1>2. ASSUME NEW d \in DbState, NEW r \in SUBSET Blocks PROVE [d EXCEPT !.records = r] \in DbState
  BY DEF DbState
<1> QED
  BY <1>1, <1>2, NoCallType DEF Closed

LEMMA ReplayedState == ASSUME StateOK, Reindex PROVE db' \in DbState
<1>1. ReplayHead(log) \in BlockIds
  BY ReplayTypes DEF StateOK
<1>2. db' = [Genesis EXCEPT !.head = ReplayHead(log)]
  BY ReindexSteps
<1> QED
  BY <1>1, <1>2, NoCallType DEF DbState

\* For every tree of blocks, valid or not, every order of pushes, transactions,
\* plugin reactions, failed fork switches, stops, crashes and restarts: the
\* types, the places push_block can be at and the history of blocks.
THEOREM ChainInvariance == Spec => []CInv(DbState)
<1>1. Init => CInv(DbState)
  BY CInit, AnyState
<1>2. CInv(DbState) /\ [Next]_vars => CInv(DbState)'
  <2> SUFFICES ASSUME CInv(DbState), [Next]_vars PROVE CInv(DbState)'
    OBVIOUS
  <2>1. Reindex => db' \in DbState
    BY ReplayedState DEF CInv
  <2> QED
    BY <2>1, CStep, AnyState
<1> QED
  BY <1>1, <1>2, PTL DEF Spec

\* TypeOK, for every value of the constants.
THEOREM ChainTypes == Spec => []TypeOK
<1>1. CInv(DbState) => TypeOK
  <2> SUFFICES ASSUME CInv(DbState) PROVE TypeOK
    OBVIOUS
  <2>1. /\ fork \in Fork!ForkState /\ undo_max \in Nat /\ popped \subseteq Txs /\ clean \in BOOLEAN
        /\ base \in BlockIds /\ final \in Nat /\ crashes \in 0 .. Crashes
    BY DEF CInv, StateOK
  <2>2. \A n \in 1 .. MaxNum : log[n] \in Log!Entry /\ synced[n] \in Log!Entry
    BY DEF CInv, StateOK, LogState
  <2>3. call.before \in DbState /\ call.held \subseteq Txs /\ call.block \in BlockIds
    BY DEF CInv, StateOK, CallState
  <2>4. db \in DbState /\ disk \in DbState /\ undo \in Seq(DbState) /\ pending \subseteq Txs /\ pending_session \in BOOLEAN
    BY DEF CInv, HistOK
  <2>5. {undo[n] : n \in DOMAIN undo} \subseteq DbState
    BY <2>4
  <2>6. pc \in {"idle", "apply", "notify", "pop", "switch", "unwind", "redo", "restore", "rewind", "down"}
    BY DEF CInv, Control, Places
  <2> QED
    BY <2>1, <2>2, <2>3, <2>4, <2>5, <2>6 DEF TypeOK
<1> QED
  BY <1>1, ChainInvariance, PTL

\* Undoing one block always lands on its parent: the undo history holds one copy
\* per block of the chain, whatever failed, was pending, or was pushed by a
\* plugin from inside a notification.
THEOREM UndoTheorem == Spec => []UndoAligned
<1>1. CInv(DbState) => UndoAligned
  <2> SUFFICES ASSUME CInv(DbState) PROVE UndoAligned
    OBVIOUS
  <2> DEFINE u == Committed
             d == IF pending_session THEN Top(undo) ELSE db
             w == Append(u, d)
  <2>1. u \in Seq(DbState) /\ d \in DbState /\ Chainlike(w)
    <3>1. pending_session \in BOOLEAN /\ HistOK(DbState, undo, db, pending_session, pending)
      BY DEF CInv, HistOK
    <3>2. CASE pending_session
      <4>1. undo \in Seq(DbState) /\ undo # << >> /\ Chainlike(undo)
        BY <3>1, <3>2 DEF HistOK
      <4>2. u = Front(undo) /\ d = Top(undo)
        BY <3>2 DEF Committed
      <4>3. Front(undo) \in Seq(DbState) /\ Top(undo) \in DbState /\ Append(Front(undo), Top(undo)) = undo
        BY <4>1, FrontFacts
      <4> QED
        BY <4>1, <4>2, <4>3
    <3>3. CASE ~pending_session
      <4>1. undo \in Seq(DbState) /\ db \in DbState /\ Chainlike(Append(undo, db))
        BY <3>1, <3>3 DEF HistOK
      <4>2. u = undo /\ d = db
        BY <3>3 DEF Committed
      <4> QED
        BY <4>1, <4>2
    <3> QED
      BY <3>1, <3>2, <3>3
  <2>2. History = w
    BY DEF History
  <2> HIDE DEF u, d
  <2>3. Len(w) = Len(u) + 1 /\ Len(u) \in Nat
    BY <2>1, SeqFacts
  <2> HIDE DEF w
  <2>4. \A n \in 1 .. Len(u) : BlockStep(w[n], w[n + 1])
    BY <2>1, <2>3 DEF Chainlike
  <2>5. \A n \in 1 .. Len(u) : w[n + 1].head # None /\ Parent[w[n + 1].head] = w[n].head
    BY <2>4, TreeAssumption DEF BlockStep
  <2> QED
    BY <2>2, <2>5 DEF UndoAligned, u
<1> QED
  BY <1>1, ChainInvariance, PTL


-----------------------------------------------------------------------------
(* How far back the history goes.  w is the history, its last copy the     *)
(* state without pending transactions, m the limit, f the highest last     *)
(* irreversible block and s the block the node started from.  The numbers  *)
(* of the blocks are those of consecutive copies; the limit is wide enough *)
(* for the head as soon as there is something to undo.                     *)

Reaches(w, m, f, s) ==
  /\ \A i, j \in 1 .. Len(w) : Num[w[i].head] + j = Num[w[j].head] + i
  /\ Len(w) > 1 => m + f >= Num[Top(w).head] + 1
  /\ w[1].head = s \/ Num[w[1].head] <= f + 1

HistoryOf(u, d, ps) == IF ps THEN u ELSE Append(u, d)

ReachInv == pc \notin {"rewind", "down"} =>
              Reaches(HistoryOf(undo, db, pending_session), undo_max, final, base)

LEMMA HeadNumbers ==
  ASSUME NEW w \in Seq(DbState)
  PROVE  \A i \in 1 .. Len(w) : w[i].head \in BlockIds /\ Num[w[i].head] \in Nat
<1>1. ASSUME NEW i \in 1 .. Len(w) PROVE w[i].head \in BlockIds
  BY DbFields
<1> QED
  BY <1>1, Numbers

\* Forgetting old copies, as far as the limit asks.
LEMMA ReachesEnd ==
  ASSUME NEW w \in Seq(DbState), NEW v \in Seq(DbState), v # << >>, IsEnd(v, w),
         NEW m \in Nat, NEW f \in Nat, NEW s, Reaches(w, m, f, s),
         Len(v) = Len(w) \/ Len(v) >= m - 1
  PROVE  Reaches(v, m, f, s)
<1> DEFINE k == Len(w)
           n == Len(v)
           H(i) == Num[w[i].head]
<1>1. k \in Nat /\ n \in Nat /\ n <= k /\ n > 0 /\ \A i \in 1 .. n : v[i] = w[i + (k - n)]
  BY DEF IsEnd
<1>2. \A i, j \in 1 .. k : H(i) + j = H(j) + i
  BY DEF Reaches
<1>3. \A i \in 1 .. k : H(i) \in Nat
  BY HeadNumbers
<1>4. (k > 1 => m + f >= H(k) + 1) /\ (w[1].head = s \/ H(1) <= f + 1) /\ (n = k \/ n >= m - 1)
  BY DEF Reaches, Top
<1> HIDE DEF k, n
<1>5. \A i \in 1 .. n : i + (k - n) \in 1 .. k /\ Num[v[i].head] = H(i + (k - n))
  BY <1>1
<1> HIDE DEF H
<1>6. \A i, j \in 1 .. n : Num[v[i].head] + j = Num[v[j].head] + i
  <2> SUFFICES ASSUME NEW i \in 1 .. n, NEW j \in 1 .. n PROVE Num[v[i].head] + j = Num[v[j].head] + i
    OBVIOUS
  <2> DEFINE a == H(i + (k - n))
             c == H(j + (k - n))
  <2>1. a + (j + (k - n)) = c + (i + (k - n))
    BY <1>2, <1>5
  <2>2. a \in Nat /\ c \in Nat
    BY <1>3, <1>5
  <2>3. Num[v[i].head] = a /\ Num[v[j].head] = c
    BY <1>5
  <2>4. i \in Nat /\ j \in Nat
    OBVIOUS
  <2> HIDE DEF a, c
  <2>5. a + j = c + i
    BY <1>1, <2>1, <2>2, <2>4
  <2> QED
    BY <2>3, <2>5
<1>7. v[n] = w[k] /\ n \in 1 .. n
  <2>1. n \in 1 .. n /\ n + (k - n) = k
    BY <1>1
  <2> QED
    BY <1>1, <2>1
<1>8. n > 1 => m + f >= Num[v[n].head] + 1
  BY <1>1, <1>4, <1>7 DEF H
<1>9. v[1].head = s \/ Num[v[1].head] <= f + 1
  <2>1. CASE n = k
    <3>1. 1 \in 1 .. n /\ 1 + (k - n) = 1
      BY <1>1, <2>1
    <3>2. v[1] = w[1]
      BY <1>1, <3>1
    <3> QED
      BY <1>4, <3>2 DEF H
  <2>2. CASE n # k
    <3>1. k > 1 /\ n >= m - 1 /\ 1 + (k - n) \in 1 .. k /\ k \in 1 .. k
      BY <1>1, <1>4, <2>2
    <3>2. H(1 + (k - n)) + k = H(k) + (1 + (k - n)) /\ H(k) \in Nat /\ H(1 + (k - n)) \in Nat
      BY <1>2, <1>3, <3>1
    <3>3. H(1 + (k - n)) <= f + 1
      BY <1>1, <1>4, <3>1, <3>2
    <3>4. Num[v[1].head] = H(1 + (k - n))
      BY <1>1, <1>5
    <3> QED
      BY <3>3, <3>4
  <2> QED
    BY <2>1, <2>2
<1> QED
  BY <1>6, <1>8, <1>9 DEF Reaches, Top, n

\* The last copy is replaced by one with the same head.
LEMMA ReachesHead ==
  ASSUME NEW u \in Seq(DbState), NEW d \in DbState, NEW e \in DbState, e.head = d.head,
         NEW m, NEW f, NEW s, Reaches(Append(u, d), m, f, s)
  PROVE  Reaches(Append(u, e), m, f, s)
<1> DEFINE w == Append(u, d)
           v == Append(u, e)
           n == Len(u) + 1
<1>1. /\ Len(w) = n /\ Len(v) = n /\ n \in Nat /\ n > 0 /\ w[n] = d /\ v[n] = e
      /\ \A i \in 1 .. (n - 1) : w[i] = u[i] /\ v[i] = u[i]
  BY SeqFacts
<1> HIDE DEF w, v, n
<1>2. \A i \in 1 .. n : v[i].head = w[i].head
  <2> SUFFICES ASSUME NEW i \in 1 .. n PROVE v[i].head = w[i].head
    OBVIOUS
  <2>1. i = n \/ i \in 1 .. (n - 1)
    BY <1>1
  <2> QED
    BY <1>1, <2>1
<1>3. 1 \in 1 .. n /\ n \in 1 .. n
  BY <1>1
<1>4. Reaches(w, m, f, s)
  BY DEF w
<1>5. Reaches(v, m, f, s)
  BY <1>1, <1>2, <1>3, <1>4 DEF Reaches, Top
<1> QED
  BY <1>5 DEF v

\* A block on top, with the limit it sets.
LEMMA ReachesBlock ==
  ASSUME NEW w \in Seq(DbState), w # << >>, NEW e \in DbState, e.head \in Blocks, Parent[e.head] = Top(w).head,
         NEW m, NEW f \in Nat, NEW s, Reaches(w, m, f, s)
  PROVE  Reaches(Append(w, e), HistorySize(e.head), Larger(f, Lib[e.head]), s)
<1> DEFINE b == e.head
           n == Len(w)
           v == Append(w, e)
           g == Larger(f, Lib[b])
           H(i) == Num[v[i].head]
<1>1. /\ n \in Nat /\ n > 0 /\ Len(v) = n + 1 /\ v[n + 1] = e /\ \A i \in 1 .. n : v[i] = w[i]
  BY SeqFacts
<1>2. Num[b] = Num[Parent[b]] + 1 /\ Num[Parent[b]] \in Nat /\ Num[b] \in Nat
  BY Numbers
<1>3. Lib[Parent[b]] \in Nat /\ Lib[b] \in Nat /\ Lib[Parent[b]] <= Lib[b]
  BY Numbers, LibAssumption DEF BlockIds
<1>4. g \in Nat /\ g >= f /\ g >= Lib[b]
  BY <1>3 DEF Larger
<1>5. HistorySize(b) + g >= Num[b] + 1
  <2>1. HistorySize(b) = Num[b] - Lib[Parent[b]] + 1
    BY DEF HistorySize
  <2> HIDE DEF b, g
  <2>2. PICK p \in Nat : p = Lib[Parent[b]]
    BY <1>3
  <2>3. PICK q \in Nat : q = Num[b]
    BY <1>2
  <2>4. g \in Nat /\ p <= g
    <3>1. PICK l \in Nat : l = Lib[b] /\ p <= l /\ l <= g
      BY <1>3, <1>4, <2>2
    <3> QED
      BY <1>4, <3>1
  <2>5. HistorySize(b) = q - p + 1
    BY <2>1, <2>2, <2>3
  <2>6. q - p + 1 + g >= q + 1
    BY <2>4
  <2> QED
    BY <2>3, <2>5, <2>6
<1>6. \A i \in 1 .. n : Num[w[i].head] \in Nat
  BY HeadNumbers
<1>7. (\A i, j \in 1 .. n : Num[w[i].head] + j = Num[w[j].head] + i) /\ (w[1].head = s \/ Num[w[1].head] <= f + 1)
  BY DEF Reaches
<1>8. Num[b] = Num[w[n].head] + 1
  BY <1>2 DEF Top
<1> HIDE DEF v, g, n, b
<1>9. (\A i \in 1 .. n : H(i) = Num[w[i].head]) /\ H(n + 1) = Num[w[n].head] + 1 /\ v[1].head = w[1].head
  BY <1>1, <1>8 DEF b
<1> HIDE DEF H
<1>10. \A i, j \in 1 .. (n + 1) : H(i) + j = H(j) + i
  <2>1. \A i, j \in 1 .. n : H(i) + j = H(j) + i
    BY <1>7, <1>9
  <2>2. ASSUME NEW i \in 1 .. n PROVE H(i) + (n + 1) = H(n + 1) + i
    <3>1. n \in 1 .. n
      BY <1>1
    <3>2. Num[w[i].head] + n = Num[w[n].head] + i /\ Num[w[i].head] \in Nat /\ Num[w[n].head] \in Nat
      BY <1>6, <1>7, <3>1
    <3> DEFINE a == Num[w[i].head]
               c == Num[w[n].head]
    <3>3. a + n = c + i /\ a \in Nat /\ c \in Nat /\ i \in Nat /\ H(i) = a /\ H(n + 1) = c + 1
      BY <1>9, <3>2
    <3> HIDE DEF a, c
    <3>4. a + (n + 1) = (c + 1) + i
      BY <1>1, <3>3
    <3> QED
      BY <3>3, <3>4
  <2> SUFFICES ASSUME NEW i \in 1 .. (n + 1), NEW j \in 1 .. (n + 1) PROVE H(i) + j = H(j) + i
    OBVIOUS
  <2>3. (i \in 1 .. n \/ i = n + 1) /\ (j \in 1 .. n \/ j = n + 1)
    BY <1>1
  <2> QED
    BY <2>1, <2>2, <2>3
<1>11. v[1].head = s \/ Num[v[1].head] <= g + 1
  <2>1. Num[w[1].head] \in Nat
    BY <1>1, <1>6
  <2> QED
    BY <1>4, <1>7, <1>9, <2>1
<1>12. HistorySize(b) + g >= Num[Top(v).head] + 1
  BY <1>1, <1>5 DEF Top, b
<1> QED
  BY <1>1, <1>10, <1>11, <1>12 DEF Reaches, H, v, g, b

\* A block off the top.
LEMMA ReachesPop ==
  ASSUME NEW u \in Seq(DbState), u # << >>, NEW d \in DbState, NEW m \in Nat, NEW f \in Nat, NEW s, Reaches(Append(u, d), m, f, s)
  PROVE  Reaches(u, m, f, s)
<1> DEFINE w == Append(u, d)
           n == Len(u)
<1>1. w \in Seq(DbState) /\ n \in Nat /\ n > 0 /\ Len(w) = n + 1 /\ w[n + 1] = d /\ \A i \in 1 .. n : w[i] = u[i]
  BY SeqFacts
<1> HIDE DEF w, n
<1>2. /\ \A i, j \in 1 .. (n + 1) : Num[w[i].head] + j = Num[w[j].head] + i
      /\ m + f >= Num[d.head] + 1
      /\ w[1].head = s \/ Num[w[1].head] <= f + 1
  BY <1>1 DEF Reaches, Top, w
<1>3. \A i \in 1 .. (n + 1) : Num[w[i].head] \in Nat
  BY <1>1, HeadNumbers
<1>4. \A i \in 1 .. n : i \in 1 .. (n + 1) /\ Num[u[i].head] = Num[w[i].head]
  BY <1>1
<1>5. \A i, j \in 1 .. n : Num[u[i].head] + j = Num[u[j].head] + i
  BY <1>2, <1>4
<1>6. m + f >= Num[u[n].head] + 1
  <2>1. n \in 1 .. n /\ n \in 1 .. (n + 1) /\ n + 1 \in 1 .. (n + 1)
    BY <1>1
  <2>2. Num[w[n].head] + (n + 1) = Num[w[n + 1].head] + n /\ Num[w[n].head] \in Nat /\ Num[w[n + 1].head] \in Nat
    BY <1>2, <1>3, <2>1
  <2>3. Num[w[n + 1].head] = Num[w[n].head] + 1
    BY <1>1, <2>2
  <2> QED
    BY <1>1, <1>2, <1>4, <2>1, <2>2, <2>3
<1>7. u[1] = w[1]
  BY <1>1
<1> QED
  BY <1>2, <1>5, <1>6, <1>7 DEF Reaches, Top, n

\* A session on top, under the limit or one short of it.
LEMMA ReachesStart ==
  ASSUME NEW u \in Seq(DbState), NEW d \in DbState, NEW m \in Nat, NEW f \in Nat, NEW s,
         Reaches(Append(u, d), m, f, s), NEW l \in Nat, l >= m - 1
  PROVE  Reaches(Start(u, l, d), m, f, s) /\ Start(u, l, d) \in Seq(DbState) /\ Start(u, l, d) # << >>
<1> DEFINE w == Append(u, d)
           v == Start(u, l, d)
<1>1. w \in Seq(DbState) /\ Len(w) = Len(u) + 1 /\ Len(u) \in Nat
  BY SeqFacts
<1>2. /\ Start(u, l, d) \in Seq(DbState) /\ IsEnd(Start(u, l, d), Append(u, d))
      /\ Start(u, l, d) # << >> /\ Len(Start(u, l, d)) = Smaller(l, Len(u)) + 1
  <2>1. Start(u, l, d) \in Seq(DbState)
    BY StartEnd
  <2>2. IsEnd(Start(u, l, d), Append(u, d))
    BY StartEnd
  <2>3. Start(u, l, d) # << >>
    BY StartEnd
  <2>4. Len(Start(u, l, d)) = Smaller(l, Len(u)) + 1
    BY StartEnd
  <2> HIDE DEF v, w
  <2> QED
    BY <2>1, <2>2, <2>3, <2>4, Zenon
<1> HIDE DEF v, w
<1>6. v \in Seq(DbState) /\ IsEnd(v, w) /\ v # << >> /\ Len(v) = Smaller(l, Len(u)) + 1
  BY <1>2, Zenon DEF v, w
<1>3. Len(v) = Len(w) \/ Len(v) >= m - 1
  BY <1>1, <1>6 DEF Smaller
<1>4. Reaches(w, m, f, s)
  BY DEF w
<1>5. Reaches(v, m, f, s)
  BY <1>1, <1>3, <1>4, <1>6, ReachesEnd
<1> QED
  BY <1>5, <1>6 DEF v

\* What the steps below know of the state they start from.
LEMMA ReachFacts ==
  ASSUME CInv(DbState)
  PROVE  /\ undo \in Seq(DbState) /\ db \in DbState /\ pending_session \in BOOLEAN
         /\ undo_max \in Nat /\ undo_max >= 2 /\ final \in Nat
         /\ pending_session => undo # << >> /\ Append(Front(undo), Top(undo)) = undo
                              /\ Front(undo) \in Seq(DbState) /\ Top(undo) \in DbState
<1>1. undo \in Seq(DbState) /\ db \in DbState /\ pending_session \in BOOLEAN /\ (pending_session => undo # << >>)
  BY DEF CInv, HistOK
<1> QED
  BY <1>1, FrontFacts DEF CInv, StateOK

LEMMA RPushBlock ==
  ASSUME CInv(DbState), ReachInv, NEW b \in Blocks, PushBlock(b) PROVE ReachInv'
<1>1. /\ pc = "idle" /\ db' = ClearedDb /\ undo' = ClearedUndo /\ pending_session' = FALSE
      /\ undo_max' = undo_max /\ base' = base /\ final' = final
  BY DEF PushBlock, node
<1>2. HistoryOf(undo', db', pending_session') = HistoryOf(undo, db, pending_session)
  <2>1. CASE pending_session
    BY <1>1, <2>1, ReachFacts DEF HistoryOf, ClearedDb, ClearedUndo
  <2>2. CASE ~pending_session
    BY <1>1, <2>2 DEF HistoryOf, ClearedDb, ClearedUndo
  <2> QED
    BY <2>1, <2>2
<1>3. Reaches(HistoryOf(undo, db, pending_session), undo_max, final, base)
  BY <1>1 DEF ReachInv
<1>4. Reaches(HistoryOf(undo', db', pending_session'), undo_max', final', base')
  BY <1>1, <1>2, <1>3
<1> QED
  BY <1>4 DEF ReachInv

\* A running push_block holds no pending session until its end.
LEMMA RQuiet ==
  ASSUME CInv(DbState), ReachInv, pc \in {"apply", "notify", "pop", "switch", "unwind", "redo"}
  PROVE  pending_session = FALSE /\ Reaches(Append(undo, db), undo_max, final, base)
<1>1. pending_session = FALSE
  BY ReachFacts DEF CInv, Control
<1> QED
  BY <1>1 DEF ReachInv, HistoryOf

LEMMA RApplied ==
  ASSUME CInv(DbState), pending_session = FALSE, Reaches(Append(undo, db), undo_max, final, base),
         NEW b \in Blocks, NEW id, Applies(b, db), ApplyAndStore(b, id), UNCHANGED <<mempool, node>>
  PROVE  ReachInv'
<1> DEFINE v == Start(undo, BlockLimit(b), db)
           e == Applied(b, db)
<1>1. /\ db' = e /\ undo' = v /\ undo_max' = HistorySize(b) /\ final' = Larger(final, Lib[b])
      /\ pending_session' = FALSE /\ base' = base
  BY DEF ApplyAndStore, mempool, node
<1>2. BlockLimit(b) \in Nat /\ BlockLimit(b) >= undo_max - 1
  BY ReachFacts DEF BlockLimit
<1>3. Reaches(v, undo_max, final, base) /\ v \in Seq(DbState) /\ v # << >>
  BY <1>2, ReachFacts, ReachesStart
<1>4. Top(v) = db
  BY <1>2, ReachFacts, StartEnd
<1>5. e \in DbState /\ e.head = b /\ Parent[b] = db.head
  BY AnyState, ReachFacts DEF Closed, Applied, Applies, DbState, BlockIds
<1> HIDE DEF v, e
<1>6. Reaches(Append(v, e), HistorySize(e.head), Larger(final, Lib[e.head]), base)
  BY <1>3, <1>4, <1>5, ReachFacts, ReachesBlock
<1>7. Reaches(HistoryOf(undo', db', pending_session'), undo_max', final', base')
  BY <1>1, <1>5, <1>6 DEF HistoryOf
<1> QED
  BY <1>7 DEF ReachInv

LEMMA RFails ==
  ASSUME CInv(DbState), pending_session = FALSE, Reaches(Append(undo, db), undo_max, final, base),
         NEW l \in Nat, l >= undo_max - 1, undo' = Trim(undo, l), NEW e \in DbState, e.head = db.head,
         db' = e, UNCHANGED <<undo_max, base, final>>, pending_session' = FALSE
  PROVE  ReachInv'
<1>1. Reaches(Start(undo, l, db), undo_max, final, base)
  BY ReachFacts, ReachesStart
<1>2. Trim(undo, l) \in Seq(DbState) /\ Start(undo, l, db) = Append(Trim(undo, l), db)
  BY ReachFacts, TrimEnd DEF Start
<1>3. Reaches(Append(Trim(undo, l), e), undo_max, final, base)
  BY <1>1, <1>2, ReachFacts, ReachesHead
<1>4. Reaches(HistoryOf(undo', db', pending_session'), undo_max', final', base')
  BY <1>3 DEF HistoryOf
<1> QED
  BY <1>4 DEF ReachInv

LEMMA RNotify ==
  ASSUME CInv(DbState), ReachInv, Notify PROVE ReachInv'
<1> DEFINE b == call.block
           recorded == IF b \in Seeded THEN [db EXCEPT !.records = @ \cup {b}] ELSE db
           own == Start(undo, undo_max, db)
           t == KeyTx[b]
<1>1. /\ pc = "notify" /\ undo_max' = undo_max /\ base' = base /\ final' = final
      /\ \/ /\ b \in Bought /\ pending_session' = TRUE
            /\ undo' = Front(Nested(Start(own, undo_max, recorded), undo_max, {t}))
         \/ /\ db' = recorded /\ undo' = Front(own) /\ pending_session' = pending_session
  BY DEF Notify, node
<1>2. pending_session = FALSE /\ Reaches(Append(undo, db), undo_max, final, base)
  BY <1>1, RQuiet
<1>3. recorded \in DbState /\ recorded.head = db.head
  BY <1>1, ReachFacts DEF DbState, CInv, Control
<1>4. b \in Bought => t \notin ProposalTxs
  BY PluginAssumption
<1> HIDE DEF recorded
<1>5. Reaches(own, undo_max, final, base) /\ own \in Seq(DbState) /\ own # << >> /\ Front(own) = Trim(undo, undo_max)
  <2>1. undo_max >= undo_max - 1
    BY ReachFacts
  <2> QED
    BY <1>2, <2>1, ReachFacts, ReachesStart, StartEnd
<1>6. CASE /\ b \in Bought /\ pending_session' = TRUE
           /\ undo' = Front(Nested(Start(own, undo_max, recorded), undo_max, {t}))
  <2> DEFINE q == Start(own, undo_max, recorded)
             x == Front(Trim(q, undo_max))
  <2>1. undo' = x
    BY <1>4, <1>6 DEF Nested
  <2>2. Chainlike(own)
    <3>1. undo \in Seq(DbState) /\ Chainlike(Append(undo, db))
      BY <1>2 DEF CInv, HistOK
    <3> QED
      BY <3>1, ReachFacts, StartChain
  <2> HIDE DEF own
  <2>3. q = Start(own, undo_max, recorded) /\ x = Front(Trim(q, undo_max))
    OBVIOUS
  <2> HIDE DEF q, x
  <2>4. x \in Seq(DbState) /\ x # << >> /\ IsEnd(x, own) /\ (Len(x) = Len(own) \/ Len(x) >= undo_max - 1)
    BY <1>3, <1>5, <2>2, <2>3, ReachFacts, TwoSessions
  <2>5. Reaches(x, undo_max, final, base)
    BY <1>5, <2>4, ReachFacts, ReachesEnd
  <2>6. Reaches(HistoryOf(undo', db', pending_session'), undo_max', final', base')
    BY <1>1, <1>6, <2>1, <2>5 DEF HistoryOf
  <2> QED
    BY <2>6 DEF ReachInv
<1>7. CASE db' = recorded /\ undo' = Front(own) /\ pending_session' = pending_session
  <2>1. undo_max >= undo_max - 1 /\ undo_max \in Nat
    BY ReachFacts
  <2>2. undo' = Trim(undo, undo_max)
    BY <1>5, <1>7
  <2> HIDE DEF own
  <2> QED
    BY <1>1, <1>2, <1>3, <1>7, <2>1, <2>2, RFails
<1> QED
  BY <1>1, <1>6, <1>7

LEMMA RPop ==
  ASSUME CInv(DbState), ReachInv, pc \in {"pop", "unwind"}, PopBlock, UNCHANGED <<mempool, node, final>>
  PROVE  ReachInv'
<1>1. /\ undo # << >> /\ db' = Top(undo) /\ undo' = Front(undo) /\ undo_max' = undo_max
      /\ pending_session' = pending_session /\ base' = base /\ final' = final
  BY DEF PopBlock, mempool, node
<1>2. pending_session = FALSE /\ Reaches(Append(undo, db), undo_max, final, base)
  BY RQuiet
<1>3. Reaches(undo, undo_max, final, base)
  BY <1>1, <1>2, ReachFacts, ReachesPop
<1>4. Append(Front(undo), Top(undo)) = undo
  BY <1>1, ReachFacts, FrontFacts
<1>5. Reaches(HistoryOf(undo', db', pending_session'), undo_max', final', base')
  BY <1>1, <1>2, <1>3, <1>4 DEF HistoryOf
<1> QED
  BY <1>5 DEF ReachInv

LEMMA RPending ==
  ASSUME CInv(DbState), ReachInv, pc \in {"idle", "restore"}, NEW ts,
         undo' = Nested(PendingOpened(db), undo_max, ts), pending_session' = TRUE, UNCHANGED <<undo_max, base, final>>
  PROVE  ReachInv'
<1> DEFINE v == PendingOpened(db)
<1>1. Reaches(v, undo_max, final, base) /\ v \in Seq(DbState) /\ v # << >>
  <2>1. CASE pending_session
    BY <2>1, ReachFacts DEF PendingOpened, ReachInv, HistoryOf
  <2>2. CASE ~pending_session
    <3>1. Reaches(Append(undo, db), undo_max, final, base) /\ v = Start(undo, undo_max, db)
      BY <2>2 DEF ReachInv, HistoryOf, PendingOpened
    <3>2. undo_max >= undo_max - 1
      BY ReachFacts
    <3> QED
      BY <3>1, <3>2, ReachFacts, ReachesStart
  <2> QED
    BY <2>1, <2>2
<1> DEFINE x == Nested(v, undo_max, ts)
<1> HIDE DEF v
<1>2. x \in Seq(DbState) /\ IsEnd(x, v) /\ x # << >> /\ (Len(x) = Len(v) \/ Len(x) >= undo_max - 1)
  BY <1>1, ReachFacts, NestedEnd
<1> HIDE DEF x
<1>3. Reaches(x, undo_max, final, base)
  BY <1>1, <1>2, ReachFacts, ReachesEnd
<1>4. Reaches(HistoryOf(undo', db', pending_session'), undo_max', final', base')
  BY <1>3 DEF HistoryOf, x, v
<1> QED
  BY <1>4 DEF ReachInv

\* A start: nothing to undo, from the head the node has then.
LEMMA RStarts ==
  ASSUME CInv(DbState), pc = "down", db' \in DbState, UNCHANGED <<undo, mempool>>, base' = db'.head
  PROVE  ReachInv'
<1>1. undo' = << >> /\ pending_session' = FALSE
  BY ReachFacts DEF CInv, Control, mempool
<1> DEFINE w == Append(<< >>, db')
<1>2. Len(w) = 1 /\ w[1] = db' /\ w \in Seq(DbState)
  OBVIOUS
<1>3. Num[db'.head] \in Nat
  BY DbFields, Numbers
<1> HIDE DEF w
<1>4. Reaches(w, undo_max', final', base')
  BY <1>2, <1>3 DEF Reaches
<1>5. Reaches(HistoryOf(undo', db', pending_session'), undo_max', final', base')
  BY <1>1, <1>4 DEF HistoryOf, w
<1> QED
  BY <1>5 DEF ReachInv

LEMMA RStep ==
  ASSUME CInv(DbState), ReachInv, [Next]_vars PROVE ReachInv'
<1>0. ASSUME UNCHANGED <<undo, db, pending_session, undo_max, final, base>>, pc \notin {"rewind", "down"} PROVE ReachInv'
  <2>1. Reaches(HistoryOf(undo', db', pending_session'), undo_max', final', base')
    BY <1>0 DEF ReachInv
  <2> QED
    BY <2>1 DEF ReachInv
<1>1. ASSUME NEW b \in Blocks, PushBlock(b) PROVE ReachInv'
  BY <1>1, RPushBlock
<1>2. CASE ApplyNew
  <2>1. pc = "apply" /\ Applies(call.block, db) /\ ApplyAndStore(call.block, call.block) /\ UNCHANGED <<mempool, node>>
    BY <1>2 DEF ApplyNew
  <2>2. call.block \in Blocks
    BY <2>1 DEF CInv, Control
  <2> QED
    BY <2>1, <2>2, RQuiet, RApplied
<1>3. CASE ApplyNewFails
  <2>1. /\ pc = "apply" /\ undo' \in {Trim(undo, m) : m \in {undo_max, BlockLimit(call.block)}} /\ db' = db
        /\ UNCHANGED <<undo_max, base, final>> /\ pending_session' = pending_session
    BY <1>3 DEF ApplyNewFails, mempool, node
  <2>2. PICK m \in {undo_max, BlockLimit(call.block)} : undo' = Trim(undo, m)
    BY <2>1
  <2>3. m \in Nat /\ m >= undo_max - 1
    BY ReachFacts DEF BlockLimit
  <2>4. pending_session = FALSE /\ Reaches(Append(undo, db), undo_max, final, base)
    BY <2>1, RQuiet
  <2> QED
    BY <2>1, <2>2, <2>3, <2>4, ReachFacts, RFails
<1>4. CASE SwitchPop \/ UnwindPop
  <2>1. pc \in {"pop", "unwind"} /\ PopBlock /\ UNCHANGED <<mempool, node, final>>
    BY <1>4 DEF SwitchPop, UnwindPop
  <2> QED
    BY <2>1, RPop
<1>5. CASE SwitchApply
  <2> DEFINE b == call.first[call.next]
  <2>1. pc \in {"pop", "switch"} /\ Applies(b, db) /\ ApplyAndStore(b, b) /\ UNCHANGED <<mempool, node>>
    BY <1>5 DEF SwitchApply
  <2>2. b \in Blocks
    BY <2>1, LoopBlock DEF CInv, StateOK, CallState, Control
  <2> HIDE DEF b
  <2> QED
    BY <2>1, <2>2, RQuiet, RApplied
<1>6. CASE SwitchFails
  <2> DEFINE l == BlockLimit(call.first[call.next])
  <2>1. /\ pc \in {"pop", "switch"} /\ undo' \in {Trim(undo, m) : m \in {undo_max, l}} /\ db' = db
        /\ UNCHANGED <<undo_max, base, final>> /\ pending_session' = pending_session
    BY <1>6 DEF SwitchFails, mempool, node
  <2>2. PICK m \in {undo_max, l} : undo' = Trim(undo, m)
    BY <2>1
  <2>3. m \in Nat /\ m >= undo_max - 1
    BY ReachFacts DEF BlockLimit
  <2>4. pending_session = FALSE /\ Reaches(Append(undo, db), undo_max, final, base)
    BY <2>1, RQuiet
  <2> HIDE DEF l
  <2> QED
    BY <2>1, <2>2, <2>3, <2>4, ReachFacts, RFails
<1>7. CASE UnwindApply
  <2> DEFINE b == call.second[call.next]
  <2>1. pc \in {"unwind", "redo"} /\ Applies(b, db) /\ ApplyAndStore(b, call.block) /\ UNCHANGED <<mempool, node>>
    BY <1>7 DEF UnwindApply
  <2>2. b \in Blocks
    BY <2>1, LoopBlock DEF CInv, StateOK, CallState, Control
  <2> HIDE DEF b
  <2> QED
    BY <2>1, <2>2, RQuiet, RApplied
<1>8. CASE SwitchThrows
  <2>1. UNCHANGED <<undo, db, pending_session, undo_max, final, base>> /\ pc \notin {"rewind", "down"}
    BY <1>8 DEF SwitchThrows, mempool, node
  <2> QED
    BY <1>0, <2>1
<1>9. CASE Restore
  <2>1. /\ pc = "restore" /\ UNCHANGED <<undo_max, base, final>> /\ pending_session' = (pending_session \/ ToRestore # {})
        /\ undo' = (IF ToRestore = {} THEN undo ELSE Nested(PendingOpened(db), undo_max, ToRestore))
        /\ db' = [db EXCEPT !.txs = @ \cup ToRestore]
    BY <1>9 DEF Restore, node
  <2>2. CASE ToRestore = {}
    <3>1. db' = db
      BY <2>1, <2>2, ReachFacts DEF DbState
    <3>2. pending_session' = pending_session /\ undo' = undo
      BY <2>1, <2>2, ReachFacts
    <3> QED
      BY <1>0, <2>1, <3>1, <3>2
  <2>3. CASE ToRestore # {}
    BY <2>1, <2>3, RPending
  <2> QED
    BY <2>2, <2>3
<1>10. ASSUME NEW t \in Txs, PushTransaction(t) PROVE ReachInv'
  <2>1. /\ pc = "idle" /\ UNCHANGED <<undo_max, base, final>> /\ pending_session' = TRUE
        /\ undo' = Nested(PendingOpened(db), undo_max, {t} \ db.txs)
    BY <1>10 DEF PushTransaction, node
  <2> QED
    BY <2>1, RPending
<1>11. CASE Close \/ Rewind \/ Flush \/ Crash
  BY <1>11 DEF Close, Rewind, Flush, Crash, ReachInv
<1>12. CASE Open
  BY <1>12, RStarts, ReachFacts DEF Open, mempool
<1>13. CASE Reindex
  <2>1. db' \in DbState
    BY <1>13, ReplayedState DEF CInv
  <2>2. pc = "down" /\ UNCHANGED <<undo, mempool>> /\ base' = db'.head
    BY <1>13, ReindexSteps DEF mempool, Genesis
  <2> QED
    BY <2>1, <2>2, RStarts
<1>14. CASE UNCHANGED vars
  <2>1. UNCHANGED <<undo, db, pending_session, undo_max, final, base, pc>>
    BY <1>14 DEF vars
  <2> QED
    BY <2>1 DEF ReachInv
<1>15. CASE Notify
  BY <1>15, RNotify
<1> QED
  BY <1>1, <1>2, <1>3, <1>4, <1>5, <1>6, <1>7, <1>8, <1>9, <1>10, <1>11, <1>12, <1>13, <1>14, <1>15
     DEF Next, PushStep

\* On every tree, with proposals, plugin pushes, failed switches and restarts:
\* at most one block that was always reversible is beyond the undo history.
THEOREM ReversibleTheorem == Spec => []ReversibleUndoable
<1>1. Init => ReachInv
  <2> SUFFICES ASSUME Init PROVE ReachInv
    OBVIOUS
  <2>1. undo = << >> /\ db = Genesis /\ pending_session = FALSE /\ base = None
    BY DEF Init
  <2>2. Genesis.head = None /\ Num[None] \in Nat
    BY Numbers DEF Genesis
  <2> DEFINE w == Append(<< >>, db)
  <2>3. Len(w) = 1 /\ w[1] = db
    OBVIOUS
  <2> HIDE DEF w
  <2>4. Reaches(w, undo_max, final, base)
    BY <2>1, <2>2, <2>3 DEF Reaches
  <2> QED
    BY <2>1, <2>4 DEF ReachInv, HistoryOf, w
<1>2. CInv(DbState) /\ ReachInv /\ [Next]_vars => ReachInv'
  BY RStep
<1>3. CInv(DbState) /\ ReachInv => ReversibleUndoable
  <2> SUFFICES ASSUME CInv(DbState), ReachInv, pc = "idle"
               PROVE  History[1].head = base \/ Num[History[1].head] <= final + 1
    BY DEF ReversibleUndoable
  <2>1. HistoryOf(undo, db, pending_session) = History
    <3>1. CASE pending_session
      BY <3>1, ReachFacts DEF HistoryOf, History, Committed
    <3>2. CASE ~pending_session
      BY <3>2 DEF HistoryOf, History, Committed
    <3> QED
      BY <3>1, <3>2
  <2>2. Reaches(HistoryOf(undo, db, pending_session), undo_max, final, base)
    BY DEF ReachInv
  <2>3. Reaches(History, undo_max, final, base)
    BY <2>1, <2>2
  <2> HIDE DEF History
  <2> QED
    BY <2>3 DEF Reaches
<1> QED
  BY <1>1, <1>2, <1>3, ChainInvariance, PTL DEF Spec


-----------------------------------------------------------------------------
(* No accepted transaction is lost.                                        *)

Running == pc' \notin {"rewind", "down"} /\ pc # "down" /\ pc # "rewind"

LEMMA AppliedKeeps ==
  ASSUME NEW d \in DbState, NEW b \in Blocks
  PROVE  d.txs \subseteq Applied(b, d).txs
  BY DEF Applied, DbState

LEMMA AcceptedKept ==
  ASSUME CInv(DbState), [Next]_vars, Running PROVE Accepted \subseteq Accepted'
<1>0. db \in DbState /\ call \in CallState
  BY DEF CInv, HistOK, StateOK
<1>1. ASSUME NEW b \in Blocks, PushBlock(b) PROVE Accepted \subseteq Accepted'
  <2>1. db.txs = ClearedDb.txs \cup pending
    BY Cleared, AnyState DEF CInv
  <2>2. pc = "idle" /\ db' = ClearedDb /\ popped' = popped /\ call'.held = pending
    BY <1>1, NoCallType DEF PushBlock, CallState
  <2>3. call.held = {}
    BY <2>2 DEF CInv, Control
  <2> QED
    BY <2>1, <2>2, <2>3 DEF Accepted
<1>2. ASSUME ApplyNew \/ SwitchApply \/ UnwindApply PROVE Accepted \subseteq Accepted'
  <2>1. PICK b \in Blocks : db' = Applied(b, db) /\ popped' = popped /\ pending' = pending /\ call'.held = call.held
    <3>1. CASE ApplyNew
      <4>1. call.block \in Blocks
        BY <3>1 DEF ApplyNew, CInv, Control
      <4> QED
        BY <3>1, <4>1 DEF ApplyNew, ApplyAndStore, mempool
    <3>2. CASE SwitchApply
      <4>1. call.first \in Seq(Blocks) /\ call.next \in 1 .. Len(call.first)
        BY <3>2 DEF SwitchApply, CInv, Control, StateOK, CallState
      <4>2. call.first[call.next] \in Blocks
        BY <4>1, LoopBlock
      <4>3. call'.held = call.held
        BY <1>0, <3>2 DEF SwitchApply, CallState
      <4> QED
        BY <3>2, <4>2, <4>3 DEF SwitchApply, ApplyAndStore, mempool
    <3>3. CASE UnwindApply
      <4>1. call.second \in Seq(Blocks) /\ call.next \in 1 .. Len(call.second)
        BY <3>3 DEF UnwindApply, CInv, Control, StateOK, CallState
      <4>2. call.second[call.next] \in Blocks
        BY <4>1, LoopBlock
      <4>3. call'.held = call.held
        BY <1>0, <3>3 DEF UnwindApply, CallState
      <4> QED
        BY <3>3, <4>2, <4>3 DEF UnwindApply, ApplyAndStore, mempool
    <3> QED
      BY <1>2, <3>1, <3>2, <3>3
  <2>2. db.txs \subseteq db'.txs
    BY <1>0, <2>1, AppliedKeeps
  <2> QED
    BY <2>1, <2>2 DEF Accepted
<1>3. ASSUME ApplyNewFails \/ SwitchFails \/ SwitchThrows PROVE Accepted \subseteq Accepted'
  <2>1. db' = db /\ pending' = pending /\ popped' = popped
    BY <1>3 DEF ApplyNewFails, SwitchFails, SwitchThrows, mempool
  <2>2. call'.held = call.held
    BY <1>0, <1>3 DEF ApplyNewFails, SwitchFails, SwitchThrows, CallState
  <2> QED
    BY <2>1, <2>2 DEF Accepted
<1>4. ASSUME Notify PROVE Accepted \subseteq Accepted'
  <2>1. ~pending_session
    BY <1>4 DEF CInv, Control, Notify
  <2>2. pending = {}
    BY <2>1, Quiet
  <2>3. popped' = popped /\ call'.held = call.held
    BY <1>0, <1>4 DEF Notify, CallState
  <2> DEFINE b == call.block
             recorded == IF b \in Seeded THEN [db EXCEPT !.records = @ \cup {b}] ELSE db
  <2>4. recorded.txs = db.txs /\ [recorded EXCEPT !.txs = @ \cup {KeyTx[b]}].txs = db.txs \cup {KeyTx[b]}
    BY <1>0 DEF DbState
  <2>5. db' = recorded \/ db' = [recorded EXCEPT !.txs = @ \cup {KeyTx[b]}]
    BY <1>4 DEF Notify
  <2>6. db.txs \subseteq db'.txs
    <3> HIDE DEF recorded
    <3> QED
      BY <2>4, <2>5
  <2> QED
    BY <2>2, <2>3, <2>6 DEF Accepted
<1>5. ASSUME SwitchPop \/ UnwindPop PROVE Accepted \subseteq Accepted'
  <2>1. BlockStep(db', db)
    BY <1>5, CPop, AnyState
  <2>2. popped' = popped \cup BlockTxs[db.head] /\ call' = call /\ pending' = pending
    BY <1>5 DEF SwitchPop, UnwindPop, PopBlock, mempool
  <2>3. db.txs \subseteq db'.txs \cup BlockTxs[db.head]
    BY <2>1 DEF BlockStep
  <2> QED
    BY <2>2, <2>3 DEF Accepted
<1>6. ASSUME Restore PROVE Accepted \subseteq Accepted'
  <2>1. db' = [db EXCEPT !.txs = @ \cup ToRestore] /\ pending' = pending \cup ToRestore
    BY <1>6 DEF Restore
  <2>2. db'.txs = db.txs \cup ToRestore
    BY <1>0, <2>1 DEF DbState
  <2>3. popped \cup call.held \subseteq db.txs \cup ToRestore
    BY DEF ToRestore
  <2> QED
    BY <2>1, <2>2, <2>3 DEF Accepted
<1>7. ASSUME NEW t \in Txs, PushTransaction(t) PROVE Accepted \subseteq Accepted'
  <2>1. db' = [db EXCEPT !.txs = @ \cup {t}] /\ popped' = popped /\ call' = call /\ pending \subseteq pending'
    BY <1>7 DEF PushTransaction
  <2>2. db.txs \subseteq db'.txs
    BY <1>0, <2>1 DEF DbState
  <2> QED
    BY <2>1, <2>2 DEF Accepted
<1>8. ASSUME Close \/ Rewind \/ Flush \/ Crash \/ Open \/ Reindex PROVE FALSE
  BY <1>8 DEF Running, Close, Rewind, Flush, Crash, Open, Reindex
<1>9. ASSUME UNCHANGED vars PROVE Accepted \subseteq Accepted'
  BY <1>9 DEF vars, Accepted
<1> QED
  BY <1>1, <1>2, <1>3, <1>4, <1>5, <1>6, <1>7, <1>8, <1>9 DEF Next, PushStep

\* No step of a running node loses a transaction it has accepted, on any tree of
\* blocks and through fork switches that succeed, fail, or fail to be unwound.
THEOREM SurvivalTheorem == Spec => TransactionsSurvive
<1>1. CInv(DbState) /\ [Next]_vars =>
        [pc' \notin {"rewind", "down"} /\ pc # "down" /\ pc # "rewind" => Accepted \subseteq Accepted']_vars
  BY AcceptedKept DEF Running
<1> QED
  BY <1>1, ChainInvariance, PTL DEF Spec, TransactionsSurvive

-----------------------------------------------------------------------------
(* States that know every transaction of their chain.                      *)

Knowing == {d \in DbState : \A b \in OnPath(d.head) : BlockTxs[b] \subseteq d.txs}

LEMMA KnowingClosed == Closed(Knowing) /\ Genesis \in Knowing
<1>1. Knowing \subseteq DbState
  BY DEF Knowing
<1>2. ASSUME NEW d \in Knowing, NEW b \in Blocks, Applies(b, d) PROVE Applied(b, d) \in Knowing
  <2>1. d \in DbState /\ Parent[b] = d.head /\ \A x \in OnPath(d.head) : BlockTxs[x] \subseteq d.txs
    BY <1>2 DEF Knowing, Applies
  <2>2. Applied(b, d) \in DbState
    BY <1>2, <2>1, AnyState DEF Closed
  <2>3. Applied(b, d).head = b /\ Applied(b, d).txs = d.txs \cup BlockTxs[b]
    BY <2>1 DEF Applied, DbState
  <2>4. OnPath(b) = OnPath(d.head) \cup {b}
    BY <2>1, PathStep
  <2>5. \A x \in OnPath(b) : BlockTxs[x] \subseteq d.txs \cup BlockTxs[b]
    BY <2>1, <2>4
  <2> QED
    BY <2>2, <2>3, <2>5 DEF Knowing
<1>3. ASSUME NEW d \in Knowing, NEW r \in SUBSET Blocks PROVE [d EXCEPT !.records = r] \in Knowing
  <2>1. d \in DbState
    BY <1>1
  <2>2. [d EXCEPT !.records = r] \in DbState /\ [d EXCEPT !.records = r].head = d.head
        /\ [d EXCEPT !.records = r].txs = d.txs
    BY <2>1 DEF DbState
  <2> QED
    BY <2>2 DEF Knowing
<1>4. Genesis \in Knowing
  <2>1. OnPath(None) = {}
    BY PathDefined DEF OnPath
  <2>2. Genesis.head = None
    BY DEF Genesis
  <2> QED
    BY <2>1, <2>2, NoCallType DEF Knowing
<1> QED
  BY <1>1, <1>2, <1>3, <1>4 DEF Closed

\* A node that has not replayed its block log never holds a transaction of its
\* chain as pending.  The hypothesis is needed: a replay does not record the
\* transactions it applies.
THEOREM OnceTheorem == Spec /\ [][~Reindex]_vars => []NothingAppliedTwice
<1>1. Init => CInv(Knowing)
  BY CInit, KnowingClosed
<1>2. CInv(Knowing) /\ [Next]_vars /\ [~Reindex]_vars => CInv(Knowing)'
  <2> SUFFICES ASSUME CInv(Knowing), [Next]_vars, [~Reindex]_vars PROVE CInv(Knowing)'
    OBVIOUS
  <2>1. CASE UNCHANGED vars
    BY <2>1, CStutter
  <2>2. CASE ~Reindex
    BY <2>2, CStep, KnowingClosed
  <2> QED
    BY <2>1, <2>2
<1>3. CInv(Knowing) => NothingAppliedTwice
  <2> SUFFICES ASSUME CInv(Knowing), NEW b \in OnPath(db.head) PROVE BlockTxs[b] \cap pending = {}
    BY DEF NothingAppliedTwice
  <2>1. pending_session \in BOOLEAN /\ HistOK(Knowing, undo, db, pending_session, pending)
    BY DEF CInv, HistOK
  <2>2. CASE pending_session
    <3>1. undo \in Seq(Knowing) /\ undo # << >> /\ Above(db, Top(undo), pending)
      BY <2>1, <2>2 DEF HistOK
    <3>2. Top(undo) \in Knowing
      BY <3>1, FrontFacts
    <3>3. db.head = Top(undo).head /\ pending \cap Top(undo).txs = {}
      BY <3>1 DEF Above
    <3>4. BlockTxs[b] \subseteq Top(undo).txs
      BY <3>2, <3>3 DEF Knowing
    <3> QED
      BY <3>3, <3>4
  <2>3. CASE ~pending_session
    <3>1. pending = {}
      BY <2>3, Quiet
    <3> QED
      BY <3>1
  <2> QED
    BY <2>1, <2>2, <2>3
<1> QED
  BY <1>1, <1>2, <1>3, PTL DEF Spec


-----------------------------------------------------------------------------
(* The path to a block runs through its ancestors.                         *)

PathOK(b) ==
  \A n \in 1 .. Num[b] :
    /\ PathTo[b][n] \in Blocks /\ Num[PathTo[b][n]] = n
    /\ Parent[PathTo[b][n]] = (IF n = 1 THEN None ELSE PathTo[b][n - 1])
    /\ \A m \in 1 .. n : PathTo[PathTo[b][n]][m] = PathTo[b][m]
    /\ OnPath(PathTo[b][n]) \subseteq OnPath(b)

LEMMA PathAncestors == \A b \in BlockIds : PathOK(b)
<1> DEFINE T == {k \in Nat : \A b \in BlockIds : Num[b] = k => PathOK(b)}
<1>1. ASSUME NEW k \in Nat, \A m \in Nat : m < k => m \in T
      PROVE  k \in T
  <2> SUFFICES ASSUME NEW b \in BlockIds, Num[b] = k PROVE PathOK(b)
    OBVIOUS
  <2>1. CASE b = None
    <3>1. Num[b] = 0
      BY <2>1, Numbers
    <3> QED
      BY <3>1 DEF PathOK
  <2>2. CASE b # None
    <3> DEFINE p == Parent[b]
               N == Num[p]
    <3>1. b \in Blocks /\ p \in BlockIds /\ N \in Nat /\ Num[b] = N + 1
      BY <2>2, Numbers
    <3>2. PathOK(p)
      <4>1. N < k /\ N \in T
        BY <1>1, <3>1
      <4> QED
        BY <3>1, <4>1
    <3>3. /\ PathTo[b][N + 1] = b /\ \A n \in 1 .. N : PathTo[b][n] = PathTo[p][n]
          /\ OnPath(b) = OnPath(p) \cup {b}
      BY <3>1, PathStep
    <3> HIDE DEF N, T
    <3>4. ASSUME NEW n \in 1 .. N
          PROVE  /\ PathTo[b][n] \in Blocks /\ Num[PathTo[b][n]] = n
                 /\ Parent[PathTo[b][n]] = (IF n = 1 THEN None ELSE PathTo[b][n - 1])
                 /\ \A m \in 1 .. n : PathTo[PathTo[b][n]][m] = PathTo[b][m]
                 /\ OnPath(PathTo[b][n]) \subseteq OnPath(b)
      <4>1. PathTo[b][n] = PathTo[p][n]
        BY <3>3
      <4>2. /\ PathTo[p][n] \in Blocks /\ Num[PathTo[p][n]] = n
            /\ Parent[PathTo[p][n]] = (IF n = 1 THEN None ELSE PathTo[p][n - 1])
            /\ \A m \in 1 .. n : PathTo[PathTo[p][n]][m] = PathTo[p][m]
            /\ OnPath(PathTo[p][n]) \subseteq OnPath(p)
        BY <3>2 DEF PathOK, N
      <4>3. n # 1 => PathTo[b][n - 1] = PathTo[p][n - 1]
        <5>1. n # 1 => n - 1 \in 1 .. N
          BY <3>1
        <5> QED
          BY <3>3, <5>1
      <4>4. \A m \in 1 .. n : PathTo[b][m] = PathTo[p][m]
        <5>1. \A m \in 1 .. n : m \in 1 .. N
          BY <3>1
        <5> QED
          BY <3>3, <5>1
      <4>5. OnPath(PathTo[b][n]) \subseteq OnPath(b)
        BY <3>3, <4>1, <4>2
      <4>6. Parent[PathTo[b][n]] = (IF n = 1 THEN None ELSE PathTo[b][n - 1])
        BY <4>1, <4>2, <4>3
      <4>7. \A m \in 1 .. n : PathTo[PathTo[b][n]][m] = PathTo[b][m]
        BY <4>1, <4>2, <4>4
      <4> QED
        BY <4>1, <4>2, <4>5, <4>6, <4>7
    <3>5. Parent[b] = (IF N + 1 = 1 THEN None ELSE PathTo[b][(N + 1) - 1])
      <4>1. CASE N = 0
        <5>1. p \notin Blocks
          BY <4>1, Numbers DEF N
        <5> QED
          BY <3>1, <4>1, <5>1 DEF BlockIds
      <4>2. CASE N # 0
        <5>1. p \in Blocks
          BY <3>1, <4>2, Numbers DEF BlockIds, N
        <5>2. PathTo[p][N] = p
          BY <5>1, PathStep DEF N
        <5>3. (N + 1) - 1 = N /\ N \in 1 .. N /\ N + 1 # 1
          BY <3>1, <4>2
        <5> QED
          BY <3>3, <5>2, <5>3
      <4> QED
        BY <4>1, <4>2
    <3>6. ASSUME NEW n \in 1 .. Num[b]
          PROVE  /\ PathTo[b][n] \in Blocks /\ Num[PathTo[b][n]] = n
                 /\ Parent[PathTo[b][n]] = (IF n = 1 THEN None ELSE PathTo[b][n - 1])
                 /\ \A m \in 1 .. n : PathTo[PathTo[b][n]][m] = PathTo[b][m]
                 /\ OnPath(PathTo[b][n]) \subseteq OnPath(b)
      <4>1. CASE n \in 1 .. N
        BY <3>4, <4>1
      <4>2. CASE n = N + 1
        <5>1. PathTo[b][n] = b /\ Num[b] = n
          BY <3>1, <3>3, <4>2
        <5>2. Parent[b] = (IF n = 1 THEN None ELSE PathTo[b][n - 1])
          BY <3>5, <4>2
        <5> QED
          BY <3>1, <5>1, <5>2
      <4> QED
        BY <3>1, <4>1, <4>2
    <3> QED
      BY <3>6 DEF PathOK
  <2> QED
    BY <2>1, <2>2
<1>2. T \subseteq Nat
  OBVIOUS
<1> HIDE DEF T
<1>3. \A k \in Nat : k \in T
  BY <1>1, <1>2, NatSetInduction
<1> QED
  BY <1>3, Numbers DEF T

-----------------------------------------------------------------------------
(* The blocks that can be fetched from a log are on the chain of x.        *)

LogOn(l, x) ==
  \A n \in 1 .. MaxNum :
    Log!CanFetchNumber(l, n) => n <= Num[x] /\ l[n].data = PathTo[x][n]

LEMMA StoredOn ==
  ASSUME NEW l \in LogState, NEW b \in Blocks, NEW id \in BlockIds, LogOn(l, Parent[b])
  PROVE  LogOn(Log!store(l, id, b), b)
<1> DEFINE p == Parent[b]
           e == [id |-> id, data |-> b, live |-> TRUE]
           k == Num[id]
           g == Log!store(l, id, b)
<1>1. p \in BlockIds /\ Num[p] \in Nat /\ Num[b] = Num[p] + 1 /\ Num[b] \in Nat
  BY Numbers
<1>2. PathTo[b][Num[b]] = b /\ \A n \in 1 .. Num[p] : PathTo[b][n] = PathTo[p][n]
  BY PathStep
<1>3. g = [l EXCEPT ![k] = e]
  BY DEF Log!store
<1> HIDE DEF g, k
<1>4. ASSUME NEW n \in 1 .. MaxNum, Log!CanFetchNumber(g, n) PROVE n <= Num[b] /\ g[n].data = PathTo[b][n]
  <2>1. CASE n = k
    <3>1. g[n] = e
      BY <1>3, <2>1 DEF LogState
    <3>2. id = b
      BY <1>4, <3>1 DEF Log!CanFetchNumber
    <3> QED
      BY <1>1, <1>2, <2>1, <3>1, <3>2 DEF k
  <2>2. CASE n # k
    <3>1. g[n] = l[n]
      BY <1>3, <2>2 DEF LogState
    <3>2. Log!CanFetchNumber(l, n)
      BY <1>4, <3>1 DEF Log!CanFetchNumber
    <3>3. n <= Num[p] /\ l[n].data = PathTo[p][n]
      BY <3>2 DEF LogOn
    <3>4. n \in 1 .. Num[p] /\ n <= Num[b]
      BY <1>1, <3>3
    <3> QED
      BY <1>2, <3>1, <3>3, <3>4
  <2> QED
    BY <2>1, <2>2
<1> QED
  BY <1>4 DEF LogOn, g

\* Removing an entry, or making entries above some number dead, only takes blocks
\* away.
LEMMA FewerOn ==
  ASSUME NEW l \in LogState, NEW x, LogOn(l, x)
  PROVE  /\ \A id : LogOn(Log!remove(l, id), x)
         /\ \A k : LogOn(Log!DropAbove(l, k), x)
<1>1. ASSUME NEW id PROVE LogOn(Log!remove(l, id), x)
  <2> DEFINE g == Log!remove(l, id)
             k == Num[id]
  <2>1. g = l \/ g = [l EXCEPT ![k].live = FALSE]
    BY DEF Log!remove
  <2> HIDE DEF g, k
  <2>2. ASSUME NEW n \in 1 .. MaxNum, Log!CanFetchNumber(g, n) PROVE Log!CanFetchNumber(l, n) /\ g[n].data = l[n].data
    <3>1. l[n] \in Log!Entry
      BY DEF LogState
    <3>2. g[n] = l[n] \/ g[n] = [l[n] EXCEPT !.live = FALSE]
      BY <2>1 DEF LogState
    <3>3. g[n] # [l[n] EXCEPT !.live = FALSE] \/ ~g[n].live
      BY <3>1 DEF Log!Entry
    <3> QED
      BY <2>2, <3>2, <3>3 DEF Log!CanFetchNumber
  <2> QED
    BY <2>2 DEF LogOn, g
<1>2. ASSUME NEW k PROVE LogOn(Log!DropAbove(l, k), x)
  <2> DEFINE g == Log!DropAbove(l, k)
  <2>1. ASSUME NEW n \in 1 .. MaxNum, Log!CanFetchNumber(g, n) PROVE Log!CanFetchNumber(l, n) /\ g[n].data = l[n].data
    <3>1. l[n] \in Log!Entry
      BY DEF LogState
    <3>2. g[n] = l[n] \/ g[n] = [l[n] EXCEPT !.live = FALSE]
      BY DEF Log!DropAbove
    <3> HIDE DEF g
    <3>3. g[n] # [l[n] EXCEPT !.live = FALSE] \/ ~g[n].live
      BY <3>1 DEF Log!Entry
    <3> QED
      BY <2>1, <3>2, <3>3 DEF Log!CanFetchNumber
  <2> HIDE DEF g
  <2> QED
    BY <2>1 DEF LogOn, g
<1> QED
  BY <1>1, <1>2

\* The head removed from the log: what is left is on the chain of its parent.
LEMMA RemovedOn ==
  ASSUME NEW l \in LogState, NEW b \in Blocks, LogOn(l, b)
  PROVE  LogOn(Log!remove(l, b), Parent[b])
<1> DEFINE p == Parent[b]
           k == Num[b]
           g == Log!remove(l, b)
<1>1. p \in BlockIds /\ Num[p] \in Nat /\ k = Num[p] + 1 /\ k \in Nat
  BY Numbers
<1>2. PathTo[b][k] = b /\ \A n \in 1 .. Num[p] : PathTo[b][n] = PathTo[p][n]
  BY PathStep
<1>3. LogOn(g, b)
  BY FewerOn
<1>4. g = IF l[k].id = b THEN [l EXCEPT ![k].live = FALSE] ELSE l
  BY DEF Log!remove
<1> HIDE DEF g, k
<1>5. ASSUME NEW n \in 1 .. MaxNum, Log!CanFetchNumber(g, n) PROVE n <= Num[p] /\ g[n].data = PathTo[p][n]
  <2>1. n <= k /\ g[n].data = PathTo[b][n]
    BY <1>3, <1>5 DEF LogOn, k
  <2>2. n # k
    <3> SUFFICES ASSUME n = k PROVE FALSE
      OBVIOUS
    <3>1. g[k].data = b /\ g[k].live /\ g[k].id = b
      BY <1>2, <1>5, <2>1 DEF Log!CanFetchNumber
    <3>2. k \in 1 .. MaxNum
      OBVIOUS
    <3>3. CASE l[k].id = b
      <4>1. g[k] = [l[k] EXCEPT !.live = FALSE] /\ l[k] \in Log!Entry
        BY <1>4, <3>2, <3>3 DEF LogState
      <4>2. ~[l[k] EXCEPT !.live = FALSE].live
        BY <4>1 DEF Log!Entry
      <4> QED
        BY <3>1, <4>1, <4>2
    <3>4. CASE l[k].id # b
      BY <1>4, <3>1, <3>4
    <3> QED
      BY <3>3, <3>4
  <2>3. n \in 1 .. Num[p]
    BY <1>1, <2>1, <2>2
  <2> QED
    BY <1>1, <1>2, <2>1, <2>3
<1> QED
  BY <1>5 DEF LogOn, g


-----------------------------------------------------------------------------
(* Chains of blocks that apply.                                            *)

Sound == {d \in DbState : OnPath(d.head) \cap Bad = {}}

LEMMA SoundClosed == Closed(Sound) /\ Genesis \in Sound
<1>1. Sound \subseteq DbState
  BY DEF Sound
<1>2. ASSUME NEW d \in Sound, NEW b \in Blocks, Applies(b, d) PROVE Applied(b, d) \in Sound
  <2>1. d \in DbState /\ Parent[b] = d.head /\ OnPath(d.head) \cap Bad = {} /\ b \notin Bad
    BY <1>2 DEF Sound, Applies
  <2>2. Applied(b, d) \in DbState
    BY <1>2, <2>1, AnyState DEF Closed
  <2>3. Applied(b, d).head = b
    BY <2>1 DEF Applied, DbState
  <2>4. OnPath(b) = OnPath(d.head) \cup {b}
    BY <2>1, PathStep
  <2> QED
    BY <2>1, <2>2, <2>3, <2>4 DEF Sound
<1>3. ASSUME NEW d \in Sound, NEW r \in SUBSET Blocks PROVE [d EXCEPT !.records = r] \in Sound
  <2>1. d \in DbState
    BY <1>1
  <2>2. [d EXCEPT !.records = r] \in DbState /\ [d EXCEPT !.records = r].head = d.head
    BY <2>1 DEF DbState
  <2> QED
    BY <2>2 DEF Sound
<1>4. OnPath(None) = {} /\ Genesis.head = None
  BY PathDefined DEF OnPath, Genesis
<1>5. Genesis \in Sound
  BY <1>4, NoCallType DEF Sound
<1> QED
  BY <1>1, <1>2, <1>3, <1>5 DEF Closed

(* What each log can give back is one chain of blocks that apply, and the  *)
(* log of a node that runs, or was closed, that of its head.               *)
Replays(l) == \E x \in BlockIds : OnPath(x) \cap Bad = {} /\ LogOn(l, x)

LogInv ==
  /\ Replays(log) /\ Replays(synced)
  /\ pc # "down" \/ clean => LogOn(log, db.head)

\* No block that can be fetched has a higher number than last() returns.
LastHighest ==
  pc = "down" => \A n \in 1 .. MaxNum : Log!CanFetchNumber(log, n) => n <= Num[Log!last(log)]

LEMMA HistSound ==
  ASSUME NEW u, NEW d, NEW ps, NEW p, HistOK(Sound, u, d, ps, p)
  PROVE  d.head \in BlockIds /\ OnPath(d.head) \cap Bad = {}
<1>1. u \in Seq(Sound) /\ ps \in BOOLEAN
  BY DEF HistOK
<1>2. CASE ps
  <2>1. u # << >> /\ Above(d, Top(u), p)
    BY <1>2 DEF HistOK
  <2>2. Top(u) \in Sound
    BY <1>1, <2>1, FrontFacts
  <2>3. d.head = Top(u).head
    BY <2>1 DEF Above
  <2> QED
    BY <2>2, <2>3 DEF Sound, DbState
<1>3. CASE ~ps
  <2>1. d \in Sound
    BY <1>3 DEF HistOK
  <2> QED
    BY <2>1 DEF Sound, DbState
<1> QED
  BY <1>1, <1>2, <1>3

LEMMA HeadSound ==
  ASSUME CInv(Sound) PROVE db.head \in BlockIds /\ OnPath(db.head) \cap Bad = {}
<1>1. HistOK(Sound, undo, db, pending_session, pending)
  BY DEF CInv
<1> QED
  BY <1>1, HistSound

LEMMA ClearedHead ==
  ASSUME NEW G, CInv(G) PROVE ClearedDb.head = db.head
<1>1. pending_session \in BOOLEAN /\ HistOK(G, undo, db, pending_session, pending)
  BY DEF CInv, HistOK
<1>2. CASE pending_session
  <2>1. Above(db, Top(undo), pending)
    BY <1>1, <1>2 DEF HistOK
  <2> QED
    BY <1>2, <2>1 DEF Above, ClearedDb
<1>3. CASE ~pending_session
  BY <1>3 DEF ClearedDb
<1> QED
  BY <1>1, <1>2, <1>3

\* What one step does to head and log.
AppliesTo(b, id) ==
  /\ b \in Blocks /\ id \in BlockIds /\ Applies(b, db) /\ db'.head = b
  /\ log' = Log!store(log, id, b) /\ synced' = log
Pops ==
  /\ db.head \in Blocks /\ db'.head = Parent[db.head]
  /\ log' = Log!remove(log, db.head) /\ synced' = log
LosesEntry ==
  /\ db'.head = db.head /\ log' = Log!remove(log, db.head) /\ synced' \in {log, log'}
KeepsLog ==
  /\ db'.head = db.head /\ log' = log /\ synced' \in {synced, log'}

Steady == pc # "down" /\ (pc' # "down" \/ clean')

LEMMA LogSteps ==
  ASSUME NEW G, Closed(G), CInv(G), [Next]_vars
  PROVE  \/ Steady /\ (ApplyNew \/ SwitchApply) /\ \E b \in Blocks : AppliesTo(b, b)
         \/ Steady /\ UnwindApply /\ \E b \in Blocks, id \in BlockIds : AppliesTo(b, id)
         \/ Steady /\ Pops
         \/ Steady /\ (SwitchThrows \/ Flush) /\ (LosesEntry \/ KeepsLog)
         \/ Steady /\ KeepsLog /\ pc' # "down"
         \/ Crash
         \/ Open
         \/ Reindex
         \/ UNCHANGED vars
<1>0. call \in CallState /\ db \in DbState
  BY DEF CInv, StateOK, HistOK
<1>1. ASSUME NEW b \in Blocks, PushBlock(b) PROVE Steady /\ KeepsLog /\ pc' # "down"
  <2>1. pc = "idle" /\ db' = ClearedDb /\ log' = log /\ synced' = synced /\ pc' \in {"restore", "apply", "pop"}
    BY <1>1 DEF PushBlock, blocklog
  <2> QED
    BY <2>1, ClearedHead DEF Steady, KeepsLog
<1>2. ASSUME NEW b \in Blocks, NEW id \in BlockIds, ApplyAndStore(b, id), Applies(b, db) PROVE AppliesTo(b, id)
  <2>1. db' = Applied(b, db) /\ log' = Log!store(log, id, b) /\ synced' = log
    BY <1>2 DEF ApplyAndStore, Write
  <2>2. db'.head = b
    BY <1>0, <2>1 DEF Applied, DbState
  <2> QED
    BY <1>2, <2>1, <2>2 DEF AppliesTo
<1>3. CASE ApplyNew
  <2>1. pc = "apply" /\ pc' = "notify" /\ call.block \in Blocks /\ call.block \in BlockIds
    BY <1>3 DEF ApplyNew, CInv, Control, BlockIds
  <2>2. AppliesTo(call.block, call.block)
    BY <1>2, <1>3, <2>1 DEF ApplyNew
  <2> QED
    BY <1>3, <2>1, <2>2 DEF Steady
<1>4. CASE SwitchApply
  <2>1. pc \in {"pop", "switch"} /\ pc' \in {"restore", "switch"}
    BY <1>4 DEF SwitchApply
  <2>2. call.first \in Seq(Blocks) /\ call.next \in 1 .. Len(call.first)
    BY <2>1 DEF CInv, Control, StateOK, CallState
  <2> DEFINE b == call.first[call.next]
  <2>3. b \in Blocks /\ b \in BlockIds
    BY <2>2, LoopBlock DEF BlockIds
  <2>4. ApplyAndStore(b, b) /\ Applies(b, db)
    BY <1>4 DEF SwitchApply
  <2> HIDE DEF b
  <2>5. AppliesTo(b, b)
    BY <1>2, <2>3, <2>4
  <2> QED
    BY <1>4, <2>1, <2>3, <2>5 DEF Steady
<1>5. CASE UnwindApply
  <2>1. pc \in {"unwind", "redo"} /\ pc' \in {"restore", "redo"}
    BY <1>5 DEF UnwindApply
  <2>2. call.second \in Seq(Blocks) /\ call.next \in 1 .. Len(call.second) /\ call.block \in BlockIds
    BY <2>1 DEF CInv, Control, StateOK, CallState
  <2> DEFINE b == call.second[call.next]
  <2>3. b \in Blocks
    BY <2>2, LoopBlock
  <2>4. ApplyAndStore(b, call.block) /\ Applies(b, db)
    BY <1>5 DEF UnwindApply
  <2> HIDE DEF b
  <2>5. AppliesTo(b, call.block)
    BY <1>2, <2>2, <2>3, <2>4
  <2> QED
    BY <1>5, <2>1, <2>2, <2>3, <2>5 DEF Steady
<1>6. ASSUME ApplyNewFails \/ SwitchFails PROVE Steady /\ KeepsLog /\ pc' # "down"
  BY <1>6 DEF ApplyNewFails, SwitchFails, Steady, KeepsLog, blocklog
<1>7. ASSUME Notify PROVE Steady /\ KeepsLog /\ pc' # "down"
  <2> DEFINE b == call.block
             recorded == IF b \in Seeded THEN [db EXCEPT !.records = @ \cup {b}] ELSE db
  <2>1. recorded.head = db.head /\ [recorded EXCEPT !.txs = @ \cup {KeyTx[b]}].head = db.head
    BY <1>0 DEF DbState
  <2>2. db' = recorded \/ db' = [recorded EXCEPT !.txs = @ \cup {KeyTx[b]}]
    BY <1>7 DEF Notify
  <2>3. pc = "notify" /\ pc' = "restore" /\ log' = log /\ synced' = synced
    BY <1>7 DEF Notify, blocklog
  <2> HIDE DEF recorded
  <2> QED
    BY <2>1, <2>2, <2>3 DEF Steady, KeepsLog
<1>8. ASSUME SwitchPop \/ UnwindPop \/ Rewind PROVE Steady /\ Pops
  <2>1. /\ pc \in {"pop", "unwind", "rewind"} /\ pc' = pc /\ undo # << >> /\ db' = Top(undo)
        /\ log' = Log!remove(log, db.head) /\ synced' = log
    BY <1>8 DEF SwitchPop, UnwindPop, Rewind, PopBlock, Write
  <2>2. ~pending_session
    BY <2>1 DEF CInv, Control
  <2>3. HistOK(G, undo, db, FALSE, {})
    BY <2>2, Quiet
  <2>4. BlockStep(Top(undo), db)
    BY <2>1, <2>3, HistPop
  <2> QED
    BY <2>1, <2>4 DEF Steady, Pops, BlockStep
<1>9. ASSUME SwitchThrows PROVE Steady /\ (LosesEntry \/ KeepsLog)
  BY <1>9 DEF SwitchThrows, Steady, LosesEntry, KeepsLog, Write, blocklog
<1>10. ASSUME Flush PROVE Steady /\ (LosesEntry \/ KeepsLog)
  BY <1>10 DEF Flush, Steady, LosesEntry, KeepsLog
<1>11. ASSUME Restore PROVE Steady /\ KeepsLog /\ pc' # "down"
  BY <1>0, <1>11 DEF Restore, Steady, KeepsLog, blocklog, DbState
<1>12. ASSUME NEW t \in Txs, PushTransaction(t) PROVE Steady /\ KeepsLog /\ pc' # "down"
  BY <1>0, <1>12 DEF PushTransaction, Steady, KeepsLog, blocklog, DbState
<1>13. ASSUME Close PROVE Steady /\ KeepsLog /\ pc' # "down"
  <2>1. pc = "idle" /\ db' = ClearedDb /\ log' = log /\ synced' = synced /\ pc' = "rewind"
    BY <1>13 DEF Close, blocklog
  <2> QED
    BY <2>1, ClearedHead DEF Steady, KeepsLog
<1> QED
  BY <1>1, <1>3, <1>4, <1>5, <1>6, <1>7, <1>8, <1>9, <1>10, <1>11, <1>12, <1>13 DEF Next, PushStep


\* A replay ends on the chain of the log, and what can be fetched afterwards is on
\* the chain it ended on.
LEMMA ReplayedOn ==
  ASSUME NEW l \in LogState, NEW x \in BlockIds, OnPath(x) \cap Bad = {}, LogOn(l, x),
         \A n \in 1 .. MaxNum : Log!CanFetchNumber(l, n) => n <= Num[Log!last(l)]
  PROVE  /\ OnPath(ReplayHead(l)) \cap Bad = {} /\ ReplayHead(l) \in BlockIds
         /\ LogOn(IF ReplayCount(l) < Num[Log!last(l)] THEN Log!DropAbove(l, ReplayCount(l) + 1) ELSE l, ReplayHead(l))
<1> DEFINE r == Log!Replayable(l)
           k == Num[Log!last(l)]
           n == ReplayCount(l)
           h == ReplayHead(l)
           g == IF n < k THEN Log!DropAbove(l, n + 1) ELSE l
<1>0. MaxNum \in Nat
  BY PluginAssumption
<1>1. /\ r \in 0 .. MaxNum /\ (\A i \in 1 .. r : Log!CanFetchNumber(l, i))
      /\ r + 1 \in 1 .. MaxNum => ~Log!CanFetchNumber(l, r + 1)
  <2>1. r = Log!Replayable(l)
    OBVIOUS
  <2> HIDE DEF r
  <2> QED
    BY <2>1, ReplayableEntries
<1>2. k \in Nat /\ n \in 0 .. MaxNum /\ h \in BlockIds
  BY ReplayTypes, LastEntry, Numbers
<1>3. n = (IF r < k THEN r ELSE k)
  BY DEF ReplayCount, Smaller
<1>4. h = (IF n = 0 THEN None ELSE l[n].data)
  BY DEF ReplayHead
<1>4a. \A i \in 1 .. MaxNum : Log!CanFetchNumber(l, i) => i <= k
  OBVIOUS
<1> HIDE DEF r, k, n, h
<1>5. \A i \in 1 .. n : i \in 1 .. MaxNum /\ Log!CanFetchNumber(l, i)
  BY <1>0, <1>1, <1>2, <1>3
<1>6. /\ OnPath(h) \cap Bad = {} /\ Num[h] = n
      /\ \A i \in 1 .. n : PathTo[h][i] = PathTo[x][i]
  <2>1. CASE n = 0
    <3>1. OnPath(None) = {}
      BY PathDefined DEF OnPath
    <3> QED
      BY <1>4, <2>1, <3>1, Numbers
  <2>2. CASE n # 0
    <3>1. n \in 1 .. n
      BY <1>2, <2>2
    <3>2. n <= Num[x] /\ h = PathTo[x][n]
      BY <1>4, <1>5, <2>2, <3>1 DEF LogOn
    <3>3. n \in 1 .. Num[x]
      BY <1>2, <2>2, <3>2, Numbers
    <3>4. Num[h] = n /\ (\A m \in 1 .. n : PathTo[h][m] = PathTo[x][m]) /\ OnPath(h) \subseteq OnPath(x)
      BY <3>2, <3>3, PathAncestors DEF PathOK
    <3> QED
      BY <3>4
  <2> QED
    BY <2>1, <2>2
<1>7. ASSUME NEW i \in 1 .. MaxNum, Log!CanFetchNumber(g, i)
      PROVE  i <= n /\ g[i].data = l[i].data
  <2>1. CASE n < k
    <3>1. n = r
      BY <1>1, <1>2, <1>3, <2>1
    <3>2. g[i] = IF i > n + 1 THEN [l[i] EXCEPT !.live = FALSE] ELSE l[i]
      BY <2>1 DEF Log!DropAbove
    <3>3. l[i] \in Log!Entry
      BY DEF LogState
    <3>4. ~[l[i] EXCEPT !.live = FALSE].live
      BY <3>3 DEF Log!Entry
    <3> HIDE DEF g
    <3>5. ~(i > n + 1)
      <4> SUFFICES ASSUME i > n + 1 PROVE FALSE
        OBVIOUS
      <4>1. g[i] = [l[i] EXCEPT !.live = FALSE]
        BY <3>2
      <4> QED
        BY <1>7, <3>4, <4>1 DEF Log!CanFetchNumber
    <3>6. g[i] = l[i]
      BY <3>2, <3>5
    <3>7. Log!CanFetchNumber(l, i)
      BY <1>7, <3>6 DEF Log!CanFetchNumber
    <3>8. i # n + 1
      BY <1>1, <3>1, <3>7
    <3>9. i <= n
      BY <1>2, <3>5, <3>8
    <3> QED
      BY <3>6, <3>9
  <2>2. CASE ~(n < k)
    <3>1. n = k /\ g = l
      BY <1>1, <1>2, <1>3, <2>2
    <3> HIDE DEF g
    <3> QED
      BY <1>4a, <1>7, <3>1
  <2> QED
    BY <2>1, <2>2
<1> HIDE DEF g
<1>8. ASSUME NEW i \in 1 .. MaxNum, Log!CanFetchNumber(g, i)
      PROVE  i <= Num[h] /\ g[i].data = PathTo[h][i]
  <2>1. i <= n /\ g[i].data = l[i].data
    BY <1>7, <1>8
  <2>2. i \in 1 .. n
    BY <1>2, <2>1
  <2>3. l[i].data = PathTo[x][i]
    BY <1>5, <2>2 DEF LogOn
  <2> QED
    BY <1>6, <2>1, <2>2, <2>3
<1>9. LogOn(g, h)
  BY <1>8 DEF LogOn
<1> QED
  BY <1>2, <1>6, <1>9 DEF g, n, k, h

LEMMA LogInvInit == Init => LogInv
<1> SUFFICES ASSUME Init PROVE LogInv
  OBVIOUS
<1>1. log = Log!EmptyLog /\ synced = Log!EmptyLog /\ db.head = None
  BY DEF Init, Genesis
<1>2. \A n \in 1 .. MaxNum : ~Log!CanFetchNumber(Log!EmptyLog, n)
  BY DEF Log!EmptyLog, Log!CanFetchNumber
<1>3. LogOn(Log!EmptyLog, None)
  BY <1>2 DEF LogOn
<1>4. OnPath(None) = {} /\ None \in BlockIds
  BY PathDefined DEF OnPath, BlockIds
<1> QED
  BY <1>1, <1>3, <1>4 DEF LogInv, Replays

LEMMA LogInvStep ==
  ASSUME CInv(Sound), CInv(Sound)', LogInv, LastHighest, [Next]_vars PROVE LogInv'
<1>0. log \in LogState /\ synced \in LogState
  BY DEF CInv, StateOK
<1>1. db.head \in BlockIds /\ OnPath(db.head) \cap Bad = {}
  BY HeadSound
<1>2. db'.head \in BlockIds /\ OnPath(db'.head) \cap Bad = {}
  <2>1. HistOK(Sound, undo', db', pending_session', pending')
    BY DEF CInv, HistOK, Chainlike, Sound, DbState, Top, OnPath, Above, BlockStep
  <2> QED
    BY <2>1, HistSound
<1>3. Replays(log) /\ Replays(synced)
  BY DEF LogInv
<1>4. ASSUME LogOn(log', db'.head), Replays(synced') PROVE LogInv'
  BY <1>2, <1>4 DEF LogInv, Replays, OnPath, LogOn
<1>5. pc # "down" \/ clean => LogOn(log, db.head)
  BY DEF LogInv
<1>6. ASSUME NEW b \in Blocks, NEW id \in BlockIds, AppliesTo(b, id), Steady PROVE LogInv'
  <2>1. db'.head = b /\ log' = Log!store(log, id, b) /\ synced' = log /\ Parent[b] = db.head
    BY <1>6 DEF AppliesTo, Applies
  <2>2. LogOn(log, Parent[b])
    BY <1>5, <1>6, <2>1 DEF Steady
  <2>3. LogOn(Log!store(log, id, b), b)
    BY <1>0, <2>2, StoredOn
  <2>4. LogOn(log', db'.head)
    BY <2>1, <2>3
  <2> QED
    BY <1>3, <1>4, <2>1, <2>4
<1>7. ASSUME Steady, Pops PROVE LogInv'
  <2>1. db.head \in Blocks /\ db'.head = Parent[db.head] /\ log' = Log!remove(log, db.head) /\ synced' = log
    BY <1>7 DEF Pops
  <2>2. LogOn(log, db.head)
    BY <1>5, <1>7 DEF Steady
  <2>3. LogOn(Log!remove(log, db.head), Parent[db.head])
    BY <1>0, <2>1, <2>2, RemovedOn
  <2>4. LogOn(log', db'.head)
    BY <2>1, <2>3
  <2> QED
    BY <1>3, <1>4, <2>1, <2>4
<1>8. ASSUME Steady, LosesEntry PROVE LogInv'
  <2>1. db'.head = db.head /\ log' = Log!remove(log, db.head) /\ synced' \in {log, log'}
    BY <1>8 DEF LosesEntry
  <2>2. LogOn(log, db.head)
    BY <1>5, <1>8 DEF Steady
  <2>3. LogOn(Log!remove(log, db.head), db.head)
    BY <1>0, <2>2, FewerOn
  <2>4. LogOn(log', db'.head)
    BY <2>1, <2>3
  <2>5. Replays(log')
    BY <1>2, <2>4 DEF Replays
  <2> QED
    BY <1>3, <1>4, <2>1, <2>4, <2>5
<1>9. ASSUME Steady, KeepsLog PROVE LogInv'
  <2>1. db'.head = db.head /\ log' = log /\ synced' \in {synced, log'}
    BY <1>9 DEF KeepsLog
  <2>2. LogOn(log', db'.head)
    BY <1>5, <1>9, <2>1 DEF Steady
  <2> QED
    BY <1>3, <1>4, <2>1, <2>2
<1>10. ASSUME Crash PROVE LogInv'
  <2>1. log' \in {log, synced} /\ synced' = log' /\ pc' = "down" /\ clean' = FALSE
    BY <1>10 DEF Crash
  <2>2. Replays(log') /\ Replays(synced')
    BY <1>3, <2>1
  <2> QED
    BY <2>1, <2>2 DEF LogInv, Replays, OnPath, LogOn
<1>11. ASSUME Open PROVE LogInv'
  <2>1. clean /\ db' = db /\ log' = log /\ synced' = synced
    BY <1>11 DEF Open, blocklog
  <2>2. LogOn(log', db'.head)
    BY <1>5, <2>1
  <2> QED
    BY <1>3, <1>4, <2>1, <2>2
<1>12. ASSUME Reindex PROVE LogInv'
  <2>1. PICK x \in BlockIds : OnPath(x) \cap Bad = {} /\ LogOn(log, x)
    BY <1>3 DEF Replays
  <2>2. \A n \in 1 .. MaxNum : Log!CanFetchNumber(log, n) => n <= Num[Log!last(log)]
    BY <1>12, ReindexSteps DEF LastHighest
  <2>3. LogOn(IF ReplayCount(log) < Num[Log!last(log)] THEN Log!DropAbove(log, ReplayCount(log) + 1) ELSE log, ReplayHead(log))
    BY <1>0, <2>1, <2>2, ReplayedOn
  <2>4. db'.head = ReplayHead(log)
    BY <1>12, ReindexSteps DEF Genesis
  <2>5. log' = (IF ReplayCount(log) < Num[Log!last(log)] THEN Log!DropAbove(log, ReplayCount(log) + 1) ELSE log)
    BY <1>12, ReindexSteps
  <2>6. LogOn(log', db'.head)
    BY <2>3, <2>4, <2>5
  <2>7. synced' = log \/ synced' = Log!DropAbove(log, ReplayCount(log) + 2)
    BY <1>12, ReindexSteps
  <2>8. LogOn(synced', x)
    BY <1>0, <2>1, <2>7, FewerOn
  <2>9. Replays(synced')
    BY <2>1, <2>8 DEF Replays
  <2> QED
    BY <1>4, <2>6, <2>9
<1>13. ASSUME UNCHANGED vars PROVE LogInv'
  BY <1>13 DEF vars, LogInv, Replays, LogOn, OnPath
<1>14. \/ Steady /\ (ApplyNew \/ SwitchApply) /\ \E b \in Blocks : AppliesTo(b, b)
       \/ Steady /\ UnwindApply /\ \E b \in Blocks, id \in BlockIds : AppliesTo(b, id)
       \/ Steady /\ Pops
       \/ Steady /\ (SwitchThrows \/ Flush) /\ (LosesEntry \/ KeepsLog)
       \/ Steady /\ KeepsLog /\ pc' # "down"
       \/ Crash
       \/ Open
       \/ Reindex
       \/ UNCHANGED vars
  BY LogSteps, SoundClosed
<1>15. Blocks \subseteq BlockIds
  BY DEF BlockIds
<1> QED
  BY <1>6, <1>7, <1>8, <1>9, <1>10, <1>11, <1>12, <1>13, <1>14, <1>15

LEMMA SafeWhenReplays ==
  ASSUME NEW l \in LogState, Replays(l), NEW n \in 1 .. Log!Replayable(l)
  PROVE  /\ Parent[l[n].data] = (IF n = 1 THEN None ELSE l[n - 1].data)
         /\ l[n].data \notin Bad
<1> DEFINE r == Log!Replayable(l)
<1>0. MaxNum \in Nat
  BY PluginAssumption
<1>1. r \in 0 .. MaxNum /\ \A i \in 1 .. r : Log!CanFetchNumber(l, i)
  <2>1. r = Log!Replayable(l)
    OBVIOUS
  <2> HIDE DEF r
  <2> QED
    BY <2>1, ReplayableEntries
<1>2. PICK x \in BlockIds : OnPath(x) \cap Bad = {} /\ LogOn(l, x)
  BY DEF Replays
<1>2a. n \in 1 .. r
  OBVIOUS
<1> HIDE DEF r
<1>3. \A i \in 1 .. r : i <= Num[x] /\ l[i].data = PathTo[x][i]
  <2>1. \A i \in 1 .. r : i \in 1 .. MaxNum
    BY <1>0, <1>1
  <2> QED
    BY <1>1, <1>2, <2>1 DEF LogOn
<1>4. Num[x] \in Nat
  BY Numbers
<1>5. n \in 1 .. Num[x] /\ l[n].data = PathTo[x][n]
  BY <1>1, <1>2a, <1>3, <1>4
<1>6. /\ PathTo[x][n] \in Blocks
      /\ Parent[PathTo[x][n]] = (IF n = 1 THEN None ELSE PathTo[x][n - 1])
  BY <1>5, PathAncestors DEF PathOK
<1>7. n # 1 => l[n - 1].data = PathTo[x][n - 1]
  <2>1. n # 1 => n - 1 \in 1 .. r
    BY <1>1, <1>2a
  <2> QED
    BY <1>3, <2>1
<1>8. PathTo[x][n] \in OnPath(x)
  <2>1. Len(PathTo[x]) = Num[x]
    BY PathType
  <2> QED
    BY <1>5, <2>1 DEF OnPath
<1> QED
  BY <1>2, <1>5, <1>6, <1>7, <1>8

LEMMA SafeStep ==
  ASSUME CInv(Sound), LogInv, LastHighest, [Next]_vars PROVE CInv(Sound)' /\ LogInv'
<1>1. ASSUME Reindex PROVE db' \in Sound
  <2>0. log \in LogState /\ StateOK
    BY DEF CInv, StateOK
  <2>1. PICK x \in BlockIds : OnPath(x) \cap Bad = {} /\ LogOn(log, x)
    BY DEF LogInv, Replays
  <2>2. \A n \in 1 .. MaxNum : Log!CanFetchNumber(log, n) => n <= Num[Log!last(log)]
    BY <1>1, ReindexSteps DEF LastHighest
  <2>3. OnPath(ReplayHead(log)) \cap Bad = {}
    BY <2>0, <2>1, <2>2, ReplayedOn
  <2>4. db'.head = ReplayHead(log)
    BY <1>1, ReindexSteps DEF Genesis
  <2>5. db' \in DbState
    BY <1>1, <2>0, ReplayedState
  <2> QED
    BY <2>3, <2>4, <2>5 DEF Sound
<1>2. CInv(Sound)'
  BY <1>1, CStep, SoundClosed
<1> QED
  BY <1>2, LogInvStep

LEMMA SafeLog == CInv(Sound) /\ LogInv => CrashSafeLog
<1> SUFFICES ASSUME CInv(Sound), LogInv, NEW l \in {log, synced}, NEW n \in 1 .. Log!Replayable(l)
             PROVE  /\ Parent[l[n].data] = (IF n = 1 THEN None ELSE l[n - 1].data)
                    /\ l[n].data \notin Bad
  BY DEF CrashSafeLog
<1>1. l \in LogState /\ Replays(l)
  BY DEF CInv, StateOK, LogInv
<1> QED
  BY <1>1, SafeWhenReplays

\* After a crash at any step, in fork switches that fail too, what can be replayed
\* from the block log is a chain of blocks that apply to each other; provided
\* that, at each start, last() returns the highest block that can be fetched.
THEOREM CrashTheorem == Spec /\ []LastHighest => []CrashSafeLog
<1>1. Init => CInv(Sound) /\ LogInv
  BY CInit, SoundClosed, LogInvInit
<1>2. CInv(Sound) /\ LogInv /\ LastHighest /\ [Next]_vars => CInv(Sound)' /\ LogInv'
  BY SafeStep
<1> QED
  BY <1>1, <1>2, SafeLog, PTL DEF Spec


-----------------------------------------------------------------------------
(* The log while no fork switch fails.  Every live entry is the block of   *)
(* its id: only restoring an abandoned fork stores blocks under another.   *)

OwnIds(l) == \A n \in 1 .. MaxNum : l[n].live => l[n].id = l[n].data

LEMMA OwnIdsKept ==
  ASSUME NEW l \in LogState, OwnIds(l)
  PROVE  /\ \A b \in Blocks : OwnIds(Log!store(l, b, b))
         /\ \A id : OwnIds(Log!remove(l, id))
         /\ \A k : OwnIds(Log!DropAbove(l, k))
<1>1. ASSUME NEW b \in Blocks PROVE OwnIds(Log!store(l, b, b))
  <2> DEFINE e == [id |-> b, data |-> b, live |-> TRUE]
             k == Num[b]
             g == Log!store(l, b, b)
  <2>1. g = [l EXCEPT ![k] = e] /\ e.id = e.data
    BY DEF Log!store
  <2> HIDE DEF g, k, e
  <2>2. ASSUME NEW n \in 1 .. MaxNum PROVE g[n] = e \/ g[n] = l[n]
    BY <2>1 DEF LogState
  <2> QED
    BY <2>1, <2>2 DEF OwnIds, g
<1>2. ASSUME NEW id PROVE OwnIds(Log!remove(l, id))
  <2> DEFINE g == Log!remove(l, id)
             k == Num[id]
  <2>1. g = l \/ g = [l EXCEPT ![k].live = FALSE]
    BY DEF Log!remove
  <2> HIDE DEF g, k
  <2>2. ASSUME NEW n \in 1 .. MaxNum, g[n].live PROVE g[n] = l[n]
    <3>1. l[n] \in Log!Entry
      BY DEF LogState
    <3>2. g[n] = l[n] \/ g[n] = [l[n] EXCEPT !.live = FALSE]
      BY <2>1 DEF LogState
    <3>3. g[n] # [l[n] EXCEPT !.live = FALSE] \/ ~g[n].live
      BY <3>1 DEF Log!Entry
    <3> QED
      BY <2>2, <3>2, <3>3
  <2> QED
    BY <2>2 DEF OwnIds, g
<1>3. ASSUME NEW k PROVE OwnIds(Log!DropAbove(l, k))
  <2> DEFINE g == Log!DropAbove(l, k)
  <2>1. ASSUME NEW n \in 1 .. MaxNum, g[n].live PROVE g[n] = l[n]
    <3>1. l[n] \in Log!Entry
      BY DEF LogState
    <3>2. g[n] = l[n] \/ g[n] = [l[n] EXCEPT !.live = FALSE]
      BY DEF Log!DropAbove
    <3> HIDE DEF g
    <3>3. g[n] # [l[n] EXCEPT !.live = FALSE] \/ ~g[n].live
      BY <3>1 DEF Log!Entry
    <3> QED
      BY <2>1, <3>2, <3>3
  <2> HIDE DEF g
  <2> QED
    BY <2>1 DEF OwnIds, g
<1> QED
  BY <1>1, <1>2, <1>3

LEMMA OwnIdsHighest ==
  ASSUME NEW l \in LogState, OwnIds(l), NEW x \in BlockIds, LogOn(l, x), NEW n \in 1 .. MaxNum, l[n].live
  PROVE  n <= Num[Log!last(l)]
<1> DEFINE k == Log!LastNum(l)
<1>1. Log!Live(l) # {}
  BY DEF Log!Live
<1>2. k \in Log!Live(l) /\ (\A m \in Log!Live(l) : m <= k) /\ Log!last(l) = l[k].data
  BY <1>1, LastEntry
<1> HIDE DEF k
<1>3. k \in 1 .. MaxNum /\ l[k].live /\ n <= k
  BY <1>2 DEF Log!Live
<1>4. Log!CanFetchNumber(l, k)
  BY <1>3 DEF OwnIds, Log!CanFetchNumber
<1>5. k <= Num[x] /\ l[k].data = PathTo[x][k]
  BY <1>3, <1>4 DEF LogOn
<1>6. k \in 1 .. Num[x]
  BY <1>3, <1>5, Numbers, PluginAssumption
<1>7. Num[l[k].data] = k
  BY <1>5, <1>6, PathAncestors DEF PathOK
<1> QED
  BY <1>2, <1>3, <1>7

NoneFailed == pc \notin {"unwind", "redo"} /\ OwnIds(log) /\ OwnIds(synced)

LEMMA NoUnwinding ==
  ASSUME pc \notin {"unwind", "redo"}, ~SwitchFails, [Next]_vars
  PROVE  pc' \notin {"unwind", "redo"} /\ ~UnwindApply
<1>1. ~UnwindApply
  BY DEF UnwindApply
<1>2. ASSUME NEW b \in Blocks, PushBlock(b) PROVE pc' \in {"restore", "apply", "pop"}
  BY <1>2 DEF PushBlock
<1>3. ASSUME PushStep PROVE pc' \notin {"unwind", "redo"}
  BY <1>1, <1>3 DEF PushStep, ApplyNew, ApplyNewFails, Notify, SwitchPop, SwitchApply, UnwindPop, SwitchThrows, Restore
<1>4. ASSUME NEW t \in Txs, PushTransaction(t) PROVE pc' = pc
  BY <1>4 DEF PushTransaction
<1>5. ASSUME Close \/ Rewind \/ Flush \/ Crash \/ Open \/ Reindex PROVE pc' \in {"rewind", "down", "idle"}
  BY <1>5 DEF Close, Rewind, Flush, Crash, Open, Reindex
<1> QED
  BY <1>1, <1>2, <1>3, <1>4, <1>5 DEF Next, vars

LEMMA NoneFailedStep ==
  ASSUME NEW G, Closed(G), CInv(G), NoneFailed, ~SwitchFails, [Next]_vars PROVE NoneFailed'
<1>0. log \in LogState /\ synced \in LogState
  BY DEF CInv, StateOK
<1>1. pc' \notin {"unwind", "redo"} /\ ~UnwindApply
  BY NoUnwinding DEF NoneFailed
<1>2. OwnIds(log) /\ OwnIds(synced)
  BY DEF NoneFailed
<1>3. OwnIds(log') /\ OwnIds(synced')
  <2>1. ASSUME NEW b \in Blocks, AppliesTo(b, b) PROVE OwnIds(log') /\ OwnIds(synced')
    BY <1>0, <1>2, <2>1, OwnIdsKept DEF AppliesTo
  <2>2. ASSUME Pops \/ LosesEntry \/ KeepsLog PROVE OwnIds(log') /\ OwnIds(synced')
    BY <1>0, <1>2, <2>2, OwnIdsKept DEF Pops, LosesEntry, KeepsLog
  <2>3. ASSUME Crash PROVE OwnIds(log') /\ OwnIds(synced')
    BY <1>2, <2>3 DEF Crash
  <2>4. ASSUME Open PROVE OwnIds(log') /\ OwnIds(synced')
    BY <1>2, <2>4 DEF Open, blocklog
  <2>5. ASSUME Reindex PROVE OwnIds(log') /\ OwnIds(synced')
    BY <1>0, <1>2, <2>5, OwnIdsKept, ReindexSteps
  <2>6. ASSUME UNCHANGED vars PROVE OwnIds(log') /\ OwnIds(synced')
    BY <1>2, <2>6 DEF vars
  <2> QED
    BY <1>1, <2>1, <2>2, <2>3, <2>4, <2>5, <2>6, LogSteps
<1> QED
  BY <1>1, <1>3 DEF NoneFailed, OwnIds

\* While no fork switch fails, a crash at any step leaves a log that replays to
\* a chain of blocks that apply: last() then needs no hypothesis.
THEOREM GoodForksTheorem == Spec /\ [][~SwitchFails]_vars => []CrashSafeLog
<1>1. Init => CInv(Sound) /\ LogInv /\ NoneFailed
  <2>1. Init => NoneFailed
    BY DEF Init, NoneFailed, OwnIds, Log!EmptyLog
  <2> QED
    BY <2>1, CInit, SoundClosed, LogInvInit
<1>2. CInv(Sound) /\ LogInv /\ NoneFailed => LastHighest
  <2> SUFFICES ASSUME CInv(Sound), LogInv, NoneFailed, NEW n \in 1 .. MaxNum, Log!CanFetchNumber(log, n)
               PROVE  n <= Num[Log!last(log)]
    BY DEF LastHighest
  <2>1. log \in LogState /\ OwnIds(log) /\ log[n].live
    BY DEF CInv, StateOK, NoneFailed, Log!CanFetchNumber
  <2>2. PICK x \in BlockIds : LogOn(log, x)
    BY DEF LogInv, Replays
  <2> QED
    BY <2>1, <2>2, OwnIdsHighest
<1>3. CInv(Sound) /\ LogInv /\ NoneFailed /\ [Next]_vars /\ [~SwitchFails]_vars
      => CInv(Sound)' /\ LogInv' /\ NoneFailed'
  <2> SUFFICES ASSUME CInv(Sound), LogInv, NoneFailed, [Next]_vars, [~SwitchFails]_vars
               PROVE  CInv(Sound)' /\ LogInv' /\ NoneFailed'
    OBVIOUS
  <2>1. CInv(Sound)' /\ LogInv'
    BY <1>2, SafeStep
  <2>2. NoneFailed'
    <3>1. CASE ~SwitchFails
      BY <3>1, NoneFailedStep, SoundClosed
    <3>2. CASE UNCHANGED vars
      BY <3>2 DEF vars, NoneFailed, OwnIds
    <3> QED
      BY <3>1, <3>2
  <2> QED
    BY <2>1, <2>2
<1> QED
  BY <1>1, <1>3, SafeLog, PTL DEF Spec


-----------------------------------------------------------------------------
(* The log that holds exactly the chain that ends with x.                  *)

FullOn(l, x) ==
  \A n \in 1 .. MaxNum :
    IF n <= Num[x]
    THEN l[n] = [id |-> PathTo[x][n], data |-> PathTo[x][n], live |-> TRUE]
    ELSE ~l[n].live

LEMMA StoredFull ==
  ASSUME NEW l \in LogState, NEW b \in Blocks, FullOn(l, Parent[b])
  PROVE  FullOn(Log!store(l, b, b), b)
<1> DEFINE p == Parent[b]
           e == [id |-> b, data |-> b, live |-> TRUE]
           k == Num[b]
           g == Log!store(l, b, b)
<1>1. p \in BlockIds /\ Num[p] \in Nat /\ k = Num[p] + 1 /\ k \in Nat
  BY Numbers
<1>2. PathTo[b][k] = b /\ \A n \in 1 .. Num[p] : PathTo[b][n] = PathTo[p][n]
  BY PathStep
<1>3. g = [l EXCEPT ![k] = e]
  BY DEF Log!store
<1> HIDE DEF g, k
<1>4. ASSUME NEW n \in 1 .. MaxNum
      PROVE  IF n <= k THEN g[n] = [id |-> PathTo[b][n], data |-> PathTo[b][n], live |-> TRUE]
             ELSE ~g[n].live
  <2>1. CASE n = k
    <3>1. g[n] = e
      BY <1>3, <2>1 DEF LogState
    <3>2. PathTo[b][n] = b /\ n <= k
      BY <1>2, <2>1
    <3> QED
      BY <3>1, <3>2
  <2>2. CASE n # k
    <3>1. g[n] = l[n]
      BY <1>3, <2>2 DEF LogState
    <3>2. CASE n < k
      <4>1. n \in 1 .. Num[p] /\ n <= Num[p] /\ n <= k
        BY <1>1, <3>2
      <4>2. l[n] = [id |-> PathTo[p][n], data |-> PathTo[p][n], live |-> TRUE]
        BY <4>1 DEF FullOn
      <4> QED
        BY <1>2, <3>1, <4>1, <4>2
    <3>3. CASE ~(n < k)
      <4>1. ~(n <= k) /\ ~(n <= Num[p])
        BY <1>1, <2>2, <3>3
      <4>2. ~l[n].live
        BY <4>1 DEF FullOn
      <4> QED
        BY <3>1, <4>1, <4>2
    <3> QED
      BY <3>2, <3>3
  <2> QED
    BY <2>1, <2>2
<1> QED
  BY <1>4 DEF FullOn, g, k

LEMMA RemovedFull ==
  ASSUME NEW l \in LogState, NEW b \in Blocks, FullOn(l, b)
  PROVE  FullOn(Log!remove(l, b), Parent[b])
<1> DEFINE p == Parent[b]
           k == Num[b]
           g == Log!remove(l, b)
<1>1. p \in BlockIds /\ Num[p] \in Nat /\ k = Num[p] + 1 /\ k \in Nat /\ k <= MaxNum
  BY Numbers, PluginAssumption
<1>2. PathTo[b][k] = b /\ \A n \in 1 .. Num[p] : PathTo[b][n] = PathTo[p][n]
  BY PathStep
<1>3. k \in 1 .. MaxNum /\ k <= k
  BY <1>1, PluginAssumption
<1>4. l[k] = [id |-> b, data |-> b, live |-> TRUE]
  BY <1>2, <1>3 DEF FullOn
<1>5. g = [l EXCEPT ![k].live = FALSE]
  BY <1>4 DEF Log!remove
<1> HIDE DEF g, k
<1>6. ASSUME NEW n \in 1 .. MaxNum
      PROVE  IF n <= Num[p] THEN g[n] = [id |-> PathTo[p][n], data |-> PathTo[p][n], live |-> TRUE]
             ELSE ~g[n].live
  <2>1. CASE n = k
    <3>1. g[n] = [l[n] EXCEPT !.live = FALSE]
      BY <1>5, <2>1 DEF LogState
    <3>2. ~g[n].live
      BY <1>4, <2>1, <3>1
    <3>3. ~(n <= Num[p])
      BY <1>1, <2>1
    <3> QED
      BY <3>2, <3>3
  <2>2. CASE n # k
    <3>1. g[n] = l[n]
      BY <1>5, <2>2 DEF LogState
    <3>2. CASE n <= Num[p]
      <4>1. n \in 1 .. Num[p] /\ n <= k
        BY <1>1, <3>2
      <4>2. l[n] = [id |-> PathTo[b][n], data |-> PathTo[b][n], live |-> TRUE]
        BY <4>1 DEF FullOn, k
      <4> QED
        BY <1>2, <3>1, <3>2, <4>1, <4>2
    <3>3. CASE ~(n <= Num[p])
      <4>1. ~(n <= k)
        BY <1>1, <2>2, <3>3
      <4>2. ~l[n].live
        BY <4>1 DEF FullOn, k
      <4> QED
        BY <3>1, <3>3, <4>2
    <3> QED
      BY <3>2, <3>3
  <2> QED
    BY <2>1, <2>2
<1> QED
  BY <1>6 DEF FullOn, g

\* last() returns x, and a replay reads every block and ends on x.
LEMMA ReplayedFull ==
  ASSUME NEW l \in LogState, NEW x \in BlockIds, FullOn(l, x)
  PROVE  Log!last(l) = x /\ ReplayCount(l) = Num[x] /\ ReplayHead(l) = x
<1> DEFINE k == Num[x]
<1>0. MaxNum \in Nat /\ k \in 0 .. MaxNum
  BY PluginAssumption, Numbers
<1>1. ASSUME NEW n \in 1 .. MaxNum
      PROVE  /\ n <= k => l[n].live /\ l[n].id = PathTo[x][n] /\ l[n].data = PathTo[x][n]
             /\ ~(n <= k) => ~l[n].live
  <2>1. CASE n <= k
    <3>1. l[n] = [id |-> PathTo[x][n], data |-> PathTo[x][n], live |-> TRUE]
      BY <2>1 DEF FullOn
    <3> QED
      BY <2>1, <3>1
  <2>2. CASE ~(n <= k)
    BY <2>2 DEF FullOn
  <2> QED
    BY <2>1, <2>2
<1>2. k # 0 => x \in Blocks
  BY Numbers
<1>3. k = 0 => x = None
  BY Numbers
<1>4. k # 0 => k \in 1 .. MaxNum /\ l[k].data = x
  <2> SUFFICES ASSUME k # 0 PROVE k \in 1 .. MaxNum /\ l[k].data = x
    OBVIOUS
  <2>1. k \in 1 .. MaxNum /\ k <= k
    BY <1>0
  <2>2. PathTo[x][k] = x
    BY <1>2, PathStep
  <2> QED
    BY <1>1, <2>1, <2>2
<1>4a. k = Num[x]
  OBVIOUS
<1> HIDE DEF k
<1>5. Log!last(l) = x
  <2>1. CASE k = 0
    <3>1. Log!Live(l) = {}
      BY <1>1, <2>1 DEF Log!Live
    <3> QED
      BY <1>3, <2>1, <3>1, LastEntry
  <2>2. CASE k # 0
    <3>1. k \in Log!Live(l)
      BY <1>0, <1>1, <1>4, <2>2 DEF Log!Live
    <3> DEFINE m == Log!LastNum(l)
    <3>2. m \in Log!Live(l) /\ k <= m /\ Log!last(l) = l[m].data
      BY <3>1, LastEntry
    <3> HIDE DEF m
    <3>3. m \in 1 .. MaxNum /\ l[m].live
      BY <3>2 DEF Log!Live
    <3>4. m <= k
      BY <1>1, <3>3
    <3>5. m = k
      BY <1>0, <3>2, <3>3, <3>4
    <3> QED
      BY <1>4, <2>2, <3>2, <3>5
  <2> QED
    BY <2>1, <2>2
<1> DEFINE r == Log!Replayable(l)
<1>6. /\ r \in 0 .. MaxNum /\ (\A i \in 1 .. r : Log!CanFetchNumber(l, i))
      /\ r + 1 \in 1 .. MaxNum => ~Log!CanFetchNumber(l, r + 1)
  <2>1. r = Log!Replayable(l)
    OBVIOUS
  <2> HIDE DEF r
  <2> QED
    BY <2>1, ReplayableEntries
<1>6a. ReplayCount(l) = IF r < k THEN r ELSE k
  BY <1>4a, <1>5 DEF ReplayCount, Smaller
<1> HIDE DEF r
<1>7. ~(r < k)
  <2> SUFFICES ASSUME r < k PROVE FALSE
    OBVIOUS
  <2>1. r + 1 \in 1 .. MaxNum /\ r + 1 <= k
    BY <1>0, <1>6
  <2>2. Log!CanFetchNumber(l, r + 1)
    BY <1>1, <2>1 DEF Log!CanFetchNumber
  <2> QED
    BY <1>6, <2>1, <2>2
<1>8. ReplayCount(l) = k
  BY <1>6a, <1>7
<1>9. ReplayHead(l) = x
  BY <1>3, <1>4, <1>8 DEF ReplayHead
<1> QED
  BY <1>4a, <1>5, <1>8, <1>9

Exact(l) == \E x \in BlockIds : FullOn(l, x)

FullInv ==
  /\ pc \notin {"unwind", "redo"}
  /\ Exact(log) /\ Exact(synced)
  /\ pc # "down" \/ clean => FullOn(log, db.head)

\* pop_block, or close(), takes the head from the block log and then finds that
\* the undo history has no state to go back to.
PopUncommitted == (SwitchThrows \/ Flush) /\ log' # log

LEMMA FullStep ==
  ASSUME NEW G, Closed(G), CInv(G), CInv(G)', FullInv, ~SwitchFails, ~PopUncommitted, [Next]_vars
  PROVE  FullInv'
<1>0. log \in LogState /\ synced \in LogState
  BY DEF CInv, StateOK
<1>1. pc' \notin {"unwind", "redo"} /\ ~UnwindApply
  BY NoUnwinding DEF FullInv
<1>2. db'.head \in BlockIds
  <2>1. db' \in DbState
    BY DEF CInv, HistOK, DbState
  <2> QED
    BY <2>1 DEF DbState
<1>3. Exact(log) /\ Exact(synced)
  BY DEF FullInv
<1>4. ASSUME FullOn(log', db'.head), Exact(synced') PROVE FullInv'
  BY <1>1, <1>2, <1>4 DEF FullInv, Exact, FullOn
<1>5. pc # "down" \/ clean => FullOn(log, db.head)
  BY DEF FullInv
<1>6. ASSUME NEW b \in Blocks, AppliesTo(b, b), Steady PROVE FullInv'
  <2>1. db'.head = b /\ log' = Log!store(log, b, b) /\ synced' = log /\ Parent[b] = db.head
    BY <1>6 DEF AppliesTo, Applies
  <2>2. FullOn(log, Parent[b])
    BY <1>5, <1>6, <2>1 DEF Steady
  <2>3. FullOn(Log!store(log, b, b), b)
    BY <1>0, <2>2, StoredFull
  <2> QED
    BY <1>3, <1>4, <2>1, <2>3
<1>7. ASSUME Steady, Pops PROVE FullInv'
  <2>1. db.head \in Blocks /\ db'.head = Parent[db.head] /\ log' = Log!remove(log, db.head) /\ synced' = log
    BY <1>7 DEF Pops
  <2>2. FullOn(log, db.head)
    BY <1>5, <1>7 DEF Steady
  <2>3. FullOn(Log!remove(log, db.head), Parent[db.head])
    BY <1>0, <2>1, <2>2, RemovedFull
  <2> QED
    BY <1>3, <1>4, <2>1, <2>3
<1>8. ASSUME Steady, log' = log, LosesEntry \/ KeepsLog PROVE FullInv'
  <2>1. db'.head = db.head /\ log' = log /\ synced' \in {synced, log}
    BY <1>8 DEF LosesEntry, KeepsLog
  <2>2. FullOn(log', db'.head)
    BY <1>5, <1>8, <2>1 DEF Steady
  <2> QED
    BY <1>3, <1>4, <2>1, <2>2
<1>9. ASSUME Crash PROVE FullInv'
  <2>1. log' \in {log, synced} /\ synced' = log' /\ pc' = "down" /\ clean' = FALSE
    BY <1>9 DEF Crash
  <2>2. Exact(log') /\ Exact(synced')
    BY <1>3, <2>1
  <2> QED
    BY <2>1, <2>2 DEF FullInv, Exact, FullOn
<1>10. ASSUME Open PROVE FullInv'
  <2>1. clean /\ db' = db /\ log' = log /\ synced' = synced
    BY <1>10 DEF Open, blocklog
  <2> QED
    BY <1>3, <1>4, <1>5, <2>1
<1>11. ASSUME Reindex PROVE FullInv'
  <2>1. PICK x \in BlockIds : FullOn(log, x)
    BY <1>3 DEF Exact
  <2>2. Log!last(log) = x /\ ReplayCount(log) = Num[x] /\ ReplayHead(log) = x
    BY <1>0, <2>1, ReplayedFull
  <2>3. ~(Num[x] < Num[x])
    BY Numbers
  <2>4. db'.head = x /\ log' = log /\ synced' = log
    BY <1>11, <2>2, <2>3, ReindexSteps DEF Genesis
  <2> QED
    BY <1>3, <1>4, <2>1, <2>4
<1>12. ASSUME UNCHANGED vars PROVE FullInv'
  BY <1>12 DEF vars, FullInv, Exact, FullOn
<1>13. Steady /\ KeepsLog => log' = log
  BY DEF KeepsLog
<1>14. SwitchThrows \/ Flush => log' = log
  BY DEF PopUncommitted
<1> QED
  BY <1>1, <1>6, <1>7, <1>8, <1>9, <1>10, <1>11, <1>12, <1>13, <1>14, LogSteps

LEMMA FullInit == Init => FullInv
<1> SUFFICES ASSUME Init PROVE FullInv
  OBVIOUS
<1>1. log = Log!EmptyLog /\ synced = Log!EmptyLog /\ db.head = None /\ pc = "idle"
  BY DEF Init, Genesis
<1>2. \A n \in 1 .. MaxNum : ~Log!EmptyLog[n].live /\ ~(n <= 0)
  BY DEF Log!EmptyLog
<1>3. FullOn(Log!EmptyLog, None) /\ None \in BlockIds
  BY <1>2, Numbers DEF FullOn
<1> QED
  BY <1>1, <1>3 DEF FullInv, Exact

Kept == CInv(DbState) /\ FullInv

LEMMA KeptStep == Kept /\ [Next]_vars /\ [~SwitchFails /\ ~PopUncommitted]_vars => Kept'
<1> SUFFICES ASSUME Kept, [Next]_vars, [~SwitchFails /\ ~PopUncommitted]_vars PROVE Kept'
  OBVIOUS
<1>1. CInv(DbState) /\ FullInv /\ StateOK
  BY DEF Kept, CInv
<1>2. CInv(DbState)'
  BY <1>1, CStep, AnyState, ReplayedState
<1>3. CASE UNCHANGED vars
  <2>1. FullInv'
    BY <1>1, <1>3 DEF vars, FullInv, Exact, FullOn
  <2> QED
    BY <1>2, <2>1 DEF Kept
<1>4. CASE ~SwitchFails /\ ~PopUncommitted
  BY <1>1, <1>2, <1>4, FullStep, AnyState DEF Kept
<1> QED
  BY <1>3, <1>4

\* The block log holds exactly the current chain, through fork switches, crashes
\* that lose the last write, replays and clean restarts; as long as no switch fails
\* (the unwinding stores blocks under another id) and pop_block does not find the
\* undo history empty after it has removed the block.
THEOREM LogTheorem == Spec /\ [][~SwitchFails /\ ~PopUncommitted]_vars => []LogMatchesChain
<1>1. Init => Kept
  BY CInit, AnyState, FullInit DEF Kept
<1>2. Kept => LogMatchesChain
  <2> SUFFICES ASSUME Kept, pc = "idle", NEW n \in 1 .. MaxNum
               PROVE  IF n <= Num[db.head]
                      THEN log[n] = [id |-> PathTo[db.head][n], data |-> PathTo[db.head][n], live |-> TRUE]
                      ELSE ~log[n].live
    BY DEF LogMatchesChain
  <2>1. FullOn(log, db.head)
    BY DEF Kept, FullInv
  <2> QED
    BY <2>1 DEF FullOn
<1> QED
  BY <1>1, <1>2, KeptStep, PTL DEF Spec

\* A start, clean or after a crash, leaves the fork database at the head of the
\* object database, under the same hypothesis.
THEOREM StartTheorem == Spec /\ [][~SwitchFails /\ ~PopUncommitted]_vars => StartsFromHead
<1>1. Init => Kept
  BY CInit, AnyState, FullInit DEF Kept
<1>2. Kept /\ [Next]_vars => [pc = "down" /\ pc' = "idle" => fork'.head = db'.head]_vars
  <2> SUFFICES ASSUME Kept, Next, pc = "down", pc' = "idle" PROVE fork'.head = db'.head
    BY DEF vars
  <2>0. log \in LogState
    BY DEF Kept, CInv, StateOK
  <2>1. Open \/ Reindex
    BY DEF Next, PushStep, PushBlock, ApplyNew, ApplyNewFails, Notify, SwitchPop, SwitchApply, SwitchFails,
           UnwindPop, UnwindApply, SwitchThrows, Restore, PushTransaction, Close, Rewind, Flush, Crash
  <2>2. /\ Fork!ForkEmpty.head = None
        /\ \A b : Fork!start_block(Fork!ForkEmpty, b).head = b
        /\ \A b, n : Fork!set_max_size(Fork!start_block(Fork!ForkEmpty, b), n).head = b
    BY DEF Fork!ForkEmpty, Fork!start_block, Fork!set_max_size, Fork!EraseBelow, Fork!Erase
  <2>3. CASE Open
    <3>1. clean /\ db' = db
      BY <2>3 DEF Open
    <3>2. FullOn(log, db.head) /\ db.head \in BlockIds
      BY <3>1 DEF Kept, FullInv, CInv, HistOK, DbState
    <3>3. Log!last(log) = db.head
      BY <2>0, <3>2, ReplayedFull
    <3>4. fork' = IF Log!last(log) = None THEN Fork!ForkEmpty
                  ELSE Fork!start_block(Fork!ForkEmpty, Log!last(log))
      BY <2>3 DEF Open
    <3> QED
      BY <2>2, <3>1, <3>3, <3>4
  <2>4. CASE Reindex
    <3>1. PICK x \in BlockIds : FullOn(log, x)
      BY DEF Kept, FullInv, Exact
    <3>2. Log!last(log) = x /\ ReplayHead(log) = x
      BY <2>0, <3>1, ReplayedFull
    <3>3. db'.head = x
      BY <2>4, <3>2, ReindexSteps DEF Genesis
    <3>4. fork' = (IF x = None THEN Fork!ForkEmpty
                   ELSE Fork!set_max_size(Fork!start_block(Fork!ForkEmpty, x), HistorySize(x)))
      BY <2>4, <3>2, ReindexSteps
    <3> QED
      BY <2>2, <3>3, <3>4
  <2> QED
    BY <2>1, <2>3, <2>4
<1> QED
  BY <1>1, <1>2, KeptStep, PTL DEF Spec, StartsFromHead
=============================================================================
