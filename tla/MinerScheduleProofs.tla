------------------------- MODULE MinerScheduleProofs -------------------------
(***************************************************************************)
(* For any miners, parameters, rewards and block times: the supply          *)
(* process_budget asserts is the real one, a block becomes irreversible     *)
(* only when enough miners have built on it, every second has one slot,     *)
(* elections follow the median of the stakes, and the budget of an interval *)
(* covers its blocks.                                                       *)
(***************************************************************************)
EXTENDS MinerSchedule, SumTheorems, TLAPS, FiniteSetTheorems

\* The state a block is applied to, as far as money and confirmations go.
TypeOK ==
  /\ head \in Nat /\ time \in Int /\ lib \in Nat
  /\ active \subseteq Miners
  /\ confirmed \in [Miners -> Nat]
  /\ nextMaint \in Int /\ lastBudget \in Int
  /\ params \in Parameters /\ pending \subseteq Parameters
  /\ pool \in Int /\ supply \in Int /\ real \in Int
  /\ feeBudget \in Int /\ unspent \in Int /\ mined \in Int

\* What a miner is recorded to have confirmed is a block it signed.
ConfirmedSigned ==
  /\ signer \in [1..head -> Miners]
  /\ \A m \in Miners : /\ confirmed[m] <= head
                       /\ confirmed[m] > 0 => signer[confirmed[m]] = m

Inv == TypeOK /\ ConfirmedSigned

-----------------------------------------------------------------------------
\* The reward table has an entry for every block.
LEMMA RewardType ==
  ASSUME NEW n \in Nat
  PROVE  get_asset_per_block_by_block_num(n) \in Nat
<1> DEFINE S == {i \in DOMAIN Switches : Switches[i] <= n}
<1>1. Switches \in Seq(Nat) /\ Rewards \in Seq(Nat) /\ Len(Rewards) = Len(Switches) + 1
  BY ScheduleAssumption
<1>2. DOMAIN Switches = 1..Len(Switches) /\ Len(Switches) \in Nat
  BY <1>1
<1>3. IsFiniteSet(1..Len(Switches)) /\ Cardinality(1..Len(Switches)) = Len(Switches)
  <2>1. Cardinality(1..Len(Switches)) = IF 1 > Len(Switches) THEN 0 ELSE Len(Switches) - 1 + 1
    BY <1>2, FS_Interval
  <2>2. IsFiniteSet(1..Len(Switches))
    BY <1>2, FS_Interval
  <2> QED
    BY <1>2, <2>1, <2>2
<1>4. S \subseteq 1..Len(Switches)
  BY <1>2
<1>5. IsFiniteSet(S) /\ Cardinality(S) <= Len(Switches)
  BY <1>3, <1>4, FS_Subset
<1>6. Cardinality(S) \in Nat
  BY <1>5, FS_CardinalityType
<1>7. Cardinality(S) + 1 \in 1..Len(Rewards)
  BY <1>1, <1>2, <1>5, <1>6
<1>8. Rewards[Cardinality(S) + 1] \in Nat
  BY <1>1, <1>7
<1> QED
  BY <1>8 DEF get_asset_per_block_by_block_num

LEMMA PayType ==
  ASSUME TypeOK
  PROVE  PayFromFees \in Int
<1>1. params.block_interval \in Nat \ {0}
  BY ScheduleAssumption DEF TypeOK
<1> DEFINE n == (nextMaint - lastBudget + params.block_interval - 1) \div params.block_interval
<1>2. nextMaint - lastBudget + params.block_interval - 1 \in Int
  BY <1>1 DEF TypeOK
<1>3. n \in Int
  <2> HIDE DEF n
  <2>1. \A x \in Int, d \in Nat \ {0} : x \div d \in Int
    OBVIOUS
  <2> QED
    BY <1>1, <1>2, <2>1 DEF n
<1>4. n > 0 => feeBudget \div n \in Int
  <2> HIDE DEF n
  <2>1. \A x \in Int, d \in Nat \ {0} : x \div d \in Int
    OBVIOUS
  <2> QED
    BY <1>3, <2>1 DEF TypeOK
<1> QED
  BY <1>4 DEF PayFromFees

LEMMA NextMaintenanceType ==
  ASSUME TypeOK, NEW t \in Int, NEW p \in Parameters
  PROVE  NextMaintenanceTime(t, p) \in Int
<1>1. p.maintenance_interval \in Nat \ {0}
  BY ScheduleAssumption
<1>2. \A x \in Int, d \in Nat \ {0} : x \div d \in Int
  OBVIOUS
<1>3. t - nextMaint \in Int
  BY DEF TypeOK
<1>4. t \div p.maintenance_interval \in Int /\ (t - nextMaint) \div p.maintenance_interval \in Int
  BY <1>1, <1>2, <1>3
<1> DEFINE a == t \div p.maintenance_interval
           b == (t - nextMaint) \div p.maintenance_interval
           i == p.maintenance_interval
<1>5. (a + 1) * i \in Int /\ nextMaint + (b + 1) * i \in Int
  <2>1. a \in Int /\ b \in Int /\ i \in Int /\ nextMaint \in Int
    BY <1>1, <1>4 DEF TypeOK
  <2> HIDE DEF a, b, i
  <2> QED
    BY <2>1
<1> QED
  BY <1>5 DEF NextMaintenanceTime

-----------------------------------------------------------------------------
\* Applying a block keeps the invariant and the supply equation.
LEMMA ApplyBlock ==
  ASSUME Inv, NEW t \in Int, NEW m \in Miners, NEW skip \in BOOLEAN,
         apply_block(t, m, skip)
  PROVE  Inv' /\ (SupplyRecorded => SupplyRecorded')
<1> DEFINE fee == PayFromFees
           reward == get_asset_per_block_by_block_num(head + 1)
           u == unspent - fee
           r == mined + reward
<1>1. fee \in Int /\ reward \in Nat
  BY PayType, RewardType DEF Inv, TypeOK
<1>2. /\ head' = head + 1 /\ time' = t /\ signer' = Append(signer, m)
      /\ confirmed' = [confirmed EXCEPT ![m] = head + 1]
      /\ real' = real + fee + reward
  BY DEF apply_block, update_global_dynamic_data, update_signing_miner
<1>3. lib' \in Nat
  BY DEF apply_block, update_last_irreversible_block, Inv, TypeOK
<1>4. ConfirmedSigned'
  <2>1. signer \in [1..head -> Miners] /\ head \in Nat
    BY DEF Inv, TypeOK, ConfirmedSigned
  <2>2. signer \in Seq(Miners) /\ Len(signer) = head
    BY <2>1
  <2>3. signer' \in [1..(head + 1) -> Miners] /\ signer'[head + 1] = m
        /\ \A i \in 1..head : signer'[i] = signer[i]
    <3>1. Append(signer, m) \in Seq(Miners) /\ Len(Append(signer, m)) = head + 1
      BY <2>1, <2>2
    <3>2. DOMAIN Append(signer, m) = 1..(head + 1)
      BY <2>1, <3>1
    <3>3. Append(signer, m)[head + 1] = m
      BY <2>1, <2>2
    <3>4. \A i \in 1..head : Append(signer, m)[i] = signer[i]
      BY <2>1, <2>2
    <3>5. Append(signer, m) \in [1..(head + 1) -> Miners]
      <4>1. \A s \in Seq(Miners) : s \in [DOMAIN s -> Miners]
        OBVIOUS
      <4> QED
        BY <3>1, <3>2, <4>1
    <3> QED
      BY <1>2, <3>3, <3>4, <3>5
  <2>4. ASSUME NEW w \in Miners
        PROVE  confirmed'[w] <= head' /\ (confirmed'[w] > 0 => signer'[confirmed'[w]] = w)
    <3>1. confirmed \in [Miners -> Nat] /\ confirmed[w] <= head
          /\ (confirmed[w] > 0 => signer[confirmed[w]] = w)
      BY DEF Inv, TypeOK, ConfirmedSigned
    <3>2. CASE w = m
      <4>1. confirmed'[w] = head + 1
        BY <1>2, <3>1, <3>2
      <4> QED
        BY <1>2, <2>1, <2>3, <3>2, <4>1
    <3>3. CASE w # m
      <4>1. confirmed'[w] = confirmed[w] /\ confirmed[w] \in Nat
        BY <1>2, <3>1, <3>3
      <4>2. confirmed[w] > 0 => confirmed[w] \in 1..head
        BY <2>1, <3>1, <4>1
      <4> QED
        BY <1>2, <2>1, <2>3, <3>1, <4>1, <4>2
    <3> QED
      BY <3>2, <3>3
  <2> QED
    BY <1>2, <2>3, <2>4 DEF ConfirmedSigned
<1>5. CASE nextMaint <= t
  <2>1. perform_chain_maintenance(t, u, r)
    BY <1>5 DEF apply_block
  <2>2. params' \in Parameters /\ pending' = {} /\ active' \subseteq Miners
    BY <2>1 DEF perform_chain_maintenance, update_active_miners, Elected,
                sort_votable_objects, Inv, TypeOK
  <2>3. nextMaint' \in Int
    BY <2>1, <2>2, NextMaintenanceType DEF perform_chain_maintenance, Inv
  <2>4. /\ supply' = supply + (r + feeBudget - u) - pool
        /\ pool' = 0 /\ mined' = 0 /\ lastBudget' = t
        /\ feeBudget' = pool + u /\ unspent' = pool + u
    BY <2>1 DEF perform_chain_maintenance, process_budget
  <2>5. TypeOK'
    <3>1. /\ head' \in Nat /\ time' \in Int /\ confirmed' \in [Miners -> Nat]
          /\ real' \in Int
      BY <1>1, <1>2 DEF Inv, TypeOK
    <3>2. /\ pool' \in Int /\ supply' \in Int /\ feeBudget' \in Int /\ unspent' \in Int
          /\ mined' \in Int /\ lastBudget' \in Int
      <4> HIDE DEF fee, reward
      <4> QED
        BY <1>1, <2>4 DEF Inv, TypeOK
    <3> QED
      BY <1>3, <2>2, <2>3, <3>1, <3>2 DEF TypeOK
  <2>6. SupplyRecorded => SupplyRecorded'
    BY <1>1, <1>2, <2>4 DEF SupplyRecorded, Inv, TypeOK
  <2> QED
    BY <1>4, <2>5, <2>6 DEF Inv
<1>6. CASE ~(nextMaint <= t)
  <2>1. NoMaintenance(u, r)
    BY <1>6 DEF apply_block
  <2>2. TypeOK'
    BY <1>1, <1>2, <1>3, <2>1 DEF NoMaintenance, Inv, TypeOK, budget, election
  <2>3. /\ unspent' = unspent - fee /\ mined' = mined + reward
        /\ supply' = supply /\ feeBudget' = feeBudget /\ pool' = pool
    BY <2>1 DEF NoMaintenance
  <2>4. /\ supply \in Int /\ mined \in Int /\ feeBudget \in Int /\ unspent \in Int
        /\ pool \in Int /\ real \in Int /\ real' = real + fee + reward
    BY <1>2 DEF Inv, TypeOK
  <2>5. SupplyRecorded => SupplyRecorded'
    <3> HIDE DEF fee, reward
    <3> QED
      BY <1>1, <2>3, <2>4 DEF SupplyRecorded
  <2> QED
    BY <1>4, <2>2, <2>5 DEF Inv
<1> QED
  BY <1>5, <1>6

LEMMA InvInit == Init => Inv /\ SupplyRecorded
<1> SUFFICES ASSUME Init PROVE Inv /\ SupplyRecorded
  OBVIOUS
<1>1. TypeOK
  BY ScheduleAssumption DEF Init, TypeOK
<1>2. ConfirmedSigned
  BY DEF Init, ConfirmedSigned
<1>3. SupplyRecorded
  BY ScheduleAssumption DEF Init, SupplyRecorded
<1> QED
  BY <1>1, <1>2, <1>3 DEF Inv

\* A step of the specification is a block or leaves the chain alone.
LEMMA InvNext == Inv /\ [Next]_vars => Inv' /\ (SupplyRecorded => SupplyRecorded')
<1> SUFFICES ASSUME Inv, [Next]_vars
             PROVE  Inv' /\ (SupplyRecorded => SupplyRecorded')
  OBVIOUS
<1>1. CASE ReceiveBlock
  <2>1. PICK t \in (time + 1)..MaxTime, m \in Miners : apply_block(t, m, FALSE)
    BY <1>1 DEF ReceiveBlock
  <2>2. t \in Int
    BY <2>1 DEF Inv, TypeOK
  <2> QED
    BY <2>1, <2>2, ApplyBlock
<1>2. ASSUME NEW now \in 1..MaxTime, ProduceBlock(now)
      PROVE  Inv' /\ (SupplyRecorded => SupplyRecorded')
  <2>1. get_scheduled_miner(get_slot_at_time(now)) \in Miners
    BY <1>2, ScheduleAssumption DEF ProduceBlock, CanProduce
  <2>2. apply_block(now, get_scheduled_miner(get_slot_at_time(now)), StaleProduction)
    BY <1>2 DEF ProduceBlock
  <2>3. now \in Int
    OBVIOUS
  <2> QED
    BY <2>1, <2>2, <2>3, ApplyBlock, ScheduleAssumption
<1>3. ASSUME NEW now \in 1..MaxTime, EnableProduction(now)
      PROVE  Inv' /\ (SupplyRecorded => SupplyRecorded')
  BY <1>3 DEF EnableProduction, Inv, TypeOK, ConfirmedSigned, SupplyRecorded, slots, election, budget
<1>4. ASSUME NEW f \in Fees, PayFee(f)
      PROVE  Inv' /\ (SupplyRecorded => SupplyRecorded')
  <2>1. f \in Nat
    BY ScheduleAssumption
  <2> QED
    BY <1>4, <2>1 DEF PayFee, Inv, TypeOK, ConfirmedSigned, SupplyRecorded, slots, election, budget
<1>5. ASSUME NEW a \in Stakeholders, NEW o \in Opinions, UpdateOpinion(a, o)
      PROVE  Inv' /\ (SupplyRecorded => SupplyRecorded')
  BY <1>5 DEF UpdateOpinion, Inv, TypeOK, ConfirmedSigned, SupplyRecorded, slots, election, budget
<1>6. ASSUME NEW p \in Parameters, miner_update_global_parameters(p)
      PROVE  Inv' /\ (SupplyRecorded => SupplyRecorded')
  BY <1>6 DEF miner_update_global_parameters, Inv, TypeOK, ConfirmedSigned, SupplyRecorded,
              slots, election, budget
<1>7. CASE UNCHANGED vars
  BY <1>7 DEF vars, Inv, TypeOK, ConfirmedSigned, SupplyRecorded, slots, election, budget
<1> QED
  BY <1>1, <1>2, <1>3, <1>4, <1>5, <1>6, <1>7 DEF Next, maybe_produce_block, Transaction

\* At every maintenance the supply process_budget asserts is the real one, for
\* any fees, rewards, parameters and block times.
THEOREM SupplyTheorem == Spec => []SupplyRecorded
<1>1. Init => Inv /\ SupplyRecorded
  BY InvInit
<1>2. (Inv /\ SupplyRecorded) /\ [Next]_vars => (Inv /\ SupplyRecorded)'
  BY InvNext
<1> QED
  BY <1>1, <1>2, PTL DEF Spec

-----------------------------------------------------------------------------
\* All but Offset of the active miners have confirmed the value nth_element
\* selects, or a later block.
LEMMA NthElement ==
  ASSUME active \subseteq Miners, NEW c \in [Miners -> Nat], NEW v \in Nat, NthConfirmed(c, v)
  PROVE  /\ IsFiniteSet(active)
         /\ 100 * Cardinality({m \in active : c[m] >= v}) >= Threshold * Cardinality(active)
<1> DEFINE L == {m \in active : c[m] < v}
           G == {m \in active : c[m] >= v}
           n == Cardinality(active)
<1>1. IsFiniteSet(active)
  BY ScheduleAssumption, FS_Subset
<1>2. n \in Nat
  BY <1>1, FS_CardinalityType
<1>3. IsFiniteSet(L) /\ IsFiniteSet(G) /\ L \cup G = active /\ L \cap G = {}
  <2>1. L \subseteq active /\ G \subseteq active
    OBVIOUS
  <2>2. L \cup G = active /\ L \cap G = {}
    OBVIOUS
  <2> QED
    BY <1>1, <2>1, <2>2, FS_Subset
<1>4. n = Cardinality(L) + Cardinality(G) - Cardinality({})
  BY <1>3, FS_Union
<1>5. Cardinality(L) \in Nat /\ Cardinality(G) \in Nat /\ Cardinality({}) = 0
  BY <1>3, FS_CardinalityType, FS_EmptySet
<1>6. Cardinality(L) <= ((100 - Threshold) * n) \div 100
  BY DEF NthConfirmed, Offset
<1>7. Threshold \in 1..100
  BY ScheduleAssumption
<1>8. 100 * Cardinality(G) >= Threshold * n
  <2> DEFINE l == Cardinality(L)
             g == Cardinality(G)
             k == (100 - Threshold) * n
  <2>1. k \in Nat
    BY <1>2, <1>7
  <2>2. 100 * (k \div 100) <= k /\ k \div 100 \in Nat
    <3> HIDE DEF k
    <3> QED
      BY <2>1
  <2>3. l <= k \div 100 /\ l \in Nat /\ g \in Nat /\ n = l + g
    BY <1>4, <1>5, <1>6
  <2>4. 100 * l <= k
    <3> HIDE DEF k, l
    <3> QED
      BY <2>1, <2>2, <2>3
  <2>5. k = 100 * n - Threshold * n
    BY <1>2, <1>7
  <2> HIDE DEF l, g, k, n
  <2>6. Threshold * n \in Int
    BY <1>2, <1>7
  <2>7. 100 * g >= Threshold * n
    BY <2>3, <2>4, <2>5, <2>6, <1>2
  <2> QED
    BY <2>7 DEF g
<1> QED
  BY <1>1, <1>8

\* A block confirmed is a block signed, and every block above it builds on it.
LEMMA RaisedConfirmed ==
  ASSUME Inv, NEW t \in Int, NEW m \in Miners, apply_block(t, m, FALSE), lib' > lib
  PROVE  100 * Cardinality({w \in active : \E b \in lib'..head' : signer'[b] = w})
           >= Threshold * Cardinality(active)
<1>1. PICK v \in 0..(head + 1) : NthConfirmed(confirmed', v) /\ lib' = IF v > lib THEN v ELSE lib
  BY DEF apply_block, update_last_irreversible_block
<1>2. lib' = v /\ v \in Nat /\ v > 0
  BY <1>1 DEF Inv, TypeOK
<1>3. Inv'
  BY ApplyBlock
<1>4. confirmed' \in [Miners -> Nat] /\ active \subseteq Miners
  BY <1>3 DEF Inv, TypeOK
<1> DEFINE G == {w \in active : confirmed'[w] >= v}
           S == {w \in active : \E b \in lib'..head' : signer'[b] = w}
<1>5. IsFiniteSet(active) /\ 100 * Cardinality(G) >= Threshold * Cardinality(active)
  BY <1>1, <1>2, <1>4, NthElement
<1>6. G \subseteq S
  <2>1. ASSUME NEW w \in G
        PROVE  \E b \in lib'..head' : signer'[b] = w
    <3>1. w \in Miners /\ confirmed'[w] \in Nat /\ confirmed'[w] >= v
      BY <1>4
    <3>2. confirmed'[w] <= head' /\ (confirmed'[w] > 0 => signer'[confirmed'[w]] = w)
      BY <1>3, <3>1 DEF Inv, ConfirmedSigned
    <3>3. head' \in Nat
      BY <1>3 DEF Inv, TypeOK
    <3>4. confirmed'[w] > 0 /\ confirmed'[w] \in v..head'
      BY <1>2, <3>1, <3>2, <3>3
    <3> QED
      BY <1>2, <3>2, <3>4
  <2> QED
    BY <2>1
<1>7. IsFiniteSet(S) /\ Cardinality(G) <= Cardinality(S) /\ IsFiniteSet(G)
  <2>1. S \subseteq active
    OBVIOUS
  <2> QED
    BY <1>5, <1>6, <2>1, FS_Subset
<1>8. Cardinality(G) \in Nat /\ Cardinality(S) \in Nat /\ Cardinality(active) \in Nat
  BY <1>5, <1>7, FS_CardinalityType
<1>9. Threshold * Cardinality(active) \in Int
  <2>1. Threshold \in Int
    BY ScheduleAssumption
  <2> QED
    BY <1>8, <2>1
<1> QED
  BY <1>5, <1>7, <1>8, <1>9

\* Without stale production, for any number of miners and any threshold, a
\* block becomes irreversible only when the threshold has built on it.
THEOREM IrreversibleTheorem ==
  ASSUME StaleProduction = FALSE
  PROVE  Spec => IrreversibleConfirmed
<1>1. Inv /\ [Next]_vars => [RaiseConfirmed]_vars
  <2> SUFFICES ASSUME Inv, Next PROVE RaiseConfirmed
    OBVIOUS
  <2>1. CASE ReceiveBlock
    <3>1. PICK t \in (time + 1)..MaxTime, m \in Miners : apply_block(t, m, FALSE)
      BY <2>1 DEF ReceiveBlock
    <3>2. t \in Int
      BY <3>1 DEF Inv, TypeOK
    <3> QED
      BY <3>1, <3>2, RaisedConfirmed DEF RaiseConfirmed
  <2>2. ASSUME NEW now \in 1..MaxTime, ProduceBlock(now)
        PROVE  RaiseConfirmed
    <3>1. get_scheduled_miner(get_slot_at_time(now)) \in Miners
      BY <2>2, ScheduleAssumption DEF ProduceBlock, CanProduce
    <3>2. apply_block(now, get_scheduled_miner(get_slot_at_time(now)), FALSE)
      BY <2>2 DEF ProduceBlock
    <3>3. now \in Int
      OBVIOUS
    <3> QED
      BY <3>1, <3>2, <3>3, RaisedConfirmed DEF RaiseConfirmed
  <2>3. ASSUME NEW now \in 1..MaxTime, EnableProduction(now)
        PROVE  RaiseConfirmed
    BY <2>3 DEF RaiseConfirmed, EnableProduction, Inv, TypeOK
  <2>4. CASE Transaction
    BY <2>4 DEF RaiseConfirmed, Transaction, PayFee, UpdateOpinion, miner_update_global_parameters, Inv, TypeOK
  <2> QED
    BY <2>1, <2>2, <2>3, <2>4 DEF Next, maybe_produce_block
<1>2. Spec => []Inv
  <2>1. Init => Inv
    BY InvInit
  <2>2. Inv /\ [Next]_vars => Inv'
    BY InvNext
  <2> QED
    BY <2>1, <2>2, PTL DEF Spec
<1> QED
  BY <1>1, <1>2, PTL DEF Spec, IrreversibleConfirmed


-----------------------------------------------------------------------------
\* Products grow with their factors.
LEMMA TimesMonotone ==
  ASSUME NEW d \in Nat, NEW a \in Int, NEW b \in Int, a <= b
  PROVE  d * a \in Int /\ d * b \in Int /\ d * a <= d * b
<1> DEFINE c == b - a
<1>1. c \in Nat /\ b = a + c
  OBVIOUS
<1> HIDE DEF c
<1>2. d * c \in Nat /\ d * a \in Int
  BY <1>1
<1>3. d * b = d * a + d * c
  BY <1>1
<1> QED
  BY <1>2, <1>3

\* The quotient by a positive divisor.
LEMMA Quotient ==
  ASSUME NEW x \in Int, NEW d \in Nat \ {0}
  PROVE  /\ x \div d \in Int
         /\ d * (x \div d) \in Int
         /\ d * (x \div d) <= x
         /\ x < d * (x \div d) + d
  OBVIOUS

LEMMA QuotientAtLeast ==
  ASSUME NEW x \in Int, NEW d \in Nat \ {0}, NEW q \in Int, d * q <= x
  PROVE  q <= x \div d
<1> DEFINE e == x \div d
<1>1. e \in Int /\ d * e \in Int /\ x < d * e + d
  BY Quotient
<1> HIDE DEF e
<1> SUFFICES ASSUME e + 1 <= q PROVE FALSE
  BY <1>1 DEF e
<1>2. d * (e + 1) <= d * q /\ d * q \in Int
  BY <1>1, TimesMonotone
<1>3. d * (e + 1) = d * e + d
  BY <1>1
<1> QED
  BY <1>1, <1>2, <1>3

LEMMA QuotientBelow ==
  ASSUME NEW x \in Int, NEW d \in Nat \ {0}, NEW q \in Int, x < d * q + d
  PROVE  x \div d <= q
<1> DEFINE e == x \div d
<1>1. e \in Int /\ d * e \in Int /\ d * e <= x
  BY Quotient
<1> HIDE DEF e
<1> SUFFICES ASSUME q + 1 <= e PROVE FALSE
  BY <1>1 DEF e
<1>2. d * (q + 1) <= d * e
  BY <1>1, TimesMonotone
<1>3. d * (q + 1) = d * q + d /\ d * q \in Int
  OBVIOUS
<1> QED
  BY <1>1, <1>2, <1>3

LEMMA QuotientIs ==
  ASSUME NEW x \in Int, NEW d \in Nat \ {0}, NEW q \in Int, d * q <= x, x < d * q + d
  PROVE  x \div d = q
<1>1. x \div d \in Int
  BY Quotient
<1> QED
  BY <1>1, QuotientAtLeast, QuotientBelow

-----------------------------------------------------------------------------
\* What the slots depend on.
SlotsTyped ==
  /\ head \in Nat /\ time \in Nat
  /\ params \in Parameters /\ maintFlag \in BOOLEAN

\* Where the first slot after the head block begins: slots are as long as the
\* block interval and follow each other without a gap.
SlotBase ==
  IF head = 0 THEN time
  ELSE (time \div params.block_interval) * params.block_interval
         + params.block_interval * (IF maintFlag THEN params.maintenance_skip_slots ELSE 0)

LEMMA SlotTime ==
  ASSUME SlotsTyped
  PROVE  /\ params.block_interval \in Nat \ {0}
         /\ SlotBase \in Int
         /\ SlotBase + params.block_interval > time
         /\ \A n \in Nat : get_slot_time(n) = SlotBase + params.block_interval * n
<1> DEFINE I == params.block_interval
           q == time \div I
           s == IF maintFlag THEN params.maintenance_skip_slots ELSE 0
<1>1. I \in Nat \ {0} /\ s \in Nat /\ time \in Nat /\ head \in Nat
  BY ScheduleAssumption DEF SlotsTyped
<1>2. q \in Int /\ I * q \in Int /\ time < I * q + I
  <2> HIDE DEF I
  <2> QED
    BY <1>1, Quotient
<1>3. SlotBase = IF head = 0 THEN time ELSE q * I + I * s
  BY DEF SlotBase
<1>4. \A n \in Nat : get_slot_time(n) = IF head = 0 THEN time + n * I ELSE q * I + I * (n + s)
  BY DEF get_slot_time
<1> HIDE DEF I, q, s
<1>5. I * s \in Nat /\ q * I = I * q
  BY <1>1, <1>2
<1>6. SlotBase \in Int /\ SlotBase + I > time
  BY <1>1, <1>2, <1>3, <1>5
<1>7. ASSUME NEW n \in Nat PROVE get_slot_time(n) = SlotBase + I * n
  <2>1. I * (n + s) = I * n + I * s /\ n * I = I * n /\ I * n \in Int
    BY <1>1
  <2> QED
    BY <1>1, <1>2, <1>3, <1>4, <1>5, <2>1
<1> QED
  BY <1>1, <1>6, <1>7 DEF I

\* A second is in slot n exactly when it is in the n-th interval.
LEMMA SlotAtTime ==
  ASSUME SlotsTyped, NEW n \in Nat \ {0}, NEW t \in Int,
         get_slot_time(n) <= t, t < get_slot_time(n + 1)
  PROVE  get_slot_at_time(t) = n
<1> DEFINE I == params.block_interval
           B == SlotBase
<1>1. I \in Nat \ {0} /\ B \in Int /\ \A k \in Nat : get_slot_time(k) = B + I * k
  BY SlotTime
<1> DEFINE x == t - get_slot_time(1)
<1>2. get_slot_at_time(t) = IF t < get_slot_time(1) THEN 0 ELSE x \div I + 1
  BY DEF get_slot_at_time
<1>3. get_slot_time(1) = B + I /\ get_slot_time(n) = B + I * n /\ get_slot_time(n + 1) = B + I * (n + 1)
  <2> HIDE DEF I, B
  <2>1. I * 1 = I
    BY <1>1
  <2> QED
    BY <1>1, <2>1
<1>4. x \in Int
  <2> HIDE DEF I, B
  <2> QED
    BY <1>1, <1>3
<1>5. I * (n - 1) <= x /\ x < I * (n - 1) + I /\ t >= B + I
  <2> HIDE DEF I, B
  <2>1. I * (n + 1) = I * n + I /\ I * (n - 1) = I * n - I /\ I * n \in Int
    BY <1>1
  <2>2. I * 1 <= I * n /\ I * 1 = I
    BY <1>1, TimesMonotone
  <2> QED
    BY <1>1, <1>3, <2>1, <2>2
<1>6. x \div I = n - 1
  <2> DEFINE k == n - 1
  <2>1. k \in Int /\ I * k <= x /\ x < I * k + I
    BY <1>5
  <2> HIDE DEF I, B, x, k
  <2>2. x \div I = k
    BY <1>1, <1>4, <2>1, QuotientIs
  <2> QED
    BY <2>2 DEF k
<1> HIDE DEF I, B, x
<1> QED
  BY <1>1, <1>2, <1>3, <1>5, <1>6

\* The head block's own second is before the first slot.
LEMMA SlotsPartition == SlotsTyped => SlotsPartitionTime
<1> SUFFICES ASSUME SlotsTyped PROVE SlotsPartitionTime
  OBVIOUS
<1> DEFINE I == params.block_interval
           B == SlotBase
<1>1. /\ I \in Nat \ {0} /\ B \in Int /\ B + I > time
      /\ \A k \in Nat : get_slot_time(k) = B + I * k
  BY SlotTime
<1>2. time \in Nat
  BY DEF SlotsTyped
<1> HIDE DEF I, B
<1>3. ASSUME NEW n \in Nat \ {0} PROVE get_slot_time(n) \in Int /\ get_slot_time(n) > time
  <2>1. I * 1 <= I * n /\ I * 1 = I /\ I * n \in Int
    BY <1>1, TimesMonotone
  <2> QED
    BY <1>1, <1>2, <2>1
<1>4. get_slot_at_time(time) = 0
  <2>1. get_slot_time(1) > time
    BY <1>3
  <2> QED
    BY <1>2, <1>3, <2>1 DEF get_slot_at_time
<1>5. ASSUME NEW n \in 1..3
      PROVE  /\ get_slot_time(n) > time
             /\ \A t \in get_slot_time(n)..(get_slot_time(n + 1) - 1) : get_slot_at_time(t) = n
  <2>1. get_slot_time(n) \in Int /\ get_slot_time(n + 1) \in Int /\ get_slot_time(n) > time
    BY <1>3
  <2>2. ASSUME NEW t \in get_slot_time(n)..(get_slot_time(n + 1) - 1)
        PROVE  get_slot_at_time(t) = n
    <3>1. t \in Int /\ get_slot_time(n) <= t /\ t < get_slot_time(n + 1)
      BY <2>1
    <3> QED
      BY <3>1, SlotAtTime
  <2> QED
    BY <2>1, <2>2
<1> QED
  BY <1>4, <1>5 DEF SlotsPartitionTime
-----------------------------------------------------------------------------
\* A step that moves the clock applies a block.
LEMMA BlockOrNot ==
  ASSUME Inv, [Next]_vars
  PROVE  \/ \E t \in Int, m \in Miners, skip \in BOOLEAN : apply_block(t, m, skip)
         \/ /\ UNCHANGED <<head, time, maintFlag, nextMaint, params, budget>>
            /\ pool' = pool \/ \E f \in Fees : pool' = pool + f
<1>1. CASE ReceiveBlock
  <2>1. PICK t \in (time + 1)..MaxTime, m \in Miners : apply_block(t, m, FALSE)
    BY <1>1 DEF ReceiveBlock
  <2>2. t \in Int
    BY <2>1 DEF Inv, TypeOK
  <2> QED
    BY <2>1, <2>2
<1>2. ASSUME NEW now \in 1..MaxTime, ProduceBlock(now)
      PROVE  \E t \in Int, m \in Miners, skip \in BOOLEAN : apply_block(t, m, skip)
  <2>1. get_scheduled_miner(get_slot_at_time(now)) \in Miners
    BY <1>2, ScheduleAssumption DEF ProduceBlock, CanProduce
  <2>2. apply_block(now, get_scheduled_miner(get_slot_at_time(now)), StaleProduction)
    BY <1>2 DEF ProduceBlock
  <2>3. now \in Int
    OBVIOUS
  <2> QED
    BY <2>1, <2>2, <2>3, ScheduleAssumption
<1>3. ASSUME NEW now \in 1..MaxTime, EnableProduction(now)
      PROVE  UNCHANGED <<head, time, maintFlag, nextMaint, params, budget, pool>>
  BY <1>3 DEF EnableProduction
<1>4. ASSUME NEW f \in Fees, PayFee(f)
      PROVE  UNCHANGED <<head, time, maintFlag, nextMaint, params, budget>> /\ pool' = pool + f
  BY <1>4 DEF PayFee
<1>5. ASSUME NEW a \in Stakeholders, NEW o \in Opinions, UpdateOpinion(a, o)
      PROVE  UNCHANGED <<head, time, maintFlag, nextMaint, params, budget, pool>>
  BY <1>5 DEF UpdateOpinion
<1>6. ASSUME NEW p \in Parameters, miner_update_global_parameters(p)
      PROVE  UNCHANGED <<head, time, maintFlag, nextMaint, params, budget, pool>>
  BY <1>6 DEF miner_update_global_parameters
<1>7. CASE UNCHANGED vars
  BY <1>7 DEF vars
<1> QED
  BY <1>1, <1>2, <1>3, <1>4, <1>5, <1>6, <1>7 DEF Next, maybe_produce_block, Transaction

LEMMA SlotsInit == Init => SlotsTyped
<1> SUFFICES ASSUME Init PROVE SlotsTyped
  OBVIOUS
<1>1. head = 0 /\ time = GenesisTime /\ params = Parameters0
  BY DEF Init
<1>2. GenesisTime \in Nat /\ Parameters0 \in Parameters
  BY ScheduleAssumption
<1>3. maintFlag \in BOOLEAN
  BY Zenon DEF Init
<1> QED
  BY <1>1, <1>2, <1>3 DEF SlotsTyped

LEMMA SlotsNext == Inv /\ SlotsTyped /\ [Next]_vars => SlotsTyped'
<1> SUFFICES ASSUME Inv, SlotsTyped, [Next]_vars PROVE SlotsTyped'
  OBVIOUS
<1>1. ASSUME NEW t \in Int, NEW m \in Miners, NEW skip \in BOOLEAN, apply_block(t, m, skip)
      PROVE  SlotsTyped'
  <2>1. head' = head + 1 /\ time' = t /\ time < t
    BY <1>1 DEF apply_block, validate_block_header, update_global_dynamic_data
  <2>2. maintFlag' = (nextMaint <= t)
    BY <1>1 DEF apply_block
  <2>3. Inv'
    BY <1>1, ApplyBlock
  <2> QED
    BY <2>1, <2>2, <2>3 DEF SlotsTyped, Inv, TypeOK
<1>2. CASE UNCHANGED <<head, time, maintFlag, nextMaint, params, budget>>
  BY <1>2 DEF SlotsTyped
<1> QED
  BY <1>1, <1>2, BlockOrNot

LEMMA Invariance == Spec => [](Inv /\ SlotsTyped)
<1>1. Init => Inv /\ SlotsTyped
  BY InvInit, SlotsInit
<1>2. (Inv /\ SlotsTyped) /\ [Next]_vars => (Inv /\ SlotsTyped)'
  BY InvNext, SlotsNext
<1> QED
  BY <1>1, <1>2, PTL DEF Spec

\* For any parameters that may be voted in and any block times, the slots
\* divide the time after the head block: each is after it, each second of a
\* slot is found to be in that slot, and the head block's is in none.
THEOREM SlotsTheorem == Spec => []SlotsPartitionTime
<1>1. Inv /\ SlotsTyped => SlotsPartitionTime
  BY SlotsPartition
<1> QED
  BY <1>1, Invariance, PTL


-----------------------------------------------------------------------------
\* Stakes add up over disjoint groups of stakeholders.
LEMMA StakeType ==
  ASSUME NEW S \in SUBSET Stakeholders
  PROVE  IsFiniteSet(S) /\ IntValued(Stake, S) /\ StakeOf(S) \in Nat
<1>1. IsFiniteSet(S) /\ \A x \in S : Stake[x] \in Nat
  BY ScheduleAssumption, FS_Subset
<1> QED
  BY <1>1, SumNat DEF StakeOf, IntValued

LEMMA StakeSplit ==
  ASSUME NEW S \in SUBSET Stakeholders, NEW T \in SUBSET S
  PROVE  StakeOf(S) = StakeOf(T) + StakeOf(S \ T)
<1>1. S \ T \in SUBSET Stakeholders /\ T \in SUBSET Stakeholders
      /\ T \cup (S \ T) = S /\ T \cap (S \ T) = {}
  OBVIOUS
<1>2. IsFiniteSet(T) /\ IsFiniteSet(S \ T) /\ IntValued(Stake, T \cup (S \ T))
  BY <1>1, StakeType
<1>3. SumFunctionOnSet(Stake, T \cup (S \ T))
        = SumFunctionOnSet(Stake, T) + SumFunctionOnSet(Stake, S \ T)
  BY <1>1, <1>2, SumUnion
<1> QED
  BY <1>1, <1>3 DEF StakeOf

LEMMA StakeMonotone ==
  ASSUME NEW S \in SUBSET Stakeholders, NEW T \in SUBSET S
  PROVE  StakeOf(T) <= StakeOf(S)
<1>1. StakeOf(S) = StakeOf(T) + StakeOf(S \ T)
  BY StakeSplit
<1>2. StakeOf(T) \in Nat /\ StakeOf(S \ T) \in Nat
  BY StakeType
<1> QED
  BY <1>1, <1>2

\* Groups of stakeholders by the count w they ask for.
AskingFor(w, S, j) == {a \in S : w[a] = j}
AskingUpTo(w, S, i) == {a \in S : w[a] \in 1..i}
AskingMore(w, S, c) == {a \in S : w[a] > c}
AskingFewer(w, S, c) == {a \in S : w[a] < c}

\* The bins of a histogram up to i hold the stake of those who asked for
\* something up to i.
LEMMA HistogramSum ==
  ASSUME NEW w, NEW Ok \in SUBSET Stakeholders, NEW i \in Nat, NEW hist,
         \A j \in 1..i : hist[j] = StakeOf(AskingFor(w, Ok, j))
  PROVE  SumFunctionOnSet(hist, 1..i) = StakeOf(AskingUpTo(w, Ok, i))
<1> USE DEF AskingFor, AskingUpTo, AskingMore, AskingFewer
<1> DEFINE S == AskingUpTo(w, Ok, i)
           A == 1..i
<1>1. S \in SUBSET Stakeholders /\ S \in SUBSET Ok
  OBVIOUS
<1>2. IsFiniteSet(S) /\ IntValued(Stake, S)
  BY <1>1, StakeType
<1>3. IsFiniteSet(A)
  BY FS_Interval
<1>4. ASSUME NEW j \in A
      PROVE  hist[j] = SumFunctionOnSet(OwnedBy(Stake, w, S, j), S)
  <2> DEFINE T == AskingFor(w, Ok, j)
             g == OwnedBy(Stake, w, S, j)
  <2>1. T \in SUBSET S
    OBVIOUS
  <2>2. IntValued(Stake, T)
    BY <1>2, <2>1 DEF IntValued
  <2>3. \A a \in S : g[a] = IF a \in T THEN Stake[a] ELSE 0
    BY DEF OwnedBy
  <2>4. hist[j] = StakeOf(T)
    OBVIOUS
  <2> HIDE DEF S, T, g
  <2>5. SumFunctionOnSet(g, S) = SumFunctionOnSet(Stake, T)
    BY <1>2, <2>1, <2>2, <2>3, SumFilter
  <2> QED
    BY <2>4, <2>5 DEF StakeOf, g
<1>5. \A a \in S : w[a] \in A
  OBVIOUS
<1> HIDE DEF S, A
<1>6. SumFunctionOnSet(hist, A) = SumFunctionOnSet(Stake, S)
  BY <1>2, <1>3, <1>4, <1>5, SumByOwner
<1> QED
  BY <1>6 DEF StakeOf, S, A

\* A bin at which more than half of the stake is reached, and not before, is
\* a median.
MedianBin(w, Ok, bins, voters, target, c) ==
  /\ c \in 1..bins
  /\ c # bins => StakeOf(AskingUpTo(w, Ok, c)) > target
  /\ \A i \in 1..bins : i < c => ~(StakeOf(AskingUpTo(w, Ok, i)) > target)

LEMMA MedianOf ==
  ASSUME NEW w, NEW Ok \in SUBSET Stakeholders, NEW bins \in Nat,
         \A a \in Stakeholders : w[a] \in 0..bins,
         \A a \in Stakeholders : a \notin Ok => w[a] = bins,
         NEW voters, voters = AskingMore(w, Stakeholders, 0),
         NEW target \in Nat, 2 * target <= StakeOf(voters), StakeOf(voters) <= 2 * target + 1,
         NEW c, MedianBin(w, Ok, bins, voters, target, c)
  PROVE  /\ 2 * StakeOf(AskingMore(w, voters, c)) <= StakeOf(voters)
         /\ 2 * StakeOf(AskingFewer(w, voters, c)) <= StakeOf(voters)
<1> USE DEF AskingFor, AskingUpTo, AskingMore, AskingFewer
<1> DEFINE V == StakeOf(voters)
           More == AskingMore(w, voters, c)
           Fewer == AskingFewer(w, voters, c)
<1>1. voters \in SUBSET Stakeholders /\ V \in Nat
  BY StakeType
<1>2. c \in 1..bins
  BY DEF MedianBin
<1>8. More \in SUBSET voters /\ Fewer \in SUBSET voters
  OBVIOUS
<1>9. StakeOf(More) \in Nat /\ StakeOf(Fewer) \in Nat
  <2>1. More \in SUBSET Stakeholders /\ Fewer \in SUBSET Stakeholders
    BY <1>1, <1>8
  <2> HIDE DEF More, Fewer
  <2> QED
    BY <2>1, StakeType
<1>0. ASSUME NEW n \in Nat, n = 0 \/ n <= target, NEW v \in Nat, 2 * target <= v
      PROVE  2 * n <= v
  BY <1>0
<1>10. 2 * StakeOf(More) <= V
  <2>1. CASE c = bins
    <3>1. More = {}
      BY <2>1
    <3>2. StakeOf(More) = 0
      BY <3>1, SumEmpty DEF StakeOf
    <3> QED
      BY <1>0, <1>1, <1>9, <3>2
  <2>2. CASE c # bins
    <3> DEFINE R == AskingUpTo(w, Ok, c)
    <3>1. StakeOf(R) > target
      BY <2>2 DEF MedianBin
    <3>2. R \in SUBSET (voters \ More)
      BY <1>2
    <3>3. voters \ More \in SUBSET Stakeholders
      BY <1>1
    <3>4. StakeOf(R) <= StakeOf(voters \ More)
      <4> HIDE DEF R, More
      <4> QED
        BY <3>2, <3>3, StakeMonotone
    <3>5. V = StakeOf(More) + StakeOf(voters \ More)
      <4> HIDE DEF More
      <4> QED
        BY <1>1, <1>8, StakeSplit
    <3>6. StakeOf(R) \in Nat /\ StakeOf(voters \ More) \in Nat
      <4>1. R \in SUBSET Stakeholders
        OBVIOUS
      <4> HIDE DEF R, More
      <4> QED
        BY <3>3, <4>1, StakeType
    <3>7. V <= 2 * target + 1
      OBVIOUS
    <3> DEFINE sm == StakeOf(More)
               sr == StakeOf(R)
               sn == StakeOf(voters \ More)
    <3>8. sm <= target
      <4> HIDE DEF sm, sr, sn, V
      <4> QED
        BY <1>1, <1>9, <3>1, <3>4, <3>5, <3>6, <3>7 DEF sm, sr, sn
    <3> QED
      BY <1>0, <1>1, <1>9, <3>8
  <2> QED
    BY <2>1, <2>2
<1>11. 2 * StakeOf(Fewer) <= V
  <2>1. CASE c = 1
    <3>1. \A a \in voters : w[a] \in Nat /\ w[a] > 0
      BY <1>1
    <3>2. \A a \in voters : ~(w[a] < c)
      BY <2>1, <3>1
    <3>3. Fewer = {}
      BY <3>2
    <3>4. StakeOf(Fewer) = 0
      BY <3>3, SumEmpty DEF StakeOf
    <3> QED
      BY <1>0, <1>1, <1>9, <3>4
  <2>2. CASE c # 1
    <3> DEFINE k == c - 1
               R == AskingUpTo(w, Ok, k)
    <3>1. k \in 1..bins /\ k < c /\ k + 1 = c
      BY <1>2, <2>2
    <3>2. ~(StakeOf(R) > target)
      <4> HIDE DEF k
      <4> QED
        BY <3>1 DEF MedianBin
    <3>3. \A a \in Stakeholders : w[a] \in Nat
      OBVIOUS
    <3>4. \A a \in Fewer : a \in Ok /\ w[a] \in 1..k
      <4> SUFFICES ASSUME NEW a \in Fewer PROVE a \in Ok /\ w[a] \in 1..k
        OBVIOUS
      <4>1. a \in Stakeholders /\ w[a] > 0 /\ w[a] < c /\ w[a] \in Nat
        BY <1>1, <3>3
      <4>2. w[a] # bins
        BY <1>2, <4>1
      <4> QED
        BY <1>2, <4>1, <4>2
    <3>5. \A a \in R : a \in Fewer
      <4> SUFFICES ASSUME NEW a \in R PROVE a \in Fewer
        OBVIOUS
      <4>1. a \in Stakeholders /\ w[a] \in 1..k
        OBVIOUS
      <4> QED
        BY <1>2, <4>1
    <3>6. Fewer = R
      BY <3>4, <3>5
    <3>7. StakeOf(Fewer) <= target
      <4> HIDE DEF R, Fewer
      <4> QED
        BY <1>9, <3>2, <3>6
    <3> QED
      BY <1>0, <1>1, <1>9, <3>7
  <2> QED
    BY <2>1, <2>2
<1> QED
  BY <1>10, <1>11

\* The target of the count is half of the stake that has an opinion.
LEMMA MedianTarget ==
  ASSUME NEW w, NEW Ok \in SUBSET Stakeholders, NEW bins \in Nat,
         \A a \in Stakeholders : w[a] \in 0..bins,
         \A a \in Stakeholders : a \notin Ok => w[a] = bins,
         NEW voters, voters = AskingMore(w, Stakeholders, 0),
         StakeOf(voters) > 1
  PROVE  /\ bins > 0 /\ StakeOf(voters) \in Nat
         /\ StakeOf(voters) = StakeOf(Stakeholders) - StakeOf(AskingFor(w, Ok, 0))
<1> USE DEF AskingFor, AskingUpTo, AskingMore, AskingFewer
<1> DEFINE V == StakeOf(voters)
           Zero == AskingFor(w, Ok, 0)
<1>1. voters \in SUBSET Stakeholders /\ V \in Nat
  BY StakeType
<1>2. bins > 0
  <2> SUFFICES ASSUME bins = 0 PROVE FALSE
    OBVIOUS
  <2>1. voters = {}
    OBVIOUS
  <2>2. StakeOf(voters) = 0
    BY <2>1, SumEmpty DEF StakeOf
  <2> QED
    BY <2>2
<1>3. V = StakeOf(Stakeholders) - StakeOf(Zero)
  <2>1. Stakeholders \ voters = Zero
    BY <1>2
  <2>2. StakeOf(Stakeholders) = V + StakeOf(Stakeholders \ voters)
    BY <1>1, StakeSplit
  <2>3. Zero \in SUBSET Stakeholders
    OBVIOUS
  <2>4. StakeOf(Zero) \in Nat /\ StakeOf(Stakeholders) \in Nat
    BY <2>3, StakeType
  <2>5. StakeOf(Stakeholders) = V + StakeOf(Zero)
    BY <2>1, <2>2, Zenon
  <2>6. \A x \in Nat, y \in Nat, z \in Nat : x = y + z => y = x - z
    OBVIOUS
  <2> HIDE DEF V, Zero
  <2> QED
    BY <1>1, <2>4, <2>5, <2>6
<1> QED
  BY <1>1, <1>2, <1>3

\* Every stakeholder's opinion is one it may publish.
OpinionsTyped == opinion \in [Stakeholders -> Opinions] /\ params \in Parameters

LEMMA MedianOfOpinions == OpinionsTyped => MedianElected
<1> SUFFICES ASSUME OpinionsTyped PROVE MedianElected
  OBVIOUS
<1> DEFINE max == params.maximum_miner_count
           bins == max \div 2
           half == [a \in Stakeholders |-> opinion[a].num_miner \div 2]
           w == [a \in Stakeholders |-> Min({opinion[a].num_miner \div 2, bins})]
           Ok == {a \in Stakeholders : opinion[a].num_miner <= max}
           voters == AskingMore(w, Stakeholders, 0)
           hist == [j \in 1..bins |-> Histogram(j)]
           T == [i \in 1..bins |-> SumFunctionOnSet(hist, 1..i)]
           target == (StakeOf(Stakeholders) - Histogram(0)) \div 2
<1>1. max \in Nat /\ bins \in Nat
  BY ScheduleAssumption DEF OpinionsTyped
<1>2. ASSUME NEW a \in Stakeholders
      PROVE  /\ opinion[a].num_miner \in Nat
             /\ w[a] \in 0..bins /\ (a \notin Ok => w[a] = bins)
  <2> DEFINE n == opinion[a].num_miner
             h == n \div 2
             b == bins
  <2>1. n \in Nat
    BY ScheduleAssumption DEF OpinionsTyped
  <2>2. h \in Nat /\ (n > max => h >= bins)
    <3> HIDE DEF n, max
    <3> QED
      BY <1>1, <2>1
  <2>3. w[a] = Min({h, b})
    OBVIOUS
  <2>4. b \in Nat
    BY <1>1
  <2> HIDE DEF h, b
  <2>5. \A x \in Nat, y \in Nat : Min({x, y}) = IF x <= y THEN x ELSE y
    BY DEF Min
  <2> QED
    <3>1. w[a] = IF h <= b THEN h ELSE b
      BY <2>2, <2>3, <2>4, <2>5
    <3>2. a \notin Ok => n > max
      BY <1>1, <2>1
    <3> HIDE DEF w, Ok, max, n
    <3>3. w[a] \in 0..b /\ (a \notin Ok => w[a] = b)
      BY <2>2, <2>4, <3>1, <3>2 DEF b
    <3> QED
      BY <2>1, <3>3 DEF b, n
<1>3. ASSUME NEW j \in Nat PROVE Histogram(j) = StakeOf(AskingFor(w, Ok, j))
  <2>1. {a \in Stakeholders : /\ opinion[a].num_miner <= params.maximum_miner_count
                              /\ j = Min({opinion[a].num_miner \div 2, params.maximum_miner_count \div 2})}
          = AskingFor(w, Ok, j)
    BY Zenon DEF AskingFor
  <2> QED
    BY <2>1, Zenon DEF Histogram
<1>4. ASSUME NEW i \in 1..bins PROVE T[i] = StakeOf(AskingUpTo(w, Ok, i))
  <2>1. T[i] = SumFunctionOnSet(hist, 1..i)
    OBVIOUS
  <2>2. \A j \in 1..i : hist[j] = StakeOf(AskingFor(w, Ok, j))
    <3>1. \A j \in 1..i : j \in Nat /\ j \in 1..bins
      BY <1>1
    <3> QED
      BY <1>3, <3>1
  <2>3. i \in Nat /\ Ok \in SUBSET Stakeholders
    BY <1>1
  <2> HIDE DEF w, Ok, T, hist
  <2> QED
    <3>1. SumFunctionOnSet(hist, 1..i) = StakeOf(AskingUpTo(w, Ok, i))
      BY <2>2, <2>3, HistogramSum, Zenon
    <3> QED
      BY <2>1, <3>1
<1>5. MinerCount = IF target <= 0 THEN 0
                   ELSE Min({bins} \cup {i \in 1..bins : T[i] > target})
  <2>1. {i \in 1..bins : T[i] > target} = {i \in 1..bins : SumFunctionOnSet(hist, 1..i) > target}
    OBVIOUS
  <2> QED
    BY <2>1 DEF MinerCount
<1>6. target = (StakeOf(Stakeholders) - StakeOf(AskingFor(w, Ok, 0))) \div 2
  BY <1>3
<1>7. Ok \in SUBSET Stakeholders
  OBVIOUS
<1> DEFINE c == MinerCount
<1>10. \A a \in Stakeholders : w[a] \in 0..bins
  BY <1>2
<1>11. \A a \in Stakeholders : a \notin Ok => w[a] = bins
  BY <1>2
<1>8. StakeOf(voters) > 1 =>
         /\ 2 * StakeOf(AskingMore(w, voters, c)) <= StakeOf(voters)
         /\ 2 * StakeOf(AskingFewer(w, voters, c)) <= StakeOf(voters)
  <2> SUFFICES ASSUME StakeOf(voters) > 1
               PROVE  /\ 2 * StakeOf(AskingMore(w, voters, c)) <= StakeOf(voters)
                      /\ 2 * StakeOf(AskingFewer(w, voters, c)) <= StakeOf(voters)
    OBVIOUS
  <2> DEFINE V == StakeOf(voters)
             C == {bins} \cup {i \in 1..bins : T[i] > target}
  <2>1. voters = AskingMore(w, Stakeholders, 0)
    OBVIOUS
  <2>2. c = IF target <= 0 THEN 0 ELSE Min(C)
    BY <1>5
  <2>3. C = {bins} \cup {i \in 1..bins : T[i] > target}
    OBVIOUS
  <2>4. bins > 0 /\ V \in Nat /\ V = StakeOf(Stakeholders) - StakeOf(AskingFor(w, Ok, 0))
    <3> HIDE DEF w, Ok, bins, voters
    <3>1. StakeOf(voters) > 1
      OBVIOUS
    <3> QED
      BY <1>1, <1>7, <1>10, <1>11, <2>1, <3>1, MedianTarget, Zenon
  <2>5. target = V \div 2
    <3> HIDE DEF V
    <3> QED
      BY <1>6, <2>4
  <2>6. V > 1
    OBVIOUS
  <2>7. target \in Nat /\ target > 0 /\ 2 * target <= V /\ V <= 2 * target + 1
    <3> HIDE DEF V, target
    <3> QED
      BY <2>4, <2>5, <2>6
  <2>8. c \in C /\ \A i \in C : c <= i
    <3>1. C \subseteq Nat /\ bins \in C
      <4> HIDE DEF bins, T, target
      <4> QED
        BY <1>1
    <3>2. \E x \in C : \A y \in C : x <= y
      <4> HIDE DEF C, bins
      <4> QED
        BY <3>1, LeastNat
    <3>3. c = Min(C)
      <4> HIDE DEF C, c, target
      <4> QED
        BY <2>2, <2>7
    <3> HIDE DEF C, c
    <3> QED
      BY <3>2, <3>3 DEF Min
  <2> HIDE DEF w, Ok, T, hist, bins, target, c, voters
  <2>9. MedianBin(w, Ok, bins, voters, target, c)
    <3>1. c \in 1..bins
      BY <1>1, <2>4, <2>8
    <3>2. c # bins => T[c] > target
      BY <2>8
    <3>3. \A i \in 1..bins : i < c => ~(T[i] > target)
      BY <1>1, <2>8, <3>1
    <3> HIDE DEF C
    <3> QED
      BY <1>4, <3>1, <3>2, <3>3 DEF MedianBin
  <2> QED
    BY <1>1, <1>7, <1>10, <1>11, <2>1, <2>7, <2>9, MedianOf, Zenon
<1>9. MedianElected <=>
        (StakeOf(voters) > 1 =>
         /\ 2 * StakeOf(AskingMore(w, voters, c)) <= StakeOf(voters)
         /\ 2 * StakeOf(AskingFewer(w, voters, c)) <= StakeOf(voters))
  <2> DEFINE want(a) == Min({opinion[a].num_miner \div 2, bins})
             vs == {a \in Stakeholders : want(a) > 0}
  <2>1. \A a \in Stakeholders : want(a) = w[a]
    OBVIOUS
  <2>2. vs = voters
    BY DEF AskingMore
  <2>3. {a \in vs : want(a) > MinerCount} = AskingMore(w, voters, c)
    BY DEF AskingMore
  <2>4. {a \in vs : want(a) < MinerCount} = AskingFewer(w, voters, c)
    BY DEF AskingFewer, AskingMore
  <2>5. MedianElected <=>
          (StakeOf(vs) > 1 =>
            /\ 2 * StakeOf({a \in vs : want(a) > MinerCount}) <= StakeOf(vs)
            /\ 2 * StakeOf({a \in vs : want(a) < MinerCount}) <= StakeOf(vs))
    BY Zenon DEF MedianElected
  <2> HIDE DEF want, vs, voters, w, c
  <2> QED
    BY <2>2, <2>3, <2>4, <2>5
<1> QED
  BY <1>8, <1>9

LEMMA OpinionsNext == Inv /\ OpinionsTyped /\ [Next]_vars => OpinionsTyped'
<1> SUFFICES ASSUME Inv, OpinionsTyped, [Next]_vars PROVE OpinionsTyped'
  OBVIOUS
<1>1. params' \in Parameters
  BY InvNext DEF Inv, TypeOK
<1>2. opinion' = opinion \/ \E a \in Stakeholders, o \in Opinions : opinion' = [opinion EXCEPT ![a] = o]
  BY DEF Next, ReceiveBlock, maybe_produce_block, EnableProduction, ProduceBlock, Transaction,
         apply_block, PayFee, UpdateOpinion, miner_update_global_parameters, vars
<1> QED
  BY <1>1, <1>2 DEF OpinionsTyped

\* For any stakes and opinions, and whatever the maximum was when an opinion
\* was published, the number of miners elected is a median of the stake.
THEOREM MedianTheorem == Spec => []MedianElected
<1>1. Init => OpinionsTyped
  BY ScheduleAssumption DEF Init, OpinionsTyped
<1>2. Init => Inv
  BY InvInit
<1>3. (Inv /\ OpinionsTyped) /\ [Next]_vars => (Inv /\ OpinionsTyped)'
  BY InvNext, OpinionsNext
<1>4. OpinionsTyped => MedianElected
  BY MedianOfOpinions
<1> QED
  BY <1>1, <1>2, <1>3, <1>4, PTL DEF Spec


-----------------------------------------------------------------------------
(***************************************************************************)
(* The budget of an interval.                                               *)
(***************************************************************************)
\* Every set of parameters skips a slot after maintenance (the default is 3).
SkipsSlots == \A p \in Parameters : p.maintenance_skip_slots > 0

\* Rewards change in the order of the table, and never twice within a
\* maintenance interval (the DECENT_SPLIT_* are millions of blocks apart).
SparseSwitches ==
  \A p \in Parameters : \A i, j \in DOMAIN Switches :
    i < j => Switches[j] - Switches[i] > p.maintenance_interval

\* The reward of a block between two switches.
LEMMA RewardBetween ==
  ASSUME NEW n \in Nat, NEW c \in 0..Len(Switches),
         \A i \in DOMAIN Switches : Switches[i] <= n <=> i <= c
  PROVE  get_asset_per_block_by_block_num(n) = Rewards[c + 1] /\ Rewards[c + 1] \in Nat
<1>1. Switches \in Seq(Nat) /\ Rewards \in Seq(Nat) /\ Len(Rewards) = Len(Switches) + 1
  BY ScheduleAssumption
<1>2. DOMAIN Switches = 1..Len(Switches) /\ Len(Switches) \in Nat /\ c \in Nat
  BY <1>1
<1>3. {i \in DOMAIN Switches : Switches[i] <= n} = 1..c
  BY <1>2
<1>4. Cardinality(1..c) = c
  <2>1. Cardinality(1..c) = IF 1 > c THEN 0 ELSE c - 1 + 1
    BY <1>2, FS_Interval
  <2> QED
    BY <1>2, <2>1
<1>5. c + 1 \in 1..Len(Rewards)
  BY <1>1, <1>2
<1>6. get_asset_per_block_by_block_num(n) = Rewards[Cardinality(1..c) + 1]
  BY <1>3, Zenon DEF get_asset_per_block_by_block_num
<1> QED
  BY <1>1, <1>4, <1>5, <1>6

\* What n blocks earn when the first k earn a each and the others b.
Pays(a, b, k, n) == IF n <= k THEN a ELSE b

Earned(a, b, k, n) == IF n <= k THEN n * a ELSE k * a + (n - k) * b

LEMMA EarnedStep ==
  ASSUME NEW a \in Nat, NEW b \in Nat, NEW k \in Nat, NEW n \in Nat
  PROVE  /\ Earned(a, b, k, n) \in Nat
         /\ Earned(a, b, k, 0) = 0
         /\ Earned(a, b, k, n + 1) = Earned(a, b, k, n) + Pays(a, b, k, n + 1)
<1>1. n * a \in Nat /\ k * a \in Nat /\ (n + 1) * a = n * a + a
  OBVIOUS
<1>2. CASE n <= k
  <2>1. Earned(a, b, k, n) = n * a
    BY <1>2 DEF Earned, Pays
  <2>2. CASE n + 1 <= k
    BY <1>1, <2>1, <2>2 DEF Earned, Pays
  <2>3. CASE ~(n + 1 <= k)
    <3>1. n = k /\ (n + 1) - k = 1
      BY <1>2, <2>3
    <3> QED
      BY <1>1, <2>1, <2>3, <3>1 DEF Earned, Pays
  <2>4. Earned(a, b, k, 0) = 0
    BY DEF Earned, Pays
  <2> QED
    BY <1>1, <2>1, <2>2, <2>3, <2>4 DEF Pays
<1>3. CASE ~(n <= k)
  <2> DEFINE d == n - k
  <2>1. d \in Nat /\ (n + 1) - k = d + 1 /\ n - k = d
    BY <1>3
  <2> HIDE DEF d
  <2>2. d * b \in Nat /\ (d + 1) * b = d * b + b
    BY <2>1
  <2>3. Earned(a, b, k, n) = k * a + d * b
    BY <1>3, <2>1 DEF Earned, Pays
  <2>4. Earned(a, b, k, n + 1) = k * a + (d + 1) * b
    BY <1>3, <2>1 DEF Earned, Pays
  <2>5. Earned(a, b, k, 0) = 0
    BY DEF Earned, Pays
  <2> QED
    BY <1>1, <1>3, <2>2, <2>3, <2>4, <2>5 DEF Pays
<1> QED
  BY <1>2, <1>3

LEMMA EarnedMonotone ==
  ASSUME NEW a \in Nat, NEW b \in Nat, NEW k \in Nat, NEW m \in Nat, NEW n \in Nat, m <= n
  PROVE  Earned(a, b, k, m) <= Earned(a, b, k, n)
<1> DEFINE C == {x \in Nat : x < m \/ Earned(a, b, k, m) <= Earned(a, b, k, x)}
<1>0. \A x \in Nat : Earned(a, b, k, x) \in Nat
  BY EarnedStep
<1>00. \A x \in Nat : Earned(a, b, k, x + 1) = Earned(a, b, k, x) + Pays(a, b, k, x + 1)
  BY EarnedStep
<1>1. ASSUME NEW x \in Nat, \A y \in Nat : y < x => y \in C PROVE x \in C
  <2>1. CASE x < m
    BY <2>1
  <2>2. CASE x = m
    BY <1>0, <2>2
  <2>3. CASE x > m
    <3> DEFINE y == x - 1
    <3>1. y \in Nat /\ y < x /\ ~(y < m) /\ x = y + 1
      BY <2>3
    <3> HIDE DEF y
    <3>2. Earned(a, b, k, m) <= Earned(a, b, k, y)
      BY <1>1, <3>1
    <3>3. Earned(a, b, k, y + 1) = Earned(a, b, k, y) + Pays(a, b, k, y + 1)
      BY <1>00, <3>1
    <3>4. Earned(a, b, k, m) <= Earned(a, b, k, x)
      BY <1>0, <3>1, <3>2, <3>3 DEF Pays
    <3> QED
      BY <3>4
  <2> QED
    BY <2>1, <2>2, <2>3
<1>2. Nat \subseteq C
  <2> HIDE DEF C
  <2> QED
    BY <1>1, NatSetInduction
<1> QED
  BY <1>2

\* get_miner_budget is what the blocks after h earn, one by one.
Planned(h, D) ==
  \E a, b, k \in Nat : \A n \in 0..D :
    /\ get_miner_budget(h, n) = Earned(a, b, k, n)
    /\ n > 0 => get_asset_per_block_by_block_num(h + n) = Pays(a, b, k, n)

LEMMA BudgetPlanned ==
  ASSUME SparseSwitches, NEW p \in Parameters, NEW h \in Nat
  PROVE  Planned(h, p.maintenance_interval)
<1> DEFINE D == p.maintenance_interval
           L == Len(Switches)
           ahead == {i \in DOMAIN Switches : h <= Switches[i]}
           R(n) == get_asset_per_block_by_block_num(n)
<1>1. D \in Nat /\ Switches \in Seq(Nat) /\ Rewards \in Seq(Nat) /\ Len(Rewards) = L + 1
  BY ScheduleAssumption
<1>2. DOMAIN Switches = 1..L /\ L \in Nat /\ \A i \in 1..L : Switches[i] \in Nat
  BY <1>1
<1>3. \A i, j \in 1..L : i < j => Switches[j] - Switches[i] > D
  BY <1>2 DEF SparseSwitches
<1>4. CASE ahead = {}
  <2>1. \A i \in 1..L : Switches[i] < h
    BY <1>2, <1>4
  <2> DEFINE b == Rewards[L + 1]
  <2>2. ASSUME NEW n \in Nat PROVE R(h + n) = b /\ b \in Nat
    <3>1. \A i \in DOMAIN Switches : Switches[i] <= h + n <=> i <= L
      BY <1>2, <2>1
    <3>2. L \in 0..L /\ h + n \in Nat
      BY <1>2
    <3> QED
      BY <3>1, <3>2, RewardBetween
  <2>3. R(h) = b /\ b \in Nat
    <3>1. R(h + 0) = b /\ b \in Nat
      BY <2>2
    <3> QED
      BY <3>1
  <2> HIDE DEF b
  <2>4. ASSUME NEW n \in 0..D
        PROVE  get_miner_budget(h, n) = Earned(b, b, 0, n) /\ (n > 0 => R(h + n) = Pays(b, b, 0, n))
    <3>1. get_miner_budget(h, n) = n * b
      <4>1. b = 0 /\ n \in Nat
        BY <1>1, ScheduleAssumption DEF b
      <4>2. h + 1 + n >= 0 /\ 0 - h - 1 \in Int /\ n - (0 - h - 1) \in Int
        BY <1>1, <4>1
      <4>3. R(h) \div 2 = 0 /\ R(h) = 0
        BY <2>3, <4>1
      <4>4. get_miner_budget(h, n) = R(h) * (0 - h - 1) + (R(h) \div 2) * (n - (0 - h - 1))
        BY <1>4, <4>2 DEF get_miner_budget
      <4>5. \A x, y \in Int : 0 * x + 0 * y = 0
        OBVIOUS
      <4>6. get_miner_budget(h, n) = 0
        BY <4>2, <4>3, <4>4, <4>5
      <4> QED
        BY <4>1, <4>6
    <3>2. Earned(b, b, 0, n) = n * b
      BY <2>3 DEF Earned, Pays
    <3> QED
      BY <2>2, <3>1, <3>2 DEF Pays
  <2>5. 0 \in Nat
    OBVIOUS
  <2> QED
    BY <2>3, <2>4, <2>5, Zenon DEF Planned
<1>5. CASE ahead # {}
  <2> DEFINE i == Min(ahead)
             s == Switches[i]
  <2>1. i \in 1..L /\ h <= s /\ (\A j \in 1..L : h <= Switches[j] => i <= j)
    <3>1. ahead \subseteq Nat
      BY <1>2
    <3>2. \E x \in ahead : \A y \in ahead : x <= y
      <4> HIDE DEF ahead
      <4> QED
        BY <1>5, <3>1, LeastNat
    <3>3. i \in ahead /\ \A y \in ahead : i <= y
      <4> HIDE DEF ahead
      <4> QED
        BY <3>2 DEF Min
    <3> HIDE DEF i
    <3> QED
      BY <1>2, <3>3
  <2>2. s \in Nat
    <3> HIDE DEF i
    <3> QED
      BY <1>2, <2>1
  <2> HIDE DEF i, s, ahead
  <2>3. \A j \in 1..L : (j < i => Switches[j] < h) /\ (j > i => Switches[j] > h + D)
    <3> SUFFICES ASSUME NEW j \in 1..L
                 PROVE  (j < i => Switches[j] < h) /\ (j > i => Switches[j] > h + D)
      OBVIOUS
    <3>1. j > i => Switches[j] - s > D
      BY <1>3, <2>1 DEF s
    <3>2. Switches[j] \in Nat /\ i \in Nat /\ j \in Nat
      BY <1>2, <2>1
    <3>3. j < i => Switches[j] < h
      BY <2>1, <3>2
    <3> HIDE DEF D
    <3>4. j > i => Switches[j] > h + D
      <4>1. D \in Nat /\ s \in Nat /\ s >= h
        BY <1>1, <2>1, <2>2
      <4>2. \A x \in Nat : x - s > D => x > h + D
        BY <4>1
      <4> QED
        BY <3>1, <3>2, <4>2
    <3> QED
      BY <3>3, <3>4
  <2> DEFINE a == Rewards[i]
             b == Rewards[i + 1]
  <2>4. ASSUME NEW n \in 0..D
        PROVE  /\ a \in Nat /\ b \in Nat
               /\ R(h + n) = IF h + n < s THEN a ELSE b
    <3>0. h + n \in Nat /\ n \in Nat /\ D \in Nat /\ h + n <= h + D
      BY <1>1
    <3>3. a \in Nat /\ b \in Nat
      <4>1. i \in 1..Len(Rewards) /\ i + 1 \in 1..Len(Rewards)
        BY <1>1, <1>2, <2>1
      <4>2. \A k \in 1..Len(Rewards) : Rewards[k] \in Nat
        BY <1>1
      <4> QED
        BY <4>1, <4>2
    <3>1. CASE h + n < s
      <4> DEFINE c == i - 1
      <4>1. c \in 0..L /\ c + 1 = i
        BY <1>2, <2>1
      <4>2. \A j \in DOMAIN Switches : Switches[j] <= h + n <=> j <= c
        <5> SUFFICES ASSUME NEW j \in 1..L PROVE Switches[j] <= h + n <=> j <= c
          BY <1>2
        <5>1. Switches[j] \in Nat /\ j \in Nat /\ i \in Nat
          BY <1>2, <2>1
        <5> HIDE DEF D
        <5>2. CASE j < i
          <6>1. Switches[j] < h
            BY <2>3, <5>2
          <6> QED
            BY <3>0, <5>1, <5>2, <6>1
        <5>3. CASE j = i
          BY <2>2, <3>0, <3>1, <5>1, <5>3 DEF s
        <5>4. CASE j > i
          <6>1. Switches[j] > h + D
            BY <2>3, <5>4
          <6>2. ~(Switches[j] <= h + n) /\ ~(j <= i) /\ ~(j <= i - 1)
            BY <2>1, <3>0, <5>1, <5>4, <6>1
          <6> QED
            BY <6>2
        <5> QED
          BY <5>1, <5>2, <5>3, <5>4
      <4> HIDE DEF c
      <4>3. R(h + n) = Rewards[c + 1]
        <5> DEFINE x == h + n
        <5>1. x \in Nat /\ \A j \in DOMAIN Switches : Switches[j] <= x <=> j <= c
          BY <3>0, <4>2
        <5> HIDE DEF x
        <5>2. R(x) = Rewards[c + 1]
          BY <4>1, <5>1, RewardBetween
        <5> QED
          BY <5>2 DEF x
      <4>4. R(h + n) = a
        BY <4>1, <4>3
      <4> QED
        BY <3>1, <3>3, <4>4
    <3>2. CASE ~(h + n < s)
      <4>1. \A j \in DOMAIN Switches : Switches[j] <= h + n <=> j <= i
        <5> SUFFICES ASSUME NEW j \in 1..L PROVE Switches[j] <= h + n <=> j <= i
          BY <1>2
        <5>1. Switches[j] \in Nat /\ j \in Nat /\ i \in Nat
          BY <1>2, <2>1
        <5> HIDE DEF D
        <5>2. CASE j < i
          <6>1. Switches[j] < h
            BY <2>3, <5>2
          <6> QED
            BY <3>0, <5>1, <5>2, <6>1
        <5>3. CASE j = i
          BY <2>2, <3>0, <3>2, <5>1, <5>3 DEF s
        <5>4. CASE j > i
          <6>1. Switches[j] > h + D
            BY <2>3, <5>4
          <6>2. ~(Switches[j] <= h + n) /\ ~(j <= i) /\ ~(j <= i - 1)
            BY <2>1, <3>0, <5>1, <5>4, <6>1
          <6> QED
            BY <6>2
        <5> QED
          BY <5>1, <5>2, <5>3, <5>4
      <4>2. i \in 0..L
        BY <1>2, <2>1
      <4>3. R(h + n) = Rewards[i + 1]
        BY <3>0, <4>1, <4>2, RewardBetween
      <4> QED
        BY <3>2, <3>3, <4>3
    <3> QED
      BY <3>1, <3>2
  <2>5. /\ a \in Nat /\ b \in Nat
        /\ R(h) = IF h < s THEN a ELSE b
    <3>1. 0 \in 0..D /\ h + 0 = h
      BY <1>1
    <3> QED
      BY <2>4, <3>1
  <2>6. \A n : get_miner_budget(h, n) =
           IF h + 1 + n >= s THEN R(h) * (s - h - 1) + b * (n - (s - h - 1)) ELSE n * R(h)
    BY <1>5 DEF get_miner_budget, ahead, i, s
  <2> HIDE DEF a, b, R
  <2>7. CASE h = s
    <3>1. ASSUME NEW n \in 0..D
          PROVE  get_miner_budget(h, n) = Earned(b, b, 0, n) /\ (n > 0 => R(h + n) = Pays(b, b, 0, n))
      <4>1. h + 1 + n >= s /\ s - h - 1 = -1 /\ n - (-1) = n + 1 /\ n \in Nat /\ R(h) = b
        BY <1>1, <2>2, <2>5, <2>7
      <4>2. b * (-1) + b * (n + 1) = n * b
        BY <2>5, <4>1
      <4>3. get_miner_budget(h, n) = n * b
        BY <2>6, <4>1, <4>2
      <4>4. Earned(b, b, 0, n) = n * b
        BY <2>5, <4>1 DEF Earned, Pays
      <4>5. R(h + n) = b
        BY <2>2, <2>4, <2>7
      <4> QED
        BY <4>3, <4>4, <4>5 DEF Pays
    <3> QED
      BY <2>5, <3>1 DEF Planned, R
  <2>8. CASE h # s
    <3> DEFINE k == s - h - 1
    <3>1. k \in Nat /\ h + k + 1 = s /\ h < s /\ R(h) = a
      BY <2>1, <2>2, <2>5, <2>8
    <3>2. k = s - h - 1
      OBVIOUS
    <3> HIDE DEF k
    <3>3. ASSUME NEW n \in 0..D
          PROVE  get_miner_budget(h, n) = Earned(a, b, k, n) /\ (n > 0 => R(h + n) = Pays(a, b, k, n))
      <4>1. n \in Nat /\ (h + 1 + n >= s <=> k <= n) /\ (h + n < s <=> n <= k)
        BY <1>1, <2>2, <3>1
      <4>2. get_miner_budget(h, n) = IF k <= n THEN a * k + b * (n - k) ELSE n * a
        BY <2>6, <3>1, <3>2, <4>1
      <4>3. CASE k < n
        <5>1. a * k = k * a /\ b * (n - k) = (n - k) * b
          BY <2>5, <3>1, <4>1
        <5> QED
          BY <2>4, <3>1, <4>1, <4>2, <4>3, <5>1 DEF Earned, Pays
      <4>4. CASE k = n
        <5>1. a * k = n * a /\ n - k = 0 /\ b * 0 = 0 /\ n * a \in Nat
          BY <2>5, <3>1, <4>1, <4>4
        <5> QED
          BY <2>4, <3>1, <4>1, <4>2, <4>4, <5>1 DEF Earned, Pays
      <4>5. CASE n < k
        BY <2>4, <3>1, <4>1, <4>2, <4>5 DEF Earned, Pays
      <4> QED
        BY <3>1, <4>1, <4>3, <4>4, <4>5
    <3> QED
      BY <2>5, <3>1, <3>3 DEF Planned, R
  <2> QED
    BY <2>7, <2>8
<1> QED
  BY <1>4, <1>5


\* The blocks an interval has room for, as update_miner_payments counts them.
Room == (nextMaint - lastBudget + params.block_interval - 1) \div params.block_interval

\* n blocks were applied since the last maintenance: each is in a later slot
\* than the one before, the first after the skipped ones, and each was paid
\* its share and its reward.
Since(n) ==
  /\ maintFlag <=> n = 0
  /\ n = 0 => time = lastBudget
  /\ n > 0 => time \div params.block_interval
                >= lastBudget \div params.block_interval + params.maintenance_skip_slots + n
  /\ unspent = feeBudget - n * PayFromFees
  /\ mined = get_miner_budget(head - n, n)
  /\ rewardBudget = get_miner_budget(head - n, BlocksToMaint(lastBudget, nextMaint, params))

IntervalOK ==
  /\ pool \in Nat
  /\ head = 0 => /\ nextMaint = 0 /\ lastBudget = 0
                 /\ feeBudget = 0 /\ unspent = 0 /\ mined = 0
  /\ head > 0 => /\ lastBudget \in Nat /\ lastBudget <= time /\ time < nextMaint
                 /\ nextMaint <= lastBudget + params.maintenance_interval
                 /\ feeBudget \in Nat
                 /\ \E n \in 0..head : Since(n)

\* Every block since maintenance has its slot, and there is room for one more.
LEMMA RoomLeft ==
  ASSUME Inv, SlotsTyped, SkipsSlots, IntervalOK, head > 0, NEW n \in 0..head, Since(n)
  PROVE  /\ Room \in Nat /\ Room <= params.maintenance_interval
         /\ n + 1 <= Room
         /\ n > 0 => n + params.maintenance_skip_slots <= Room
<1> DEFINE I == params.block_interval
           M == params.maintenance_interval
           s == params.maintenance_skip_slots
           N == nextMaint
           L == lastBudget
           X == (N - L + I - 1) \div I
<1>1. I \in Nat \ {0} /\ M \in Nat \ {0} /\ s \in Nat /\ s > 0
  BY ScheduleAssumption DEF SlotsTyped, SkipsSlots
<1>2. N \in Int /\ L \in Nat /\ time \in Nat /\ L <= time /\ time < N /\ N <= L + M /\ n \in Nat
  BY DEF Inv, TypeOK, SlotsTyped, IntervalOK
<1>3. n > 0 => time \div I >= L \div I + s + n
  BY DEF Since
<1>4. Room = X
  BY DEF Room
<1> HIDE DEF I, M, s, N, L
<1> DEFINE y == N - L + I - 1
<1>5. y \in Int
  BY <1>1, <1>2
<1>6. ASSUME NEW q \in Int, I * q < N - L PROVE q + 1 <= X
  <2>1. I * (q + 1) = I * q + I /\ I * q \in Int
    BY <1>1
  <2>2. I * (q + 1) <= y /\ q + 1 \in Int
    BY <1>1, <1>2, <1>6, <2>1
  <2> HIDE DEF y
  <2>3. q + 1 <= y \div I
    BY <1>1, <1>5, <2>2, QuotientAtLeast
  <2> QED
    BY <2>3 DEF y
<1>7. X \in Int
  <2> HIDE DEF y
  <2>1. y \div I \in Int
    BY <1>1, <1>5, Quotient
  <2> QED
    BY <2>1 DEF y
<1>8. X <= M
  <2>1. M * 1 <= M * I /\ M * 1 = M /\ M * I = I * M /\ I * M \in Int
    BY <1>1, TimesMonotone
  <2>2. y < I * M + I
    BY <1>1, <1>2, <2>1
  <2> HIDE DEF y
  <2>3. y \div I <= M
    BY <1>1, <1>5, <2>2, QuotientBelow
  <2> QED
    BY <2>3 DEF y
<1>9. 1 <= X
  <2>1. I * 0 < N - L
    BY <1>1, <1>2
  <2> QED
    BY <1>6, <2>1
<1>10. n > 0 => n + s <= X
  <2> SUFFICES ASSUME n > 0 PROVE n + s <= X
    OBVIOUS
  <2> DEFINE a == L \div I
             b == time \div I
             q == s + n - 1
  <2>1. a \in Int /\ L < I * a + I /\ I * a \in Int
    BY <1>1, <1>2, Quotient
  <2>2. b \in Int /\ I * b <= time /\ I * b \in Int
    BY <1>1, <1>2, Quotient
  <2>3. b >= a + s + n
    BY <1>3
  <2> HIDE DEF a, b
  <2>4. q \in Int /\ q + 1 = n + s /\ a + q + 1 \in Int /\ a + q + 1 <= b
    BY <1>1, <1>2, <2>1, <2>2, <2>3
  <2> HIDE DEF q
  <2>5. I * (a + q + 1) <= I * b
    BY <1>1, <2>2, <2>4, TimesMonotone
  <2>6. I * (a + q + 1) = I * a + I * q + I /\ I * q \in Int
    BY <1>1, <2>1, <2>4
  <2>7. I * q < N - L
    BY <1>1, <1>2, <2>1, <2>2, <2>5, <2>6
  <2> HIDE DEF X
  <2> QED
    BY <1>6, <2>4, <2>7
<1> HIDE DEF X
<1>11. n + 1 <= X
  BY <1>1, <1>2, <1>7, <1>9, <1>10
<1> QED
  BY <1>4, <1>7, <1>8, <1>9, <1>10, <1>11 DEF M, s

\* As many shares as there is room for never exceed the fees.
LEMMA SharesCovered ==
  ASSUME Inv, feeBudget \in Nat, Room \in Nat, NEW n \in Nat, n <= Room
  PROVE  PayFromFees \in Nat /\ n * PayFromFees \in Nat /\ n * PayFromFees <= feeBudget
<1> DEFINE X == Room
           f == feeBudget
           c == PayFromFees
<1>1. c = IF X > 0 THEN f \div X ELSE 0
  BY DEF PayFromFees, Room
<1>2. X \in Nat /\ f \in Nat
  OBVIOUS
<1> HIDE DEF X, f, c
<1>3. CASE X = 0
  BY <1>1, <1>2, <1>3 DEF X, c
<1>4. CASE X > 0
  <2>1. c = f \div X
    BY <1>1, <1>4
  <2>2. f \div X \in Int /\ X * (f \div X) <= f /\ X * (f \div X) \in Int
    BY <1>2, <1>4, Quotient
  <2>3. 0 <= f \div X
    <3>1. X * 0 <= f
      BY <1>2
    <3> QED
      BY <1>2, <1>4, <3>1, QuotientAtLeast
  <2>4. c \in Nat /\ X * c <= f /\ X * c \in Int
    BY <2>1, <2>2, <2>3
  <2>5. c * n <= c * X /\ n <= X
    <3>1. n <= X
      BY DEF X
    <3> QED
      BY <1>2, <2>4, <3>1, TimesMonotone
  <2>6. n * c = c * n /\ X * c = c * X /\ n * c \in Nat
    BY <1>2, <2>4
  <2>7. n * c <= f
    BY <1>2, <2>4, <2>5, <2>6
  <2> QED
    BY <2>4, <2>6, <2>7 DEF c, f
<1> QED
  BY <1>2, <1>3, <1>4

\* The plan of an interval, when it is not void.
LEMMA PlanIs ==
  ASSUME Inv, SlotsTyped, Room \in Nat, Room <= params.maintenance_interval,
         Room > params.maintenance_skip_slots
  PROVE  BlocksToMaint(lastBudget, nextMaint, params) = Room - params.maintenance_skip_slots
<1> DEFINE s == params.maintenance_skip_slots
           x == Room - s
<1>1. s \in Nat /\ params.maintenance_interval \in Nat /\ params.maintenance_interval < Word /\ Word \in Nat
  BY ScheduleAssumption DEF SlotsTyped
<1>2. x \in Nat /\ x < Word
  BY <1>1
<1>3. BlocksToMaint(lastBudget, nextMaint, params) = x % Word
  BY DEF BlocksToMaint, Room
<1>4. x % Word = x
  <2> HIDE DEF x
  <2> QED
    BY <1>1, <1>2
<1> QED
  BY <1>3, <1>4

LEMMA IntervalCovers ==
  ASSUME Inv, SlotsTyped, SkipsSlots, SparseSwitches, IntervalOK
  PROVE  BudgetCoversInterval
<1> DEFINE s == params.maintenance_skip_slots
           M == params.maintenance_interval
<1>1. params.block_interval \in Nat \ {0} /\ M \in Nat /\ s \in Nat /\ head \in Nat /\ params \in Parameters
  BY ScheduleAssumption DEF SlotsTyped
<1>2. CASE head = 0
  <2>1. unspent = 0 /\ nextMaint = 0 /\ lastBudget = 0
    BY <1>2 DEF IntervalOK
  <2>2. Room = (params.block_interval - 1) \div params.block_interval
    BY <1>1, <2>1 DEF Room
  <2>3. Room <= 0
    <3> DEFINE I == params.block_interval
               y == I - 1
    <3>1. y \in Int /\ I \in Nat \ {0} /\ y < I * 0 + I
      BY <1>1
    <3> HIDE DEF I, y
    <3>2. y \div I <= 0
      BY <3>1, QuotientBelow
    <3> QED
      BY <2>2, <3>2 DEF I, y
  <2>4. Room \in Int
    <3> DEFINE I == params.block_interval
               y == I - 1
    <3>1. y \in Int /\ I \in Nat \ {0}
      BY <1>1
    <3> HIDE DEF I, y
    <3>2. y \div I \in Int
      BY <3>1, Quotient
    <3> QED
      BY <2>2, <3>2 DEF I, y
  <2>5. ~(Room > s)
    BY <1>1, <2>3, <2>4
  <2> QED
    BY <2>1, <2>5 DEF BudgetCoversInterval, Room
<1>3. CASE head > 0
  <2>1. PICK n \in 0..head : Since(n)
    BY <1>3 DEF IntervalOK
  <2>2. /\ Room \in Nat /\ Room <= M /\ n + 1 <= Room
        /\ n > 0 => n + s <= Room
    BY <1>3, <2>1, RoomLeft
  <2>3. n \in Nat /\ n <= Room /\ feeBudget \in Nat
    BY <1>1, <1>3, <2>2 DEF IntervalOK
  <2>4. n * PayFromFees \in Nat /\ n * PayFromFees <= feeBudget
    BY <2>2, <2>3, SharesCovered
  <2>5. unspent >= 0
    <3>1. unspent = feeBudget - n * PayFromFees
      BY <2>1 DEF Since
    <3> DEFINE c == n * PayFromFees
    <3> HIDE DEF c
    <3> QED
      BY <2>3, <2>4, <3>1 DEF c
  <2>6. ASSUME Room > s PROVE mined <= rewardBudget
    <3> DEFINE B == Room - s
               h == head - n
    <3>1. B \in Nat /\ B <= M /\ n <= B
      BY <1>1, <2>2, <2>3, <2>6
    <3>2. mined = get_miner_budget(h, n) /\ rewardBudget = get_miner_budget(h, B)
      <4>1. BlocksToMaint(lastBudget, nextMaint, params) = B
        BY <2>2, <2>6, PlanIs
      <4> QED
        BY <2>1, <4>1 DEF Since
    <3>3. h \in Nat
      BY <1>1, <2>1
    <3> HIDE DEF B, h
    <3>4. Planned(h, M)
      BY <1>1, <3>3, BudgetPlanned
    <3>5. PICK a, b, k \in Nat : \A j \in 0..M : get_miner_budget(h, j) = Earned(a, b, k, j)
      BY <3>4 DEF Planned
    <3>6. mined = Earned(a, b, k, n) /\ rewardBudget = Earned(a, b, k, B)
      BY <1>1, <2>3, <3>1, <3>2, <3>5
    <3>7. Earned(a, b, k, n) <= Earned(a, b, k, B)
      BY <2>3, <3>1, EarnedMonotone
    <3> QED
      BY <3>6, <3>7
  <2> QED
    BY <2>5, <2>6 DEF BudgetCoversInterval, Room
<1> QED
  BY <1>1, <1>2, <1>3


\* The next maintenance is after the block and at most an interval away.
LEMMA NextMaintenanceClose ==
  ASSUME Inv, NEW t \in Nat, NEW p \in Parameters, head > 0 => nextMaint <= t
  PROVE  /\ t < NextMaintenanceTime(t, p)
         /\ NextMaintenanceTime(t, p) <= t + p.maintenance_interval
<1> DEFINE M == p.maintenance_interval
           N == nextMaint
           a == t \div M
           x == t - N
           b == x \div M
<1>1. M \in Nat \ {0} /\ N \in Int /\ x \in Int /\ head \in Nat
  BY ScheduleAssumption DEF Inv, TypeOK
<1>2. NextMaintenanceTime(t, p) = IF head = 0 THEN (a + 1) * M ELSE N + (b + 1) * M
  BY DEF NextMaintenanceTime
<1> HIDE DEF M
<1>3. a \in Int /\ M * a \in Int /\ M * a <= t /\ t < M * a + M
  BY <1>1, Quotient
<1>4. b \in Int /\ M * b \in Int /\ M * b <= x /\ x < M * b + M
  <2> HIDE DEF x
  <2> QED
    BY <1>1, Quotient
<1>5. x = t - N
  OBVIOUS
<1> HIDE DEF a, b, x, N
<1>6. (a + 1) * M = M * a + M /\ (b + 1) * M = M * b + M
  BY <1>1, <1>3, <1>4
<1> QED
  BY <1>1, <1>2, <1>3, <1>4, <1>5, <1>6 DEF M

\* A block after the first is in a later slot than the head block.
LEMMA LaterSlot ==
  ASSUME SlotsTyped, head > 0, NEW t \in Int, get_slot_at_time(t) > 0
  PROVE  t \div params.block_interval
           >= time \div params.block_interval + 1
                + (IF maintFlag THEN params.maintenance_skip_slots ELSE 0)
<1> DEFINE I == params.block_interval
           q == time \div I
           s == IF maintFlag THEN params.maintenance_skip_slots ELSE 0
<1>1. I \in Nat \ {0} /\ s \in Nat /\ time \in Nat /\ head \in Nat
  BY ScheduleAssumption DEF SlotsTyped
<1>2. q \in Int
  <2> HIDE DEF I
  <2> QED
    BY <1>1, Quotient
<1>3. get_slot_time(1) = q * I + I * (1 + s)
  BY <1>1 DEF get_slot_time
<1>4. ~(t < get_slot_time(1))
  BY DEF get_slot_at_time
<1> HIDE DEF I, q, s
<1> DEFINE r == q + 1 + s
<1>5. r \in Int /\ I * r = q * I + I * (1 + s) /\ I * r \in Int
  BY <1>1, <1>2
<1> HIDE DEF r
<1>6. I * r <= t
  BY <1>3, <1>4, <1>5
<1>7. r <= t \div I
  BY <1>1, <1>5, <1>6, QuotientAtLeast
<1>8. t \div I \in Int
  BY <1>1, Quotient
<1>9. t \div I >= q + 1 + s
  BY <1>5, <1>7, <1>8 DEF r
<1> QED
  BY <1>9 DEF q, s, I

LEMMA PlainBlockInterval ==
  ASSUME Inv, SlotsTyped, SkipsSlots, SparseSwitches, IntervalOK,
         NEW t \in Int, NEW m \in Miners, NEW skip \in BOOLEAN,
         apply_block(t, m, skip), ~(nextMaint <= t)
  PROVE  IntervalOK'
<1> DEFINE I == params.block_interval
           s == params.maintenance_skip_slots
           c == PayFromFees
           M == params.maintenance_interval
<1>1. I \in Nat \ {0} /\ s \in Nat /\ M \in Nat /\ time \in Nat /\ head \in Nat /\ params \in Parameters
  BY ScheduleAssumption DEF SlotsTyped
<1>2. /\ head' = head + 1 /\ time' = t /\ time < t /\ get_slot_at_time(t) > 0
      /\ ~maintFlag'
  <2>1. maintFlag' = (nextMaint <= t)
    BY DEF apply_block
  <2>2. ~maintFlag'
    BY <2>1
  <2> QED
    BY <2>2 DEF apply_block, validate_block_header, update_global_dynamic_data
<1>3. /\ unspent' = unspent - c /\ mined' = mined + get_asset_per_block_by_block_num(head + 1)
      /\ params' = params /\ nextMaint' = nextMaint /\ pool' = pool /\ feeBudget' = feeBudget
      /\ rewardBudget' = rewardBudget /\ lastBudget' = lastBudget
  BY DEF apply_block, NoMaintenance
<1>4. head > 0
  BY <1>1, <1>2 DEF IntervalOK
<1>5. PICK n \in 0..head : Since(n)
  BY <1>4 DEF IntervalOK
<1>6. n \in Nat /\ Room \in Nat /\ Room <= M /\ n + 1 <= Room
  BY <1>4, <1>5, RoomLeft
<1>7. c \in Int /\ unspent = feeBudget - n * c
  BY <1>5, PayType DEF Since, Inv
<1>8. PayFromFees' = c
  BY <1>3 DEF PayFromFees
<1> DEFINE k == n + 1
<1>9. k \in 0..(head + 1) /\ k > 0 /\ k <= M /\ k \in Nat
  BY <1>1, <1>6
<1>10. time' \div params'.block_interval
          >= lastBudget' \div params'.block_interval + params'.maintenance_skip_slots + k
  <2> DEFINE sk == IF maintFlag THEN s ELSE 0
             x == t \div I
             y == time \div I
             z == lastBudget \div I
  <2>1. x >= y + 1 + sk
    BY <1>2, <1>4, LaterSlot
  <2>2. x \in Int /\ y \in Int /\ z \in Int
    <3>1. lastBudget \in Int
      BY DEF Inv, TypeOK
    <3> HIDE DEF I
    <3> QED
      BY <1>1, <3>1, Quotient
  <2>3. n = 0 => maintFlag /\ y = z
    BY <1>5 DEF Since
  <2>4. n > 0 => ~maintFlag /\ y >= z + s + n
    BY <1>5 DEF Since
  <2>5. (maintFlag => sk = s) /\ (~maintFlag => sk = 0)
    OBVIOUS
  <2>6. x >= z + s + k
    <3> HIDE DEF x, y, z, sk, s
    <3>1. CASE n = 0
      BY <1>1, <2>1, <2>2, <2>3, <2>5, <3>1
    <3>2. CASE n > 0
      BY <1>1, <1>6, <2>1, <2>2, <2>4, <2>5, <3>2
    <3> QED
      BY <1>6, <3>1, <3>2
  <2> QED
    BY <1>2, <1>3, <2>6
<1>11. unspent' = feeBudget' - k * PayFromFees'
  <2> HIDE DEF c
  <2>1. k * c = n * c + c /\ n * c \in Int /\ feeBudget \in Int
    BY <1>6, <1>7 DEF Inv, TypeOK
  <2>2. unspent' = feeBudget - k * c
    <3> HIDE DEF k
    <3> QED
      BY <1>3, <1>7, <2>1
  <2> QED
    BY <1>3, <1>8, <2>2
<1>12. head' - k = head - n /\ head - n \in Nat
  BY <1>1, <1>2
<1>13. mined' = get_miner_budget(head' - k, k)
  <2> DEFINE h == head - n
  <2>1. mined = get_miner_budget(h, n) /\ h + k = head + 1 /\ h \in Nat
    BY <1>1, <1>5, <1>6 DEF Since
  <2> HIDE DEF h
  <2>2. PICK a, b, j \in Nat : \A i \in 0..M :
          /\ get_miner_budget(h, i) = Earned(a, b, j, i)
          /\ i > 0 => get_asset_per_block_by_block_num(h + i) = Pays(a, b, j, i)
    BY <1>1, <2>1, BudgetPlanned DEF Planned
  <2>3. n \in 0..M /\ k \in 0..M
    BY <1>1, <1>6, <1>9
  <2>4. mined = Earned(a, b, j, n) /\ get_miner_budget(h, k) = Earned(a, b, j, k)
        /\ get_asset_per_block_by_block_num(head + 1) = Pays(a, b, j, k)
    <3> HIDE DEF k
    <3> QED
      BY <1>9, <2>1, <2>2, <2>3
  <2>5. Earned(a, b, j, k) = Earned(a, b, j, n) + Pays(a, b, j, k)
    BY <1>6, EarnedStep
  <2>6. mined' = get_miner_budget(h, k)
    BY <1>3, <2>4, <2>5
  <2> QED
    BY <1>12, <2>6 DEF h
<1>14. rewardBudget' = get_miner_budget(head' - k, BlocksToMaint(lastBudget', nextMaint', params'))
  BY <1>3, <1>5, <1>12 DEF Since
<1> HIDE DEF k, c
<1>16. Since(k)'
  BY <1>2, <1>9, <1>10, <1>11, <1>13, <1>14 DEF Since, BlocksToMaint, get_miner_budget, get_asset_per_block_by_block_num
<1>17. k \in 0..head'
  BY <1>2, <1>9
<1>18. \E j \in 0..head' : Since(j)'
  BY <1>16, <1>17
<1>19. /\ pool' \in Nat /\ head' # 0
       /\ lastBudget' \in Nat /\ lastBudget' <= time' /\ time' < nextMaint'
       /\ nextMaint' <= lastBudget' + params'.maintenance_interval
       /\ feeBudget' \in Nat
  BY <1>1, <1>2, <1>3, <1>4 DEF IntervalOK, Inv, TypeOK
<1> QED
  BY <1>18, <1>19 DEF IntervalOK

PayTyped == PayFromFees \in Int

LEMMA PayTypeNext == TypeOK' => PayTyped'
<1>1. TypeOK => PayTyped
  BY PayType DEF PayTyped
<1> QED
  BY <1>1, PTL

LEMMA MaintenanceInterval ==
  ASSUME Inv, SlotsTyped, SkipsSlots, SparseSwitches, IntervalOK,
         NEW t \in Int, NEW m \in Miners, NEW skip \in BOOLEAN,
         apply_block(t, m, skip), nextMaint <= t
  PROVE  IntervalOK'
<1> DEFINE c == PayFromFees
           u == unspent - c
           r == mined + get_asset_per_block_by_block_num(head + 1)
<1>1. time \in Nat /\ head \in Nat /\ params \in Parameters
  BY DEF SlotsTyped
<1>2. head' = head + 1 /\ time' = t /\ time < t /\ maintFlag'
  <2>1. maintFlag' = (nextMaint <= t)
    BY DEF apply_block
  <2>2. maintFlag'
    BY <2>1
  <2> QED
    BY <2>2 DEF apply_block, validate_block_header, update_global_dynamic_data
<1>3. perform_chain_maintenance(t, u, r)
  BY DEF apply_block
<1>4. params' \in Parameters /\ nextMaint' = NextMaintenanceTime(t, params')
  BY <1>1, <1>3 DEF perform_chain_maintenance, Inv, TypeOK
<1>5. /\ pool' = 0 /\ mined' = 0 /\ lastBudget' = t
      /\ feeBudget' = pool + u /\ unspent' = pool + u
      /\ rewardBudget' = get_miner_budget(head + 1, BlocksToMaint(t, nextMaint', params'))
  BY <1>3 DEF perform_chain_maintenance, process_budget
<1>6. u \in Nat
  <2>1. CASE head = 0
    <3>1. feeBudget = 0 /\ unspent = 0 /\ nextMaint = 0 /\ lastBudget = 0
      BY <2>1 DEF IntervalOK
    <3>2. c = 0
      <4> DEFINE I == params.block_interval
                 X == (nextMaint - lastBudget + I - 1) \div I
      <4>1. I \in Nat \ {0}
        BY <1>1, ScheduleAssumption
      <4>2. X <= 0
        <5> DEFINE y == nextMaint - lastBudget + I - 1
        <5>1. y \in Int /\ y < I * 0 + I
          BY <3>1, <4>1
        <5> HIDE DEF y, I
        <5>2. y \div I <= 0
          BY <4>1, <5>1, QuotientBelow
        <5> QED
          BY <5>2 DEF y
      <4>3. X \in Int
        <5> DEFINE y == nextMaint - lastBudget + I - 1
        <5>1. y \in Int
          BY <3>1, <4>1
        <5> HIDE DEF y, I
        <5>2. y \div I \in Int
          BY <4>1, <5>1, Quotient
        <5> QED
          BY <5>2 DEF y
      <4>4. c = IF X > 0 THEN feeBudget \div X ELSE 0
        BY DEF PayFromFees
      <4> HIDE DEF X, c
      <4> QED
        BY <4>2, <4>3, <4>4
    <3> HIDE DEF c
    <3> QED
      BY <3>1, <3>2
  <2>2. CASE head > 0
    <3>1. PICK n \in 0..head : Since(n)
      BY <2>2 DEF IntervalOK
    <3>2. n \in Nat /\ Room \in Nat /\ n + 1 <= Room
      BY <2>2, <3>1, RoomLeft
    <3>3. feeBudget \in Nat
      BY <2>2 DEF IntervalOK
    <3> DEFINE k == n + 1
    <3>4. k \in Nat /\ k <= Room
      BY <3>2
    <3>5. c \in Nat /\ k * c \in Nat /\ k * c <= feeBudget
      <4> HIDE DEF k
      <4> QED
        BY <3>2, <3>3, <3>4, SharesCovered
    <3>6. unspent = feeBudget - n * c
      BY <3>1 DEF Since
    <3> HIDE DEF c
    <3>7. k * c = n * c + c /\ n * c \in Nat
      BY <3>2, <3>5
    <3> HIDE DEF k
    <3> QED
      BY <3>3, <3>5, <3>6, <3>7
  <2> QED
    BY <1>1, <2>1, <2>2
<1>7. t \in Nat
  BY <1>1, <1>2
<1>8. t < nextMaint' /\ nextMaint' <= t + params'.maintenance_interval
  BY <1>4, <1>7, NextMaintenanceClose
<1>9. get_miner_budget(head + 1, 0) = 0
  <2> DEFINE h == head + 1
             M == params.maintenance_interval
  <2>1. h \in Nat /\ M \in Nat
    BY <1>1, ScheduleAssumption
  <2> HIDE DEF h
  <2>2. Planned(h, M)
    BY <1>1, <2>1, BudgetPlanned
  <2>3. PICK a, b, k \in Nat : \A n \in 0..M : get_miner_budget(h, n) = Earned(a, b, k, n)
    BY <2>2 DEF Planned
  <2>4. get_miner_budget(h, 0) = Earned(a, b, k, 0)
    BY <2>1, <2>3
  <2>5. Earned(a, b, k, 0) = 0
    BY EarnedStep
  <2> QED
    BY <2>4, <2>5 DEF h
<1> HIDE DEF u, r
<1>10. Since(0)'
  <2>1. PayFromFees' \in Int
    <3>1. Inv'
      BY ApplyBlock
    <3>2. TypeOK'
      BY <3>1 DEF Inv
    <3>3. PayTyped'
      BY <3>2, PayTypeNext
    <3> QED
      BY <3>3 DEF PayTyped
  <2>2. 0 * PayFromFees' = 0
    <3>1. \A x \in Int : 0 * x = 0
      OBVIOUS
    <3> QED
      BY <2>1, <3>1, Zenon
  <2>3. unspent' = feeBudget' - 0 * PayFromFees'
    <3>1. feeBudget' \in Int
      BY <1>5, <1>6 DEF IntervalOK
    <3> QED
      BY <1>5, <2>2, <3>1
  <2>4. head' - 0 = head + 1
    BY <1>1, <1>2
  <2>5. mined' = get_miner_budget(head' - 0, 0)
    BY <1>5, <1>9, <2>4
  <2>6. rewardBudget' = get_miner_budget(head' - 0, BlocksToMaint(lastBudget', nextMaint', params'))
    BY <1>5, <2>4
  <2> QED
    BY <1>2, <1>5, <2>3, <2>5, <2>6 DEF Since, BlocksToMaint, get_miner_budget, get_asset_per_block_by_block_num
<1>11. 0 \in 0..head' /\ head' # 0
  BY <1>1, <1>2
<1>12. \E j \in 0..head' : Since(j)'
  BY <1>10, <1>11
<1>13. pool' \in Nat /\ feeBudget' \in Nat
  BY <1>5, <1>6 DEF IntervalOK
<1>14. /\ lastBudget' \in Nat /\ lastBudget' <= time' /\ time' < nextMaint'
       /\ nextMaint' <= lastBudget' + params'.maintenance_interval
  BY <1>2, <1>5, <1>7, <1>8
<1> QED
  BY <1>11, <1>12, <1>13, <1>14 DEF IntervalOK

LEMMA IntervalNext ==
  ASSUME SkipsSlots, SparseSwitches
  PROVE  Inv /\ SlotsTyped /\ IntervalOK /\ [Next]_vars => IntervalOK'
<1> SUFFICES ASSUME Inv, SlotsTyped, IntervalOK, [Next]_vars PROVE IntervalOK'
  OBVIOUS
<1>1. ASSUME NEW t \in Int, NEW m \in Miners, NEW skip \in BOOLEAN, apply_block(t, m, skip)
      PROVE  IntervalOK'
  BY <1>1, PlainBlockInterval, MaintenanceInterval
<1>2. CASE /\ UNCHANGED <<head, time, maintFlag, nextMaint, params, budget>>
           /\ pool' = pool \/ \E f \in Fees : pool' = pool + f
  <2>1. pool' \in Nat
    BY <1>2, ScheduleAssumption DEF IntervalOK
  <2>2. ASSUME NEW n PROVE Since(n) => Since(n)'
    BY <1>2 DEF Since, budget, PayFromFees, BlocksToMaint, get_miner_budget,
                get_asset_per_block_by_block_num
  <2> QED
    BY <1>2, <2>1, <2>2 DEF IntervalOK, budget
<1> QED
  BY <1>1, <1>2, BlockOrNot

\* For any block times, fees and changes of parameters: miners are never paid
\* fees that were not collected, nor more rewards than maintenance planned.
THEOREM BudgetTheorem ==
  ASSUME SkipsSlots, SparseSwitches
  PROVE  Spec => []BudgetCoversInterval
<1>1. Init => IntervalOK
  BY ScheduleAssumption DEF Init, IntervalOK
<1>2. Inv /\ SlotsTyped /\ IntervalOK /\ [Next]_vars => IntervalOK'
  BY IntervalNext
<1>3. Inv /\ SlotsTyped /\ IntervalOK => BudgetCoversInterval
  BY IntervalCovers
<1> QED
  BY <1>1, <1>2, <1>3, Invariance, PTL DEF Spec
=============================================================================
