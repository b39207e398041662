---------------------------- MODULE LedgerProofs ----------------------------
(***************************************************************************)
(* Proofs about Ledger, for all accounts, assets, amounts, fees, policies  *)
(* and times.                                                              *)
(*                                                                         *)
(* Excess(d, a) is what a database holds of an asset beyond the supply it  *)
(* records.  Each primitive (a balance adjusted, a pool filled, a fee      *)
(* converted, an asset created, a vesting balance opened or changed) has a *)
(* lemma saying by how much it changes the excess; an operation is the sum *)
(* of its primitives.  Vesting balances and the withdraw permission have   *)
(* invariants of their own, VestOK and PermitSteady, which relate them to  *)
(* the records of what was held, withdrawn and taken.                      *)
(***************************************************************************)
EXTENDS Ledger, SumTheorems, TLAPS

-----------------------------------------------------------------------------
(* Databases.                                                              *)

DbFields == {"balance", "supply", "asset_pool", "core_pool", "options", "vestings",
             "permit", "pay_vb", "pay_seconds", "paid"}

OptionRecords ==
  [issuer : Accounts, max : Nat, exchangeable : BOOLEAN, fixed : BOOLEAN,
   core : Nat \ {0}, units : Nat \ {0}]

VestingRecords ==
  [owner : Accounts, asset : Assets, balance : Nat, kind : {"cdd", "linear"},
   seconds : Nat, start : Nat, cliff : Nat, begin : Nat, earned : Nat, updated : Nat]

Permits == [limit : Nat \ {0}, start : Int, expiration : Int, claimed : Nat]

(* The types of a database, and what the sums below need: only live assets *)
(* are held, and a miner has at most one balance its pay goes to, a coin   *)
(* days balance in core.                                                   *)
DbOK(d) ==
  /\ DOMAIN d = DbFields
  /\ Core \in Live(d) /\ Live(d) \subseteq Assets /\ IsFiniteSet(Live(d))
  /\ d.balance \in [Accounts -> [Assets -> Nat]]
  /\ d.supply \in [Live(d) -> Int]
  /\ d.asset_pool \in [Live(d) -> Int]
  /\ d.core_pool \in [Live(d) -> Int]
  /\ d.options \in [Live(d) \ {Core} -> OptionRecords]
  /\ d.vestings \in Seq(VestingRecords)
  /\ d.permit \subseteq Permits
  /\ d.pay_seconds \in Nat /\ d.paid \in Nat
  /\ \A i \in d.pay_vb : /\ i \in DOMAIN d.vestings /\ d.pay_vb = {i}
                         /\ d.vestings[i].asset = Core /\ d.vestings[i].kind = "cdd"
  /\ \A i \in DOMAIN d.vestings : d.vestings[i].asset \in Live(d)
  /\ \A x \in Accounts, a \in Assets \ Live(d) : d.balance[x][a] = 0

(* What is held of an asset beyond what the database says there is.        *)
Excess(d, a) == Held(d, a) - d.supply[a] - (IF a = Core THEN d.paid ELSE 0)

Capped(d) == \A a \in Live(d) \ {Core} : d.supply[a] <= d.options[a].max

(* e is d with other balances and pools. *)
SameButMoney(d, e) ==
  /\ e.supply = d.supply /\ e.options = d.options /\ e.vestings = d.vestings
  /\ e.permit = d.permit /\ e.pay_vb = d.pay_vb /\ e.pay_seconds = d.pay_seconds
  /\ e.paid = d.paid

(* The parts of what is held are integers. *)
LEMMA HeldTypes ==
  ASSUME NEW d, DbOK(d), NEW a \in Assets
  PROVE  /\ Owned(d, a) \in Int
         /\ Vested(d.vestings, a) \in Int
         /\ SumFunctionOnSet(d.core_pool, Live(d)) \in Int
<1>1. Owned(d, a) \in Int
  <2> DEFINE f == [x \in Accounts |-> d.balance[x][a]]
  <2>1. IntValued(f, Accounts)
    BY DEF DbOK, IntValued
  <2>2. IsFiniteSet(Accounts)
    BY LedgerAssumption
  <2> HIDE DEF f
  <2>3. SumFunctionOnSet(f, Accounts) \in Int
    BY <2>1, <2>2, SumType
  <2> QED
    BY <2>3 DEF Owned, f
<1>2. Vested(d.vestings, a) \in Int
  <2> DEFINE vs == d.vestings
             f == [i \in DOMAIN vs |-> IF vs[i].asset = a THEN vs[i].balance ELSE 0]
  <2>0. vs \in Seq(VestingRecords)
    BY DEF DbOK
  <2> HIDE DEF vs
  <2>4. ASSUME NEW i \in DOMAIN vs PROVE vs[i].balance \in Nat
    <3>1. vs[i] \in VestingRecords
      BY <2>0
    <3> QED
      BY <3>1 DEF VestingRecords
  <2>1. IntValued(f, DOMAIN vs)
    BY <2>4 DEF IntValued
  <2>2. IsFiniteSet(DOMAIN vs)
    BY <2>0, FS_Interval
  <2> HIDE DEF f
  <2>3. SumFunctionOnSet(f, DOMAIN vs) \in Int
    BY <2>1, <2>2, SumType
  <2> QED
    BY <2>3 DEF Vested, f, vs
<1>3. SumFunctionOnSet(d.core_pool, Live(d)) \in Int
  <2>1. IntValued(d.core_pool, Live(d)) /\ IsFiniteSet(Live(d))
    BY DEF DbOK, IntValued
  <2> QED
    BY <2>1, SumType
<1> QED
  BY <1>1, <1>2, <1>3

LEMMA HeldParts ==
  ASSUME NEW d, DbOK(d), NEW a \in Live(d)
  PROVE  /\ d.asset_pool[a] \in Int /\ d.supply[a] \in Int /\ d.paid \in Int
         /\ Owned(d, a) \in Int /\ Vested(d.vestings, a) \in Int
         /\ SumFunctionOnSet(d.core_pool, Live(d)) \in Int
<1>1. /\ a \in Assets /\ d.asset_pool[a] \in Int /\ d.supply[a] \in Int /\ d.paid \in Int
  BY DEF DbOK
<1> QED
  BY <1>1, HeldTypes

LEMMA ExcessType ==
  ASSUME NEW d, DbOK(d), NEW a \in Live(d)
  PROVE  Excess(d, a) \in Int
<1>1. /\ a \in Assets /\ d.asset_pool[a] \in Int /\ d.supply[a] \in Int /\ d.paid \in Int
  BY DEF DbOK
<1>2. Held(d, a) \in Int
  BY <1>1, HeldTypes DEF Held
<1> QED
  BY <1>1, <1>2 DEF Excess

(* database::adjust_balance changes what is held of one live asset. *)
LEMMA AdjustEffect ==
  ASSUME NEW d, DbOK(d), NEW x \in Accounts, NEW s \in Live(d), NEW n \in Int,
         NEW e \in adjust_balance(d, x, s, n)
  PROVE  /\ DbOK(e)
         /\ SameButMoney(d, e)
         /\ e.asset_pool = d.asset_pool /\ e.core_pool = d.core_pool
         /\ \A a \in Live(d) : Excess(e, a) = Excess(d, a) + (IF a = s THEN n ELSE 0)
<1> DEFINE bal == d.balance
           new == [bal EXCEPT ![x] = [bal[x] EXCEPT ![s] = bal[x][s] + n]]
<1>0. d.balance[x][s] \in Nat
  BY DEF DbOK
<1>1. d.balance[x][s] + n >= 0 /\ e = [d EXCEPT !.balance[x][s] = @ + n]
  BY <1>0 DEF adjust_balance
<1>2. DOMAIN d = DbFields
  BY DEF DbOK
<1>3. e = [d EXCEPT !.balance = new]
  BY <1>1
<1>4. /\ DOMAIN e = DbFields /\ e.balance = new
      /\ SameButMoney(d, e) /\ e.asset_pool = d.asset_pool /\ e.core_pool = d.core_pool
  BY <1>2, <1>3 DEF DbFields, SameButMoney
<1>5. new \in [Accounts -> [Assets -> Nat]]
  <2>1. bal \in [Accounts -> [Assets -> Nat]]
    BY Zenon DEF DbOK
  <2> DEFINE row == [bal[x] EXCEPT ![s] = bal[x][s] + n]
  <2>2. bal[x][s] + n \in Nat
    BY <1>0, <1>1
  <2> HIDE DEF bal
  <2>3. row \in [Assets -> Nat]
    BY <2>1, <2>2
  <2> HIDE DEF row
  <2> QED
    BY <2>1, <2>3 DEF row
<1>6. \A y \in Accounts, a \in Assets : new[y][a] = IF y = x /\ a = s THEN bal[x][s] + n ELSE bal[y][a]
  BY DEF DbOK
<1>7. DbOK(e)
  <2>1. \A y \in Accounts, a \in Assets \ Live(d) : new[y][a] = 0
    BY <1>6 DEF DbOK
  <2>2. Live(e) = Live(d)
    BY <1>4 DEF Live, SameButMoney
  <2> HIDE DEF new
  <2> QED
    BY <1>4, <1>5, <2>1, <2>2 DEF DbOK, SameButMoney
<1>8. ASSUME NEW a \in Live(d)
      PROVE  Excess(e, a) = Excess(d, a) + (IF a = s THEN n ELSE 0)
  <2> DEFINE f == [y \in Accounts |-> bal[y][a]]
             g == [y \in Accounts |-> new[y][a]]
  <2>0. a \in Assets /\ bal \in [Accounts -> [Assets -> Nat]]
    BY DEF DbOK
  <2>1. IntValued(f, Accounts) /\ g[x] \in Int /\ (\A y \in Accounts : y # x => g[y] = f[y])
    BY <2>0, <1>5, <1>6 DEF IntValued
  <2>2. g[x] - f[x] = IF a = s THEN n ELSE 0
    BY <2>0, <1>6
  <2>3. IsFiniteSet(Accounts)
    BY LedgerAssumption
  <2>4. Owned(d, a) = SumFunctionOnSet(f, Accounts) /\ Owned(e, a) = SumFunctionOnSet(g, Accounts)
    BY <1>4 DEF Owned
  <2> HIDE DEF f, g
  <2>5. SumFunctionOnSet(g, Accounts) = SumFunctionOnSet(f, Accounts) + (g[x] - f[x])
    BY <2>1, <2>3, SumUpdate
  <2>6. Owned(e, a) = Owned(d, a) + (IF a = s THEN n ELSE 0)
    BY <2>2, <2>4, <2>5
  <2>7. Live(e) = Live(d)
    BY <1>4 DEF Live, SameButMoney
  <2>8. /\ d.asset_pool[a] \in Int /\ d.supply[a] \in Int /\ d.paid \in Int
        /\ Owned(d, a) \in Int /\ Vested(d.vestings, a) \in Int
        /\ SumFunctionOnSet(d.core_pool, Live(d)) \in Int
    BY <2>0, HeldParts
  <2>9. Held(e, a) = Held(d, a) + (IF a = s THEN n ELSE 0) /\ Held(d, a) \in Int
    BY <1>4, <2>6, <2>7, <2>8 DEF Held, SameButMoney
  <2> QED
    BY <1>4, <2>8, <2>9 DEF Excess, SameButMoney
<1> QED
  BY <1>4, <1>7, <1>8

(* Other pools: uia more of the asset s and dct more of core. *)
LEMMA PoolEffect ==
  ASSUME NEW d, DbOK(d), NEW s \in Live(d), NEW uia \in Int, NEW dct \in Int, NEW e,
         DOMAIN e = DbFields, SameButMoney(d, e), e.balance = d.balance,
         e.asset_pool = [d.asset_pool EXCEPT ![s] = @ + uia],
         e.core_pool = [d.core_pool EXCEPT ![s] = @ + dct]
  PROVE  /\ DbOK(e)
         /\ \A a \in Live(d) : Excess(e, a) = Excess(d, a) + (IF a = s THEN uia ELSE 0)
                                                         + (IF a = Core THEN dct ELSE 0)
<1> DEFINE p == d.asset_pool
           q == d.core_pool
           p2 == e.asset_pool
           q2 == e.core_pool
<1>1. p \in [Live(d) -> Int] /\ q \in [Live(d) -> Int] /\ IsFiniteSet(Live(d))
  BY DEF DbOK
<1>4. p2 \in [Live(d) -> Int] /\ q2 \in [Live(d) -> Int]
  BY <1>1
<1>5. Live(e) = Live(d)
  BY DEF Live, SameButMoney
<1>6. \A a \in Live(d) : p2[a] = p[a] + (IF a = s THEN uia ELSE 0)
  BY <1>1
<1>7. SumFunctionOnSet(q2, Live(d)) = SumFunctionOnSet(q, Live(d)) + dct
  <2>1. /\ IntValued(q, Live(d)) /\ q2[s] \in Int /\ q2[s] - q[s] = dct
        /\ \A y \in Live(d) : y # s => q2[y] = q[y]
    BY <1>1 DEF IntValued
  <2> HIDE DEF q, q2
  <2>2. SumFunctionOnSet(q2, Live(d)) = SumFunctionOnSet(q, Live(d)) + (q2[s] - q[s])
    BY <1>1, <2>1, SumUpdate
  <2> QED
    BY <2>1, <2>2
<1>8. DbOK(e)
  <2>1. Core \in Live(e) /\ Live(e) \subseteq Assets /\ IsFiniteSet(Live(e))
    BY <1>5, Zenon DEF DbOK
  <2>2. /\ e.balance \in [Accounts -> [Assets -> Nat]] /\ e.supply \in [Live(e) -> Int]
        /\ e.options \in [Live(e) \ {Core} -> OptionRecords]
    BY <1>5, Zenon DEF DbOK, SameButMoney
  <2>3. /\ e.vestings \in Seq(VestingRecords) /\ e.permit \subseteq Permits
        /\ e.pay_seconds \in Nat /\ e.paid \in Nat
    BY Zenon DEF DbOK, SameButMoney
  <2>4. \A i \in e.pay_vb : /\ i \in DOMAIN e.vestings /\ e.pay_vb = {i}
                            /\ e.vestings[i].asset = Core /\ e.vestings[i].kind = "cdd"
    BY Zenon DEF DbOK, SameButMoney
  <2>5. \A i \in DOMAIN e.vestings : e.vestings[i].asset \in Live(e)
    BY <1>5, Zenon DEF DbOK, SameButMoney
  <2>6. \A x \in Accounts, a \in Assets \ Live(e) : e.balance[x][a] = 0
    <3>1. \A x \in Accounts, a \in Assets \ Live(d) : d.balance[x][a] = 0
      BY Zenon DEF DbOK
    <3> QED
      BY <1>5, <3>1
  <2> QED
    BY <1>4, <1>5, <2>1, <2>2, <2>3, <2>4, <2>5, <2>6, Zenon DEF DbOK
<1>9. ASSUME NEW a \in Live(d)
      PROVE  Excess(e, a) = Excess(d, a) + (IF a = s THEN uia ELSE 0) + (IF a = Core THEN dct ELSE 0)
  <2>1. Owned(e, a) = Owned(d, a) /\ Vested(e.vestings, a) = Vested(d.vestings, a)
    BY DEF Owned, SameButMoney
  <2>2. /\ p[a] \in Int /\ d.supply[a] \in Int /\ d.paid \in Int
        /\ Owned(d, a) \in Int /\ Vested(d.vestings, a) \in Int
        /\ SumFunctionOnSet(q, Live(d)) \in Int
    BY HeldParts
  <2>3. e.supply = d.supply /\ e.paid = d.paid
    BY DEF SameButMoney
  <2>4. p2[a] = p[a] + (IF a = s THEN uia ELSE 0)
    BY <1>6
  <2>5. /\ Held(d, a) = Owned(d, a) + p[a] + Vested(d.vestings, a)
                        + (IF a = Core THEN SumFunctionOnSet(q, Live(d)) ELSE 0)
        /\ Held(e, a) = Owned(e, a) + p2[a] + Vested(e.vestings, a)
                        + (IF a = Core THEN SumFunctionOnSet(q2, Live(d)) ELSE 0)
    BY <1>5 DEF Held
  <2> HIDE DEF p, p2, q, q2
  <2>6. /\ Held(e, a) = Held(d, a) + (IF a = s THEN uia ELSE 0) + (IF a = Core THEN dct ELSE 0)
        /\ Held(d, a) \in Int
    BY <1>7, <2>1, <2>2, <2>4, <2>5
  <2> QED
    BY <2>2, <2>3, <2>6 DEF Excess
<1> QED
  BY <1>8, <1>9

(* The database in which an operation is evaluated, its fee converted and  *)
(* paid. *)
Charged(d, fee, paid) == pay_fee(convert_fee(d, fee, paid), paid)

(* Converting and paying a fee. *)
LEMMA FeeEffect ==
  ASSUME NEW d, DbOK(d), NEW fee \in [asset : Assets, amount : Nat], fee.asset \in Live(d),
         NEW paid \in Int
  PROVE  /\ DbOK(Charged(d, fee, paid))
         /\ SameButMoney(d, Charged(d, fee, paid))
         /\ Charged(d, fee, paid).balance = d.balance
         /\ \A a \in Live(d) : Excess(Charged(d, fee, paid), a) =
              Excess(d, a) + (IF a # fee.asset THEN 0
                              ELSE IF a = Core THEN paid ELSE fee.amount)
<1> DEFINE s == fee.asset
           c == convert_fee(d, fee, paid)
           e == pay_fee(c, paid)
<1>1. /\ DbOK(c) /\ SameButMoney(d, c) /\ c.balance = d.balance
      /\ \A a \in Live(d) : Excess(c, a) = Excess(d, a) +
           (IF s = Core THEN 0 ELSE IF a = s THEN fee.amount ELSE IF a = Core THEN -paid ELSE 0)
  <2>1. CASE s = Core
    <3>1. c = d
      BY <2>1 DEF convert_fee
    <3> HIDE DEF c
    <3> QED
      BY <2>1, <3>1, ExcessType DEF SameButMoney
  <2>2. CASE s # Core
    <3>1. /\ DOMAIN c = DbFields /\ SameButMoney(d, c) /\ c.balance = d.balance
          /\ c.asset_pool = [d.asset_pool EXCEPT ![s] = @ + fee.amount]
          /\ c.core_pool = [d.core_pool EXCEPT ![s] = @ + (-paid)]
      <4>1. d.core_pool[s] - paid = d.core_pool[s] + (-paid) /\ DOMAIN d = DbFields
        BY DEF DbOK
      <4>2. c = [d EXCEPT !.asset_pool = [d.asset_pool EXCEPT ![s] = @ + fee.amount],
                          !.core_pool = [d.core_pool EXCEPT ![s] = @ + (-paid)]]
        BY <2>2, <4>1 DEF convert_fee
      <4> HIDE DEF c
      <4> QED
        BY <4>1, <4>2 DEF SameButMoney, DbFields
    <3>2. fee.amount \in Int /\ -paid \in Int
      OBVIOUS
    <3> HIDE DEF c, s
    <3>3. s \in Live(d)
      BY DEF s
    <3>4. /\ DbOK(c) /\ SameButMoney(d, c) /\ c.balance = d.balance
          /\ \A a \in Live(d) : Excess(c, a) = Excess(d, a)
               + (IF a = s THEN fee.amount ELSE 0) + (IF a = Core THEN -paid ELSE 0)
      BY <3>1, <3>2, <3>3, PoolEffect
    <3> QED
      BY <2>2, <3>2, <3>4, ExcessType
  <2> QED
    BY <2>1, <2>2
<1>2. /\ DbOK(e) /\ SameButMoney(c, e) /\ e.balance = c.balance
      /\ \A a \in Live(c) : Excess(e, a) = Excess(c, a) + (IF a = Core THEN paid ELSE 0)
  <2>0. Core \in Live(c) /\ c.core_pool[Core] \in Int /\ DOMAIN c = DbFields
        /\ c.core_pool \in [Live(c) -> Int]
    BY <1>1 DEF DbOK
  <2> HIDE DEF c
  <2>1. /\ DOMAIN e = DbFields /\ SameButMoney(c, e) /\ e.balance = c.balance
        /\ e.asset_pool = [c.asset_pool EXCEPT ![Core] = @ + paid]
        /\ e.core_pool = [c.core_pool EXCEPT ![Core] = @ + 0]
    <3>1. c.core_pool = [c.core_pool EXCEPT ![Core] = @ + 0]
      BY <2>0
    <3>2. e = [c EXCEPT !.asset_pool = [c.asset_pool EXCEPT ![Core] = @ + paid]]
      BY DEF pay_fee
    <3> HIDE DEF e
    <3>3. DOMAIN e = DbFields /\ SameButMoney(c, e) /\ e.balance = c.balance
          /\ e.asset_pool = [c.asset_pool EXCEPT ![Core] = @ + paid] /\ e.core_pool = c.core_pool
      BY <2>0, <3>2 DEF DbFields, SameButMoney
    <3> QED
      BY <3>1, <3>3
  <2>2. /\ DbOK(e) /\ SameButMoney(c, e) /\ e.balance = c.balance
        /\ \A a \in Live(c) : Excess(e, a) = Excess(c, a) + (IF a = Core THEN paid ELSE 0)
                                               + (IF a = Core THEN 0 ELSE 0)
    <3> HIDE DEF e
    <3> QED
      BY <1>1, <2>0, <2>1, PoolEffect
  <2> QED
    BY <1>1, <2>2, ExcessType
<1> HIDE DEF e, c
<1>3. Live(c) = Live(d)
  BY <1>1 DEF Live, SameButMoney
<1>4. SameButMoney(d, e) /\ e.balance = d.balance
  BY <1>1, <1>2 DEF SameButMoney
<1>5. ASSUME NEW a \in Live(d)
      PROVE  Excess(e, a) = Excess(d, a) + (IF a # s THEN 0 ELSE IF a = Core THEN paid ELSE fee.amount)
  <2>1. Excess(d, a) \in Int /\ fee.amount \in Int
    BY ExcessType
  <2> QED
    BY <1>1, <1>2, <1>3, <2>1
<1>6. Charged(d, fee, paid) = e
  BY DEF Charged, e, c
<1> QED
  BY <1>2, <1>4, <1>5, <1>6


(* e is d with another supply. *)
SameButSupply(d, e) ==
  /\ e.balance = d.balance /\ e.asset_pool = d.asset_pool /\ e.core_pool = d.core_pool
  /\ e.options = d.options /\ e.vestings = d.vestings /\ e.permit = d.permit
  /\ e.pay_vb = d.pay_vb /\ e.pay_seconds = d.pay_seconds /\ e.paid = d.paid

(* Another supply: the excess is less by as much. *)
LEMMA SupplyEffect ==
  ASSUME NEW d, DbOK(d), NEW s \in Live(d), NEW n \in Int, NEW e,
         DOMAIN e = DbFields, SameButSupply(d, e),
         e.supply = [d.supply EXCEPT ![s] = @ + n]
  PROVE  /\ DbOK(e) /\ Live(e) = Live(d)
         /\ \A a \in Live(d) : Excess(e, a) = Excess(d, a) - (IF a = s THEN n ELSE 0)
<1> DEFINE new == e.supply
<1>1. d.supply \in [Live(d) -> Int]
  BY DEF DbOK
<1>3. new \in [Live(d) -> Int] /\ \A a \in Live(d) : new[a] = d.supply[a] + (IF a = s THEN n ELSE 0)
  BY <1>1
<1>4. Live(e) = Live(d)
  BY <1>3 DEF Live
<1>5. DbOK(e)
  BY <1>3, <1>4 DEF DbOK, SameButSupply
<1>6. ASSUME NEW a \in Live(d)
      PROVE  Excess(e, a) = Excess(d, a) - (IF a = s THEN n ELSE 0)
  <2>1. Held(e, a) = Held(d, a) /\ e.paid = d.paid
    BY <1>4 DEF Held, Owned, SameButSupply
  <2>2. d.supply[a] \in Int /\ d.paid \in Int /\ Held(d, a) \in Int
    BY HeldParts DEF Held
  <2>3. new[a] = d.supply[a] + (IF a = s THEN n ELSE 0)
    BY <1>3
  <2> HIDE DEF new
  <2>4. Excess(e, a) = Held(e, a) - new[a] - (IF a = Core THEN e.paid ELSE 0)
    BY DEF Excess, new
  <2> QED
    BY <2>1, <2>2, <2>3, <2>4 DEF Excess
<1> QED
  BY <1>4, <1>5, <1>6

(* Money moves between accounts: transfer_evaluator and the withdraw       *)
(* permission's claim. *)
LEMMA MoveEffect ==
  ASSUME NEW d, DbOK(d), NEW from \in Accounts, NEW to \in Accounts, NEW s \in Live(d), NEW n \in Nat,
         NEW e \in Move(d, from, to, s, n)
  PROVE  /\ DbOK(e) /\ SameButMoney(d, e)
         /\ \A a \in Live(d) : Excess(e, a) = Excess(d, a)
<1>1. PICK x \in adjust_balance(d, from, s, -n) : e \in adjust_balance(x, to, s, n)
  BY DEF Move, Then
<1>2. /\ DbOK(x) /\ SameButMoney(d, x)
      /\ \A a \in Live(d) : Excess(x, a) = Excess(d, a) + (IF a = s THEN -n ELSE 0)
  <2>1. -n \in Int
    OBVIOUS
  <2> QED
    BY <1>1, <2>1, AdjustEffect
<1>3. Live(x) = Live(d)
  BY <1>2 DEF SameButMoney, Live
<1>4. /\ DbOK(e) /\ SameButMoney(x, e)
      /\ \A a \in Live(d) : Excess(e, a) = Excess(x, a) + (IF a = s THEN n ELSE 0)
  BY <1>1, <1>2, <1>3, AdjustEffect
<1>5. SameButMoney(d, e)
  BY <1>2, <1>4 DEF SameButMoney
<1>6. ASSUME NEW a \in Live(d) PROVE Excess(e, a) = Excess(d, a)
  BY <1>2, <1>4, ExcessType
<1> QED
  BY <1>4, <1>5, <1>6

(* An account pays into the pools of an asset, or is paid from them. *)
LEMMA ToPoolsEffect ==
  ASSUME NEW d, DbOK(d), NEW x \in Accounts, NEW s \in Live(d), NEW uia \in Int, NEW dct \in Int,
         NEW e \in ToPools(d, x, s, uia, dct)
  PROVE  /\ DbOK(e) /\ SameButMoney(d, e)
         /\ \A a \in Live(d) : Excess(e, a) = Excess(d, a)
<1>1. PICK y, z :
        /\ y \in adjust_balance(d, x, s, -uia) /\ z \in adjust_balance(y, x, Core, -dct)
        /\ e = [z EXCEPT !.asset_pool[s] = @ + uia, !.core_pool[s] = @ + dct]
  <2> DEFINE Y == adjust_balance(d, x, s, -uia)
             Z == UNION {adjust_balance(y, x, Core, -dct) : y \in Y}
  <2>1. e \in UNION {{[z EXCEPT !.asset_pool[s] = @ + uia, !.core_pool[s] = @ + dct]} : z \in Z}
    BY DEF ToPools, Then
  <2> HIDE DEF Z
  <2>2. PICK z \in Z : e = [z EXCEPT !.asset_pool[s] = @ + uia, !.core_pool[s] = @ + dct]
    BY <2>1
  <2>3. PICK y \in Y : z \in adjust_balance(y, x, Core, -dct)
    BY DEF Z
  <2> QED
    BY <2>2, <2>3
<1>2. -uia \in Int /\ -dct \in Int
  OBVIOUS
<1>3. /\ DbOK(y) /\ SameButMoney(d, y)
      /\ \A a \in Live(d) : Excess(y, a) = Excess(d, a) + (IF a = s THEN -uia ELSE 0)
  BY <1>1, <1>2, AdjustEffect
<1>4. Live(y) = Live(d) /\ Core \in Live(y)
  BY <1>3 DEF SameButMoney, Live, DbOK
<1>5. /\ DbOK(z) /\ SameButMoney(y, z)
      /\ \A a \in Live(d) : Excess(z, a) = Excess(y, a) + (IF a = Core THEN -dct ELSE 0)
  BY <1>1, <1>2, <1>3, <1>4, AdjustEffect
<1>6. Live(z) = Live(d)
  BY <1>4, <1>5 DEF SameButMoney, Live
<1>7. /\ DOMAIN e = DbFields /\ SameButMoney(z, e) /\ e.balance = z.balance
      /\ e.asset_pool = [z.asset_pool EXCEPT ![s] = @ + uia]
      /\ e.core_pool = [z.core_pool EXCEPT ![s] = @ + dct]
  <2>1. DOMAIN z = DbFields
    BY <1>5 DEF DbOK
  <2> QED
    BY <1>1, <2>1 DEF DbFields, SameButMoney
<1>8. /\ DbOK(e)
      /\ \A a \in Live(d) : Excess(e, a) = Excess(z, a) + (IF a = s THEN uia ELSE 0)
                                                      + (IF a = Core THEN dct ELSE 0)
  BY <1>5, <1>6, <1>7, PoolEffect
<1>9. SameButMoney(d, e)
  BY <1>3, <1>5, <1>7 DEF SameButMoney
<1>10. ASSUME NEW a \in Live(d) PROVE Excess(e, a) = Excess(d, a)
  <2>1. Excess(d, a) \in Int
    BY ExcessType
  <2> QED
    BY <1>3, <1>5, <1>8, <2>1
<1> QED
  BY <1>8, <1>9, <1>10

-----------------------------------------------------------------------------
(* Operations.                                                             *)

(* A database of which all money is explained, when m of core was made by  *)
(* the creation of assets. *)
Explained(d, m) == \A a \in Live(d) : Excess(d, a) = IF a = Core THEN m ELSE 0

Good(d, m) == DbOK(d) /\ Explained(d, m) /\ Capped(d)

(* What a fee is in core. *)
LEMMA CoreFeeType ==
  ASSUME NEW d, DbOK(d), NEW fee \in [asset : Assets, amount : Nat], fee.asset \in Live(d)
  PROVE  CoreFee(d, fee) \in Nat
<1>1. CASE fee.asset = Core
  BY <1>1 DEF CoreFee
<1>2. CASE fee.asset # Core
  <2> DEFINE o == d.options[fee.asset]
  <2>1. o \in OptionRecords
    BY <1>2 DEF DbOK
  <2>2. fee.amount \in Nat /\ o.core \in Nat /\ o.units \in Nat \ {0}
    BY <2>1 DEF OptionRecords
  <2>3. CoreFee(d, fee) = (fee.amount * o.core) \div o.units
    BY <1>2 DEF CoreFee
  <2> HIDE DEF o
  <2>4. fee.amount * o.core \in Nat
    BY <2>2
  <2>5. \A m \in Nat, k \in Nat \ {0} : m \div k \in Nat
    OBVIOUS
  <2> QED
    BY <2>2, <2>3, <2>4, <2>5
<1> QED
  BY <1>1, <1>2

(* An asset has an issuer. *)
LEMMA IssuerType ==
  ASSUME NEW d, DbOK(d), NEW s \in UIAs \cap Live(d)
  PROVE  d.options[s].issuer \in Accounts
<1>1. d.options[s] \in OptionRecords
  BY DEF DbOK, UIAs
<1> QED
  BY <1>1 DEF OptionRecords

LEMMA Start ==
  ASSUME NEW d, Good(d, made), NEW fee \in Fees, FeeAllowed(d, fee)
  PROVE  LET D == Charged(d, fee, CoreFee(d, fee))
         IN  /\ DbOK(D) /\ SameButMoney(d, D) /\ D.balance = d.balance
             /\ Live(D) = Live(d) /\ Capped(D) /\ fee.asset \in Live(d)
             /\ \A a \in Live(d) : Excess(D, a) = Excess(d, a) + (IF a = fee.asset THEN fee.amount ELSE 0)
<1> DEFINE D == Charged(d, fee, CoreFee(d, fee))
<1>1. fee \in [asset : Assets, amount : Nat]
  BY LedgerAssumption
<1>3. fee.asset \in Live(d) /\ DbOK(d)
  BY DEF FeeAllowed, Good
<1>2. CoreFee(d, fee) \in Int
  BY <1>1, <1>3, CoreFeeType
<1>4. /\ DbOK(D) /\ SameButMoney(d, D) /\ D.balance = d.balance
      /\ \A a \in Live(d) : Excess(D, a) =
           Excess(d, a) + (IF a # fee.asset THEN 0 ELSE IF a = Core THEN CoreFee(d, fee) ELSE fee.amount)
  BY <1>1, <1>2, <1>3, FeeEffect
<1> HIDE DEF D
<1>5. fee.asset = Core => CoreFee(d, fee) = fee.amount
  BY DEF CoreFee
<1>6. Live(D) = Live(d) /\ Capped(D)
  BY <1>4 DEF Live, SameButMoney, Capped, Good
<1>7. ASSUME NEW a \in Live(d)
      PROVE  Excess(D, a) = Excess(d, a) + (IF a = fee.asset THEN fee.amount ELSE 0)
  <2>1. Excess(d, a) \in Int
    BY <1>3, ExcessType
  <2> QED
    BY <1>1, <1>2, <1>4, <1>5, <2>1
<1> QED
  BY <1>3, <1>4, <1>6, <1>7 DEF D

LEMMA Finish ==
  ASSUME NEW d, Good(d, made), NEW fee \in Fees, FeeAllowed(d, fee), NEW payer \in Accounts,
         NEW x, DbOK(x), Live(x) = Live(d), Capped(x),
         \A a \in Live(d) : Excess(x, a) = Excess(Charged(d, fee, CoreFee(d, fee)), a),
         NEW e \in adjust_balance(x, payer, fee.asset, -fee.amount)
  PROVE  Good(e, made) /\ SameButMoney(x, e)
<1> DEFINE D == Charged(d, fee, CoreFee(d, fee))
<1>1. /\ fee.asset \in Live(d)
      /\ \A a \in Live(d) : Excess(D, a) = Excess(d, a) + (IF a = fee.asset THEN fee.amount ELSE 0)
  BY Start
<1> HIDE DEF D
<1>2. fee.amount \in Nat /\ -fee.amount \in Int
  BY LedgerAssumption
<1>3. /\ DbOK(e) /\ SameButMoney(x, e)
      /\ \A a \in Live(x) : Excess(e, a) = Excess(x, a) + (IF a = fee.asset THEN -fee.amount ELSE 0)
  BY <1>1, <1>2, AdjustEffect
<1>4. Live(e) = Live(x) /\ Capped(e)
  BY <1>3 DEF SameButMoney, Live, Capped
<1>5. ASSUME NEW a \in Live(e) PROVE Excess(e, a) = Excess(d, a)
  <2>1. Excess(d, a) \in Int
    BY <1>4, ExcessType DEF Good
  <2> QED
    BY <1>1, <1>2, <1>3, <1>4, <2>1 DEF D
<1> QED
  BY <1>3, <1>4, <1>5 DEF Good, Explained

LEMMA TransferGood ==
  ASSUME Good(db, made), transfer
  PROVE  Good(db', made) /\ db'.vestings = db.vestings /\ db'.permit = db.permit
<1>1. PICK from \in Accounts, to \in Accounts, s \in Live(db), n \in Amounts :
        Operation(from, LAMBDA d : Move(d, from, to, s, n))
  BY DEF transfer
<1>2. PICK fee \in Fees : /\ FeeAllowed(db, fee)
                          /\ db' \in apply(db, from, fee, CoreFee(db, fee), LAMBDA d : Move(d, from, to, s, n))
  BY <1>1 DEF Operation
<1> DEFINE D == Charged(db, fee, CoreFee(db, fee))
<1>3. PICK x \in Move(D, from, to, s, n) : db' \in adjust_balance(x, from, fee.asset, -fee.amount)
  BY <1>2 DEF apply, Then, Charged
<1>4. DbOK(D) /\ SameButMoney(db, D) /\ Live(D) = Live(db) /\ Capped(D)
  BY <1>2, Start
<1> HIDE DEF D
<1>5. n \in Nat
  BY LedgerAssumption
<1>6. DbOK(x) /\ SameButMoney(D, x) /\ \A a \in Live(db) : Excess(x, a) = Excess(D, a)
  BY <1>3, <1>4, <1>5, MoveEffect
<1>7. Live(x) = Live(db) /\ Capped(x)
  BY <1>4, <1>6 DEF SameButMoney, Live, Capped
<1>8. Good(db', made) /\ SameButMoney(x, db')
  BY <1>2, <1>3, <1>6, <1>7, Finish DEF D
<1> QED
  BY <1>4, <1>6, <1>8 DEF SameButMoney


(* Nothing but money and assets changed. *)
SameRest(d, e) ==
  e.vestings = d.vestings /\ e.permit = d.permit

LEMMA FundGood ==
  ASSUME Good(db, made), asset_fund_pools
  PROVE  Good(db', made) /\ SameRest(db, db')
<1>1. PICK s \in UIAs \cap Live(db), from \in Accounts, uia \in Amounts \cup {0}, dct \in Amounts \cup {0},
           fee \in Fees :
        /\ fee.asset = Core
        /\ db' \in apply(db, from, fee, fee.amount, LAMBDA d : ToPools(d, from, s, uia, dct))
  BY DEF asset_fund_pools
<1>2. FeeAllowed(db, fee) /\ CoreFee(db, fee) = fee.amount
  BY <1>1 DEF FeeAllowed, CoreFee, Good, DbOK
<1> DEFINE D == Charged(db, fee, CoreFee(db, fee))
<1>3. PICK x \in ToPools(D, from, s, uia, dct) : db' \in adjust_balance(x, from, fee.asset, -fee.amount)
  BY <1>1, <1>2 DEF apply, Then, Charged
<1>4. DbOK(D) /\ SameButMoney(db, D) /\ Live(D) = Live(db) /\ Capped(D)
  BY <1>2, Start
<1> HIDE DEF D
<1>5. uia \in Int /\ dct \in Int
  BY LedgerAssumption
<1>6. DbOK(x) /\ SameButMoney(D, x) /\ \A a \in Live(db) : Excess(x, a) = Excess(D, a)
  BY <1>3, <1>4, <1>5, ToPoolsEffect
<1>7. Live(x) = Live(db) /\ Capped(x)
  BY <1>4, <1>6 DEF SameButMoney, Live, Capped
<1>8. Good(db', made) /\ SameButMoney(x, db')
  BY <1>2, <1>3, <1>6, <1>7, Finish DEF D
<1> QED
  BY <1>4, <1>6, <1>8 DEF SameButMoney, SameRest

LEMMA ClaimFeesGood ==
  ASSUME Good(db, made), asset_claim_fees
  PROVE  Good(db', made) /\ SameRest(db, db')
<1>1. PICK s \in UIAs \cap Live(db), uia \in Amounts \cup {0}, dct \in Amounts \cup {0} :
        Operation(db.options[s].issuer, LAMBDA d : ToPools(d, db.options[s].issuer, s, -uia, -dct))
  BY DEF asset_claim_fees
<1> DEFINE i == db.options[s].issuer
<1>2. PICK fee \in Fees :
        /\ FeeAllowed(db, fee)
        /\ db' \in apply(db, i, fee, CoreFee(db, fee), LAMBDA d : ToPools(d, i, s, -uia, -dct))
  BY <1>1 DEF Operation
<1> DEFINE D == Charged(db, fee, CoreFee(db, fee))
<1>3. PICK x \in ToPools(D, i, s, -uia, -dct) : db' \in adjust_balance(x, i, fee.asset, -fee.amount)
  BY <1>2 DEF apply, Then, Charged
<1>4. DbOK(D) /\ SameButMoney(db, D) /\ Live(D) = Live(db) /\ Capped(D)
  BY <1>2, Start
<1> HIDE DEF D, i
<1>5. -uia \in Int /\ -dct \in Int /\ i \in Accounts
  BY LedgerAssumption, IssuerType DEF Good, i
<1>6. DbOK(x) /\ SameButMoney(D, x) /\ \A a \in Live(db) : Excess(x, a) = Excess(D, a)
  BY <1>3, <1>4, <1>5, ToPoolsEffect
<1>7. Live(x) = Live(db) /\ Capped(x)
  BY <1>4, <1>6 DEF SameButMoney, Live, Capped
<1>8. Good(db', made) /\ SameButMoney(x, db')
  BY <1>2, <1>3, <1>5, <1>6, <1>7, Finish DEF D
<1> QED
  BY <1>4, <1>6, <1>8 DEF SameButMoney, SameRest

(* A supply that changes with what an account has of it. *)
LEMMA SupplyMoves ==
  ASSUME NEW D, DbOK(D), Capped(D), NEW x \in Accounts, NEW s \in Live(D), NEW n \in Int,
         s # Core => D.supply[s] + n <= D.options[s].max,
         NEW y \in adjust_balance(D, x, s, n), NEW z,
         DOMAIN z = DbFields, SameButSupply(y, z), z.supply = [y.supply EXCEPT ![s] = @ + n]
  PROVE  /\ DbOK(z) /\ Live(z) = Live(D) /\ Capped(z) /\ SameRest(D, z)
         /\ \A a \in Live(D) : Excess(z, a) = Excess(D, a)
<1>1. /\ DbOK(y) /\ SameButMoney(D, y)
      /\ \A a \in Live(D) : Excess(y, a) = Excess(D, a) + (IF a = s THEN n ELSE 0)
  BY AdjustEffect
<1>2. Live(y) = Live(D)
  BY <1>1 DEF SameButMoney, Live
<1>5. /\ DbOK(z) /\ Live(z) = Live(y)
      /\ \A a \in Live(y) : Excess(z, a) = Excess(y, a) - (IF a = s THEN n ELSE 0)
  BY <1>1, <1>2, SupplyEffect
<1>6. Capped(z)
  <2>1. D.supply \in [Live(D) -> Int] /\ y.supply = D.supply /\ z.options = D.options
    BY <1>1 DEF SameButMoney, SameButSupply, DbOK
  <2> QED
    BY <1>2, <1>5, <2>1 DEF Capped
<1>7. SameRest(D, z)
  BY <1>1 DEF SameRest, SameButMoney, SameButSupply
<1>8. ASSUME NEW a \in Live(D) PROVE Excess(z, a) = Excess(D, a)
  <2>1. Excess(D, a) \in Int
    BY ExcessType
  <2> QED
    BY <1>1, <1>2, <1>5, <2>1
<1> QED
  BY <1>2, <1>5, <1>6, <1>7, <1>8

LEMMA IssueGood ==
  ASSUME Good(db, made), asset_issue
  PROVE  Good(db', made) /\ SameRest(db, db')
<1>1. PICK s \in UIAs \cap Live(db), to \in Accounts, n \in Amounts :
        /\ db.supply[s] + n <= db.options[s].max
        /\ Operation(db.options[s].issuer,
                     LAMBDA d : Then(adjust_balance(d, to, s, n),
                                     LAMBDA x : {[x EXCEPT !.supply[s] = @ + n]}))
  BY DEF asset_issue
<1> DEFINE i == db.options[s].issuer
<1>2. PICK fee \in Fees :
        /\ FeeAllowed(db, fee)
        /\ db' \in apply(db, i, fee, CoreFee(db, fee),
                         LAMBDA d : Then(adjust_balance(d, to, s, n),
                                         LAMBDA x : {[x EXCEPT !.supply[s] = @ + n]}))
  BY <1>1 DEF Operation
<1> DEFINE D == Charged(db, fee, CoreFee(db, fee))
           X == UNION {{[y EXCEPT !.supply[s] = @ + n]} : y \in adjust_balance(D, to, s, n)}
<1>3. db' \in UNION {adjust_balance(x, i, fee.asset, -fee.amount) : x \in X}
  BY <1>2 DEF apply, Then, Charged
<1>4. DbOK(D) /\ SameButMoney(db, D) /\ Live(D) = Live(db) /\ Capped(D)
  BY <1>2, Start
<1> HIDE DEF D, X, i
<1>5. PICK x \in X : db' \in adjust_balance(x, i, fee.asset, -fee.amount)
  BY <1>3
<1>6. PICK y \in adjust_balance(D, to, s, n) : x = [y EXCEPT !.supply[s] = @ + n]
  BY DEF X
<1>7. n \in Int /\ i \in Accounts
  BY LedgerAssumption, IssuerType DEF Good, i
<1>10. D.supply[s] + n <= D.options[s].max
  BY <1>1, <1>4 DEF SameButMoney
<1>11. DOMAIN x = DbFields /\ SameButSupply(y, x) /\ x.supply = [y.supply EXCEPT ![s] = @ + n]
  <2>0. DbOK(y)
    BY <1>4, <1>7, AdjustEffect
  <2>1. DOMAIN y = DbFields
    BY <2>0 DEF DbOK
  <2> QED
    BY <1>6, <2>1 DEF DbFields, SameButSupply
<1>8. /\ DbOK(x) /\ Live(x) = Live(D) /\ Capped(x) /\ SameRest(D, x)
      /\ \A a \in Live(D) : Excess(x, a) = Excess(D, a)
  BY <1>4, <1>7, <1>10, <1>11, SupplyMoves
<1>9. Good(db', made) /\ SameButMoney(x, db')
  BY <1>2, <1>4, <1>5, <1>7, <1>8, Finish DEF D
<1> QED
  BY <1>4, <1>8, <1>9 DEF SameButMoney, SameRest

LEMMA ReserveGood ==
  ASSUME Good(db, made), asset_reserve
  PROVE  Good(db', made) /\ SameRest(db, db')
<1>1. PICK s \in Live(db), payer \in Accounts, n \in Amounts :
        Operation(payer, LAMBDA d : Then(adjust_balance(d, payer, s, -n),
                                         LAMBDA x : {[x EXCEPT !.supply[s] = @ - n]}))
  BY DEF asset_reserve
<1>2. PICK fee \in Fees :
        /\ FeeAllowed(db, fee)
        /\ db' \in apply(db, payer, fee, CoreFee(db, fee),
                         LAMBDA d : Then(adjust_balance(d, payer, s, -n),
                                         LAMBDA x : {[x EXCEPT !.supply[s] = @ - n]}))
  BY <1>1 DEF Operation
<1> DEFINE D == Charged(db, fee, CoreFee(db, fee))
           X == UNION {{[y EXCEPT !.supply[s] = @ - n]} : y \in adjust_balance(D, payer, s, -n)}
<1>3. db' \in UNION {adjust_balance(x, payer, fee.asset, -fee.amount) : x \in X}
  BY <1>2 DEF apply, Then, Charged
<1>4. DbOK(D) /\ SameButMoney(db, D) /\ Live(D) = Live(db) /\ Capped(D)
  BY <1>2, Start
<1> HIDE DEF D, X
<1>5. PICK x \in X : db' \in adjust_balance(x, payer, fee.asset, -fee.amount)
  BY <1>3
<1>6. PICK y \in adjust_balance(D, payer, s, -n) : x = [y EXCEPT !.supply[s] = @ - n]
  BY DEF X
<1>7. n \in Nat /\ -n \in Int
  BY LedgerAssumption
<1>10. y.supply[s] \in Int /\ D.supply[s] \in Int /\ s \in Live(D)
  <2>1. DbOK(y) /\ y.supply = D.supply
    BY <1>4, <1>6, <1>7, AdjustEffect DEF SameButMoney
  <2> QED
    BY <1>4, <2>1 DEF DbOK
<1>11. DOMAIN x = DbFields /\ SameButSupply(y, x) /\ x.supply = [y.supply EXCEPT ![s] = @ + (-n)]
  <2>1. y.supply[s] - n = y.supply[s] + (-n)
    BY <1>7, <1>10
  <2>0. DbOK(y)
    BY <1>4, <1>7, <1>10, AdjustEffect
  <2>2. DOMAIN y = DbFields
    BY <2>0 DEF DbOK
  <2> QED
    BY <1>6, <2>1, <2>2 DEF DbFields, SameButSupply
<1>12. s # Core => D.supply[s] + (-n) <= D.options[s].max
  <2>1. s # Core => D.supply[s] <= D.options[s].max /\ D.options[s].max \in Nat
    BY <1>4, <1>10 DEF Capped, DbOK, OptionRecords
  <2> QED
    BY <1>7, <1>10, <2>1
<1>8. /\ DbOK(x) /\ Live(x) = Live(D) /\ Capped(x) /\ SameRest(D, x)
      /\ \A a \in Live(D) : Excess(x, a) = Excess(D, a)
  <2>1. PICK k \in Int : k = -n
    BY <1>7
  <2>2. y \in adjust_balance(D, payer, s, k)
    BY <1>6, <2>1
  <2>3. s # Core => D.supply[s] + k <= D.options[s].max
    BY <1>12, <2>1
  <2>4. DOMAIN x = DbFields /\ SameButSupply(y, x) /\ x.supply = [y.supply EXCEPT ![s] = @ + k]
    BY <1>11, <2>1
  <2> QED
    BY <1>4, <1>10, <2>2, <2>3, <2>4, SupplyMoves
<1>9. Good(db', made) /\ SameButMoney(x, db')
  BY <1>2, <1>4, <1>5, <1>8, Finish DEF D
<1> QED
  BY <1>4, <1>8, <1>9 DEF SameButMoney, SameRest


(* e is d with other options, or with another permission. *)
SameButOptions(d, e) ==
  /\ e.balance = d.balance /\ e.asset_pool = d.asset_pool /\ e.core_pool = d.core_pool
  /\ e.supply = d.supply /\ e.vestings = d.vestings /\ e.permit = d.permit
  /\ e.pay_vb = d.pay_vb /\ e.pay_seconds = d.pay_seconds /\ e.paid = d.paid

SameButPermit(d, e) ==
  /\ e.balance = d.balance /\ e.asset_pool = d.asset_pool /\ e.core_pool = d.core_pool
  /\ e.supply = d.supply /\ e.vestings = d.vestings /\ e.options = d.options
  /\ e.pay_vb = d.pay_vb /\ e.pay_seconds = d.pay_seconds /\ e.paid = d.paid

LEMMA OptionEffect ==
  ASSUME NEW d, DbOK(d), NEW e, DOMAIN e = DbFields, SameButOptions(d, e),
         e.options \in [Live(d) \ {Core} -> OptionRecords]
  PROVE  /\ DbOK(e) /\ Live(e) = Live(d)
         /\ \A a \in Live(d) : Excess(e, a) = Excess(d, a)
<1>1. Live(e) = Live(d)
  BY DEF Live, SameButOptions
<1>2. DbOK(e)
  BY <1>1 DEF DbOK, SameButOptions
<1>3. ASSUME NEW a \in Live(d) PROVE Excess(e, a) = Excess(d, a)
  BY <1>1 DEF SameButOptions, Excess, Held, Owned
<1> QED
  BY <1>1, <1>2, <1>3

LEMMA PermitEffect ==
  ASSUME NEW d, DbOK(d), NEW e, DOMAIN e = DbFields, SameButPermit(d, e), e.permit \subseteq Permits
  PROVE  /\ DbOK(e) /\ Live(e) = Live(d) /\ (Capped(d) => Capped(e))
         /\ \A a \in Live(d) : Excess(e, a) = Excess(d, a)
<1>1. Live(e) = Live(d)
  BY DEF Live, SameButPermit
<1>2. DbOK(e)
  BY <1>1 DEF DbOK, SameButPermit
<1>3. ASSUME NEW a \in Live(d) PROVE Excess(e, a) = Excess(d, a)
  BY <1>1 DEF SameButPermit, Excess, Held, Owned
<1>4. Capped(d) => Capped(e)
  BY <1>1 DEF Capped, SameButPermit
<1> QED
  BY <1>1, <1>2, <1>3, <1>4

LEMMA UpdateAssetGood ==
  ASSUME Good(db, made), update_user_issued_asset
  PROVE  Good(db', made) /\ SameRest(db, db')
<1>1. PICK s \in UIAs \cap Live(db), o \in Options :
        /\ o.max >= db.supply[s]
        /\ Operation(db.options[s].issuer,
                     LAMBDA d : {[d EXCEPT !.options[s] = [o EXCEPT !.fixed = db.options[s].fixed]]})
  BY DEF update_user_issued_asset
<1> DEFINE i == db.options[s].issuer
           q == [o EXCEPT !.fixed = db.options[s].fixed]
<1>2. PICK fee \in Fees :
        /\ FeeAllowed(db, fee)
        /\ db' \in apply(db, i, fee, CoreFee(db, fee), LAMBDA d : {[d EXCEPT !.options[s] = q]})
  BY <1>1 DEF Operation
<1> DEFINE D == Charged(db, fee, CoreFee(db, fee))
           x == [D EXCEPT !.options[s] = q]
<1>3. db' \in UNION {adjust_balance(y, i, fee.asset, -fee.amount) : y \in {x}}
  BY <1>2 DEF apply, Then, Charged
<1>4. DbOK(D) /\ SameButMoney(db, D) /\ Live(D) = Live(db) /\ Capped(D)
  BY <1>2, Start
<1> HIDE DEF D
<1>5. DOMAIN D = DbFields /\ s \in Live(D) \ {Core} /\ D.options \in [Live(D) \ {Core} -> OptionRecords]
  BY <1>4 DEF DbOK, UIAs
<1>6. x = [D EXCEPT !.options = [D.options EXCEPT ![s] = q]]
  BY <1>5
<1> HIDE DEF x
<1>7. db' \in adjust_balance(x, i, fee.asset, -fee.amount)
  BY <1>3
<1>8. DOMAIN x = DbFields /\ SameButOptions(D, x) /\ x.options = [D.options EXCEPT ![s] = q]
  BY <1>5, <1>6 DEF DbFields, SameButOptions
<1>9. o \in OptionRecords /\ i \in Accounts /\ db.options[s].fixed \in BOOLEAN
  <2>1. db.options[s] \in OptionRecords
    BY DEF Good, DbOK, UIAs
  <2> QED
    BY <2>1, LedgerAssumption DEF OptionRecords
<1>10. q \in OptionRecords /\ q.max = o.max
  BY <1>5, <1>9 DEF OptionRecords
<1> HIDE DEF q, i
<1>11. x.options \in [Live(D) \ {Core} -> OptionRecords]
  BY <1>5, <1>8, <1>10
<1>12. /\ DbOK(x) /\ Live(x) = Live(D)
       /\ \A a \in Live(D) : Excess(x, a) = Excess(D, a)
  BY <1>4, <1>8, <1>11, OptionEffect
<1>13. Capped(x)
  <2>1. D.supply = db.supply /\ x.supply = D.supply
    BY <1>4, <1>8 DEF SameButMoney, SameButOptions
  <2>2. D.supply[s] \in Int /\ o.max \in Nat
    BY <1>4, <1>5, <1>9 DEF DbOK, OptionRecords
  <2>3. D.supply[s] <= o.max
    BY <1>1, <2>1, <2>2
  <2> QED
    BY <1>4, <1>5, <1>8, <1>10, <1>12, <2>1, <2>3 DEF Capped
<1>14. Good(db', made) /\ SameButMoney(x, db')
  BY <1>2, <1>4, <1>7, <1>9, <1>12, <1>13, Finish DEF D
<1> QED
  BY <1>4, <1>8, <1>14 DEF SameButMoney, SameButOptions, SameRest

(* A new asset with half core in its pool. *)
LEMMA NewAssetEffect ==
  ASSUME NEW d, DbOK(d), Capped(d), NEW s \in Assets \ Live(d), NEW half \in Int, NEW o \in OptionRecords,
         NEW e, DOMAIN e = DbFields, e.balance = d.balance, e.vestings = d.vestings, e.permit = d.permit,
         e.pay_vb = d.pay_vb, e.pay_seconds = d.pay_seconds, e.paid = d.paid,
         e.supply = Grow(d.supply, s, 0), e.asset_pool = Grow(d.asset_pool, s, 0),
         e.core_pool = Grow(d.core_pool, s, half), e.options = Grow(d.options, s, o)
  PROVE  /\ DbOK(e) /\ Live(e) = Live(d) \cup {s} /\ Capped(e)
         /\ \A a \in Live(d) : Excess(e, a) = Excess(d, a) + (IF a = Core THEN half ELSE 0)
         /\ Excess(e, s) = 0
<1> DEFINE L == Live(d)
           M == L \cup {s}
<1>1. /\ d.supply \in [L -> Int] /\ d.asset_pool \in [L -> Int] /\ d.core_pool \in [L -> Int]
      /\ d.options \in [L \ {Core} -> OptionRecords] /\ Core \in L /\ IsFiniteSet(L) /\ L \subseteq Assets
  BY DEF DbOK
<1> HIDE DEF L
<1>2. /\ e.supply \in [M -> Int] /\ e.asset_pool \in [M -> Int] /\ e.core_pool \in [M -> Int]
      /\ e.options \in [M \ {Core} -> OptionRecords]
      /\ \A a \in L : /\ e.supply[a] = d.supply[a] /\ e.asset_pool[a] = d.asset_pool[a]
                      /\ e.core_pool[a] = d.core_pool[a]
                      /\ a # Core => e.options[a] = d.options[a]
      /\ e.supply[s] = 0 /\ e.asset_pool[s] = 0 /\ e.core_pool[s] = half /\ e.options[s] = o
  <2>1. s \notin L /\ s # Core
    BY <1>1 DEF L
  <2> QED
    BY <1>1, <2>1 DEF Grow
<1>3. Live(e) = M
  BY <1>2 DEF Live
<1>4. IsFiniteSet(M)
  BY <1>1, FS_AddElement
<1>5. DbOK(e)
  <2>1. \A x \in Accounts, a \in Assets \ M : d.balance[x][a] = 0
    BY DEF DbOK, L
  <2>2. \A i \in DOMAIN d.vestings : d.vestings[i].asset \in M
    BY DEF DbOK, L
  <2>3. Core \in M /\ M \subseteq Assets
    BY <1>1
  <2> HIDE DEF M
  <2> QED
    BY <1>2, <1>3, <1>4, <2>1, <2>2, <2>3 DEF DbOK
<1>6. Capped(e)
  <2>1. e.supply[s] <= e.options[s].max
    BY <1>2 DEF OptionRecords
  <2>2. \A a \in L \ {Core} : e.supply[a] <= e.options[a].max
    BY <1>2 DEF Capped, L
  <2> QED
    BY <1>3, <2>1, <2>2 DEF Capped
<1>7. SumFunctionOnSet(e.core_pool, M) = SumFunctionOnSet(d.core_pool, L) + half
  <2> DEFINE f == e.core_pool
             g == d.core_pool
  <2>1. IntValued(f, L) /\ f[s] = half /\ IntValued(g, L) /\ (\A a \in L : f[a] = g[a])
    BY <1>1, <1>2 DEF IntValued
  <2>4. s \notin L
    BY DEF L
  <2> HIDE DEF f, g
  <2>2. SumFunctionOnSet(f, L \cup {s}) = f[s] + SumFunctionOnSet(f, L)
    BY <1>1, <2>1, <2>4, SumAdd
  <2>3. SumFunctionOnSet(f, L) = SumFunctionOnSet(g, L) /\ SumFunctionOnSet(g, L) \in Int
    BY <1>1, <2>1, SumSame, SumType
  <2> QED
    BY <2>1, <2>2, <2>3 DEF f, g
<1>8. \A a \in M : Owned(e, a) = Owned(d, a)
  BY DEF Owned
<1>9. ASSUME NEW a \in L
      PROVE  Excess(e, a) = Excess(d, a) + (IF a = Core THEN half ELSE 0)
  <2>1. /\ d.asset_pool[a] \in Int /\ d.supply[a] \in Int /\ d.paid \in Int
        /\ Owned(d, a) \in Int /\ Vested(d.vestings, a) \in Int
        /\ SumFunctionOnSet(d.core_pool, L) \in Int
    BY HeldParts DEF L
  <2>2. /\ Held(d, a) = Owned(d, a) + d.asset_pool[a] + Vested(d.vestings, a)
                        + (IF a = Core THEN SumFunctionOnSet(d.core_pool, L) ELSE 0)
        /\ Held(e, a) = Owned(d, a) + d.asset_pool[a] + Vested(d.vestings, a)
                        + (IF a = Core THEN SumFunctionOnSet(e.core_pool, M) ELSE 0)
    BY <1>2, <1>3, <1>8 DEF Held, L
  <2>3. Held(e, a) = Held(d, a) + (IF a = Core THEN half ELSE 0) /\ Held(d, a) \in Int
    BY <1>7, <2>1, <2>2
  <2>4. e.supply[a] = d.supply[a]
    BY <1>2
  <2> QED
    BY <2>1, <2>3, <2>4 DEF Excess
<1>10. Excess(e, s) = 0
  <2>1. Owned(d, s) = 0
    <3> DEFINE f == [x \in Accounts |-> d.balance[x][s]]
    <3>1. \A x \in Accounts : f[x] = 0
      BY DEF DbOK
    <3>2. IsFiniteSet(Accounts)
      BY LedgerAssumption
    <3> HIDE DEF f
    <3>3. SumFunctionOnSet(f, Accounts) = 0
      BY <3>1, <3>2, SumZero
    <3> QED
      BY <3>3 DEF Owned, f
  <2>2. Vested(d.vestings, s) = 0
    <3> DEFINE vs == d.vestings
               f == [i \in DOMAIN vs |-> IF vs[i].asset = s THEN vs[i].balance ELSE 0]
    <3>1. \A i \in DOMAIN vs : f[i] = 0
      BY DEF DbOK
    <3>2. IsFiniteSet(DOMAIN vs)
      <4>1. vs \in Seq(VestingRecords)
        BY DEF DbOK
      <4> HIDE DEF vs
      <4> QED
        BY <4>1, FS_Interval
    <3> HIDE DEF f, vs
    <3>3. SumFunctionOnSet(f, DOMAIN vs) = 0
      BY <3>1, <3>2, SumZero
    <3> QED
      BY <3>3 DEF Vested, f, vs
  <2>3. s # Core
    BY <1>1 DEF L
  <2>4. Held(e, s) = 0
    BY <1>2, <1>8, <2>1, <2>2, <2>3 DEF Held
  <2> QED
    BY <1>2, <2>3, <2>4 DEF Excess
<1> QED
  BY <1>3, <1>5, <1>6, <1>9, <1>10 DEF L

LEMMA CreateAssetGood ==
  ASSUME Good(db, made), made \in Nat, asset_create
  PROVE  Good(db', made') /\ made' \in Nat /\ SameRest(db, db')
<1> DEFINE Half(fee) == CoreFee(db, fee) - CoreFee(db, fee) \div 2
           New(d, s, fee, o) == [d EXCEPT !.supply = Grow(@, s, 0), !.asset_pool = Grow(@, s, 0),
                                          !.core_pool = Grow(@, s, Half(fee)), !.options = Grow(@, s, o)]
<1>1. PICK s \in UIAs \ Live(db), fee \in CreationFees, o \in Options :
        /\ FeeAllowed(db, fee)
        /\ db' \in apply(db, o.issuer, fee, Half(fee), LAMBDA d : {New(d, s, fee, o)})
        /\ made' = made + (IF fee.asset = Core THEN fee.amount % 2 ELSE Half(fee))
  BY DEF asset_create
<1> DEFINE n == Half(fee)
<1>2. fee \in [asset : Assets, amount : Nat] /\ o \in OptionRecords /\ o.issuer \in Accounts
  BY LedgerAssumption DEF OptionRecords
<1>6. DbOK(db) /\ Core \in Live(db)
  BY DEF Good, DbOK
<1>3. n \in Nat /\ fee.asset \in Live(db) /\ (fee.asset = Core => 2 * n = fee.amount + (fee.amount % 2))
  <2>1. fee.asset \in Live(db)
    BY <1>1 DEF FeeAllowed
  <2>2. CoreFee(db, fee) \in Nat
    BY <1>2, <1>6, <2>1, CoreFeeType
  <2>6. \A m \in Nat : m = 2 * (m \div 2) + (m % 2) /\ m \div 2 \in Nat /\ m % 2 \in 0 .. 1
    OBVIOUS
  <2>3. \A m \in Nat : m - (m \div 2) \in Nat /\ 2 * (m - (m \div 2)) = m + (m % 2)
    BY <2>6
  <2>4. fee.asset = Core => CoreFee(db, fee) = fee.amount
    BY DEF CoreFee
  <2>5. n \in Nat /\ 2 * n = CoreFee(db, fee) + (CoreFee(db, fee) % 2)
    BY <2>2, <2>3
  <2> QED
    BY <2>1, <2>4, <2>5
<1> DEFINE D == Charged(db, fee, n)
           x == New(D, s, fee, o)
<1>4. db' \in UNION {adjust_balance(y, o.issuer, fee.asset, -fee.amount) : y \in {x}}
  BY <1>1 DEF apply, Then, Charged
<1>18. n = Half(fee)
  OBVIOUS
<1> HIDE DEF Half, n
<1>7. /\ DbOK(D) /\ SameButMoney(db, D)
      /\ \A a \in Live(db) : Excess(D, a) =
           Excess(db, a) + (IF a # fee.asset THEN 0 ELSE IF a = Core THEN n ELSE fee.amount)
  BY <1>2, <1>3, <1>6, FeeEffect
<1> HIDE DEF D
<1>8. Live(D) = Live(db) /\ Capped(D) /\ DOMAIN D = DbFields
  BY <1>7 DEF SameButMoney, Live, Capped, Good, DbOK
<1>9. /\ DOMAIN x = DbFields /\ x.balance = D.balance /\ x.vestings = D.vestings /\ x.permit = D.permit
      /\ x.pay_vb = D.pay_vb /\ x.pay_seconds = D.pay_seconds /\ x.paid = D.paid
      /\ x.supply = Grow(D.supply, s, 0) /\ x.asset_pool = Grow(D.asset_pool, s, 0)
      /\ x.core_pool = Grow(D.core_pool, s, n) /\ x.options = Grow(D.options, s, o)
  BY <1>8, <1>18 DEF DbFields
<1> HIDE DEF x, New
<1>10. db' \in adjust_balance(x, o.issuer, fee.asset, -fee.amount)
  BY <1>4
<1>11. s \in Assets \ Live(D)
  BY <1>8 DEF UIAs
<1>12. /\ DbOK(x) /\ Live(x) = Live(D) \cup {s} /\ Capped(x)
       /\ \A a \in Live(D) : Excess(x, a) = Excess(D, a) + (IF a = Core THEN n ELSE 0)
       /\ Excess(x, s) = 0
  BY <1>2, <1>3, <1>7, <1>8, <1>9, <1>11, NewAssetEffect
<1>13. fee.asset \in Live(x) /\ -fee.amount \in Int
  BY <1>2, <1>3, <1>8, <1>12
<1>14. /\ DbOK(db') /\ SameButMoney(x, db')
       /\ \A a \in Live(x) : Excess(db', a) = Excess(x, a) + (IF a = fee.asset THEN -fee.amount ELSE 0)
  BY <1>2, <1>10, <1>12, <1>13, AdjustEffect
<1>15. Live(db') = Live(x) /\ Capped(db')
  BY <1>12, <1>14 DEF SameButMoney, Live, Capped
<1>17. made' = made + (IF fee.asset = Core THEN fee.amount % 2 ELSE n) /\ made' \in Nat
  <2>1. fee.amount % 2 \in Nat
    BY <1>2
  <2>2. made' = made + (IF fee.asset = Core THEN fee.amount % 2 ELSE n)
    BY <1>1, <1>18, Zenon
  <2> QED
    BY <1>3, <2>1, <2>2
<1>16. ASSUME NEW a \in Live(x) PROVE Excess(db', a) = IF a = Core THEN made' ELSE 0
  <2>0. s # Core /\ s # fee.asset /\ fee.amount \in Nat /\ fee.amount % 2 \in Nat
    BY <1>2, <1>3, <1>6, <1>8, <1>11
  <2>1. CASE a = s
    BY <1>12, <1>14, <2>0, <2>1
  <2>2. CASE a \in Live(D)
    <3>1. Excess(db, a) = IF a = Core THEN made ELSE 0
      BY <1>8, <2>2 DEF Good, Explained
    <3>2. Excess(D, a) = Excess(db, a) + (IF a # fee.asset THEN 0 ELSE IF a = Core THEN n ELSE fee.amount)
      BY <1>7, <1>8, <2>2
    <3>3. Excess(x, a) = Excess(D, a) + (IF a = Core THEN n ELSE 0)
      BY <1>12, <2>2
    <3>4. Excess(db', a) = Excess(x, a) + (IF a = fee.asset THEN -fee.amount ELSE 0)
      BY <1>14
    <3>5. CASE a # Core
      BY <1>3, <2>0, <3>1, <3>2, <3>3, <3>4, <3>5
    <3>6. CASE a = Core /\ fee.asset = Core
      BY <1>3, <1>17, <2>0, <3>1, <3>2, <3>3, <3>4, <3>6
    <3>7. CASE a = Core /\ fee.asset # Core
      BY <1>3, <1>17, <2>0, <3>1, <3>2, <3>3, <3>4, <3>7
    <3> QED
      BY <3>5, <3>6, <3>7
  <2> QED
    BY <1>12, <2>1, <2>2
<1> QED
  BY <1>7, <1>9, <1>14, <1>15, <1>16, <1>17 DEF Good, Explained, SameRest, SameButMoney

(* An operation that sets the permission, and moves n of core from one     *)
(* account to the other. *)
LEMMA PermitSet ==
  ASSUME Good(db, made), NEW fee \in Fees, FeeAllowed(db, fee), NEW payer \in Accounts, NEW P \in SUBSET Permits,
         NEW x, DOMAIN x = DbFields, SameButPermit(Charged(db, fee, CoreFee(db, fee)), x), x.permit = P
  PROVE  /\ DbOK(x) /\ Live(x) = Live(db) /\ Capped(x) /\ x.permit = P /\ x.vestings = db.vestings
         /\ \A a \in Live(db) : Excess(x, a) = Excess(Charged(db, fee, CoreFee(db, fee)), a)
<1> DEFINE D == Charged(db, fee, CoreFee(db, fee))
<1>1. DbOK(D) /\ SameButMoney(db, D) /\ Live(D) = Live(db) /\ Capped(D)
  BY Start
<1>4. SameButPermit(D, x)
  OBVIOUS
<1> HIDE DEF D
<1>5. /\ DbOK(x) /\ Live(x) = Live(D) /\ Capped(x)
      /\ \A a \in Live(D) : Excess(x, a) = Excess(D, a)
  BY <1>1, <1>4, PermitEffect
<1>6. x.vestings = db.vestings
  BY <1>1, <1>4 DEF SameButMoney, SameButPermit
<1> QED
  BY <1>1, <1>4, <1>5, <1>6 DEF D

LEMMA PermitGood ==
  ASSUME Good(db, made), NEW fee \in Fees, FeeAllowed(db, fee), NEW payer \in Accounts, NEW P \in SUBSET Permits,
         db' \in adjust_balance([Charged(db, fee, CoreFee(db, fee)) EXCEPT !.permit = P], payer,
                                fee.asset, -fee.amount)
  PROVE  Good(db', made) /\ db'.permit = P /\ db'.vestings = db.vestings
<1> DEFINE x == [Charged(db, fee, CoreFee(db, fee)) EXCEPT !.permit = P]
<1>1. db' \in adjust_balance(x, payer, fee.asset, -fee.amount)
  OBVIOUS
<1>2. DOMAIN x = DbFields /\ SameButPermit(Charged(db, fee, CoreFee(db, fee)), x) /\ x.permit = P
  <2>1. DOMAIN Charged(db, fee, CoreFee(db, fee)) = DbFields
    BY Start DEF DbOK
  <2> QED
    BY <2>1 DEF SameButPermit, DbFields
<1> HIDE DEF x
<1>3. /\ DbOK(x) /\ Live(x) = Live(db) /\ Capped(x) /\ x.permit = P /\ x.vestings = db.vestings
      /\ \A a \in Live(db) : Excess(x, a) = Excess(Charged(db, fee, CoreFee(db, fee)), a)
  BY <1>2, PermitSet
<1>4. Good(db', made) /\ SameButMoney(x, db')
  BY <1>1, <1>3, Finish
<1> QED
  BY <1>3, <1>4 DEF SameButMoney

LEMMA PermitCreateGood ==
  ASSUME Good(db, made), now \in Nat, withdraw_permission_create
  PROVE  /\ Good(db', made) /\ db'.vestings = db.vestings
         /\ UNCHANGED <<now, area, withdrawn>>
         /\ \E start \in Int, limit \in Nat \ {0} :
              /\ taken' = Unused(start)
              /\ \A p \in db'.permit : p.start = start /\ p.limit = limit /\ p.claimed \in Nat
<1> DEFINE P(start, limit) == [limit |-> limit, start |-> start, expiration |-> start + Periods * Period, claimed |-> 0]
<1>1. PICK start \in (now + 1) .. MaxTime, limit \in Limits :
        /\ Operation(Grantor, LAMBDA d : {[d EXCEPT !.permit = {P(start, limit)}]})
        /\ taken' = Unused(start)
        /\ UNCHANGED <<now, area, withdrawn>>
  BY DEF withdraw_permission_create
<1>2. PICK fee \in Fees :
        /\ FeeAllowed(db, fee)
        /\ db' \in apply(db, Grantor, fee, CoreFee(db, fee), LAMBDA d : {[d EXCEPT !.permit = {P(start, limit)}]})
  BY <1>1 DEF Operation
<1> DEFINE x == [Charged(db, fee, CoreFee(db, fee)) EXCEPT !.permit = {P(start, limit)}]
<1>3. db' \in UNION {adjust_balance(y, Grantor, fee.asset, -fee.amount) : y \in {x}}
  BY <1>2 DEF apply, Then, Charged
<1>4. db' \in adjust_balance(x, Grantor, fee.asset, -fee.amount)
  <2> HIDE DEF x
  <2> QED
    BY <1>3
<1>5. Grantor \in Accounts /\ Periods \in Nat /\ Period \in Nat /\ MaxTime \in Nat /\ limit \in Nat \ {0}
  BY LedgerAssumption
<1>6. start \in Int /\ Periods * Period \in Int
  BY <1>5
<1>7. {P(start, limit)} \in SUBSET Permits
  BY <1>5, <1>6 DEF Permits
<1>8. P(start, limit).start = start /\ P(start, limit).limit = limit /\ P(start, limit).claimed \in Nat
  OBVIOUS
<1> HIDE DEF P
<1>9. Good(db', made) /\ db'.permit = {P(start, limit)} /\ db'.vestings = db.vestings
  BY <1>2, <1>4, <1>5, <1>7, PermitGood
<1> QED
  BY <1>1, <1>5, <1>6, <1>8, <1>9

LEMMA PermitUpdateGood ==
  ASSUME Good(db, made), now \in Nat, withdraw_permission_update
  PROVE  /\ Good(db', made) /\ db'.vestings = db.vestings
         /\ UNCHANGED <<now, area, withdrawn>>
         /\ \E start \in Int, limit \in Nat \ {0} :
              /\ taken' = Unused(start)
              /\ \A p \in db'.permit : p.start = start /\ p.limit = limit /\ p.claimed \in Nat
<1> DEFINE P(q, start, limit) ==
             [q EXCEPT !.limit = limit, !.start = start, !.expiration = start + Periods * Period]
<1>1. PICK q \in db.permit, start \in now .. MaxTime, limit \in Limits :
        /\ Operation(Grantor, LAMBDA d : {[d EXCEPT !.permit = {P(q, start, limit)}]})
        /\ taken' = Unused(start)
        /\ UNCHANGED <<now, area, withdrawn>>
  BY DEF withdraw_permission_update
<1>2. PICK fee \in Fees :
        /\ FeeAllowed(db, fee)
        /\ db' \in apply(db, Grantor, fee, CoreFee(db, fee), LAMBDA d : {[d EXCEPT !.permit = {P(q, start, limit)}]})
  BY <1>1 DEF Operation
<1> DEFINE x == [Charged(db, fee, CoreFee(db, fee)) EXCEPT !.permit = {P(q, start, limit)}]
<1>3. db' \in UNION {adjust_balance(y, Grantor, fee.asset, -fee.amount) : y \in {x}}
  BY <1>2 DEF apply, Then, Charged
<1>4. db' \in adjust_balance(x, Grantor, fee.asset, -fee.amount)
  <2> HIDE DEF x
  <2> QED
    BY <1>3
<1>5. Grantor \in Accounts /\ Periods \in Nat /\ Period \in Nat /\ MaxTime \in Nat /\ limit \in Nat \ {0}
  BY LedgerAssumption
<1>6. start \in Int /\ Periods * Period \in Int
  BY <1>5
<1>10. q \in Permits
  BY DEF Good, DbOK
<1>7. {P(q, start, limit)} \in SUBSET Permits
  <2> DEFINE e == start + Periods * Period
  <2>1. e \in Int
    BY <1>6
  <2> HIDE DEF e
  <2>2. [q EXCEPT !.limit = limit, !.start = start, !.expiration = e] \in Permits
    BY <1>5, <1>6, <1>10, <2>1 DEF Permits
  <2> QED
    BY <2>2 DEF e
<1>8. /\ P(q, start, limit).start = start /\ P(q, start, limit).limit = limit
      /\ P(q, start, limit).claimed \in Nat
  BY <1>10 DEF Permits
<1> HIDE DEF P
<1>9. Good(db', made) /\ db'.permit = {P(q, start, limit)} /\ db'.vestings = db.vestings
  BY <1>2, <1>4, <1>5, <1>7, PermitGood
<1> QED
  BY <1>1, <1>5, <1>6, <1>8, <1>9

LEMMA PermitDeleteGood ==
  ASSUME Good(db, made), withdraw_permission_delete
  PROVE  /\ Good(db', made) /\ db'.vestings = db.vestings /\ db'.permit = {}
         /\ UNCHANGED <<now, area, withdrawn>>
<1>1. PICK fee \in Fees :
        /\ FeeAllowed(db, fee)
        /\ db' \in apply(db, Grantor, fee, CoreFee(db, fee), LAMBDA d : {[d EXCEPT !.permit = {}]})
  BY DEF Operation, withdraw_permission_delete
<1> DEFINE x == [Charged(db, fee, CoreFee(db, fee)) EXCEPT !.permit = {}]
<1>3. db' \in UNION {adjust_balance(y, Grantor, fee.asset, -fee.amount) : y \in {x}}
  BY <1>1 DEF apply, Then, Charged
<1>4. db' \in adjust_balance(x, Grantor, fee.asset, -fee.amount)
  <2> HIDE DEF x
  <2> QED
    BY <1>3
<1>5. Grantor \in Accounts /\ {} \in SUBSET Permits
  BY LedgerAssumption
<1>9. Good(db', made) /\ db'.permit = {} /\ db'.vestings = db.vestings
  BY <1>1, <1>4, <1>5, PermitGood
<1> QED
  BY <1>9 DEF withdraw_permission_delete

LEMMA PermitClaimGood ==
  ASSUME Good(db, made), now \in Nat, withdraw_permission_claim
  PROVE  /\ Good(db', made) /\ db'.vestings = db.vestings
         /\ UNCHANGED <<now, area, withdrawn>>
         /\ \E p \in db.permit, n \in Nat \ {0} :
              LET k == (now - taken.first) \div Period
              IN  /\ n <= available_this_period(p, now)
                  /\ db'.permit = {Claimed(p, now, n)}
                  /\ taken' = [taken EXCEPT !.window = k, !.sum = IF k = taken.window THEN @ + n ELSE n]
<1> DEFINE k == (now - taken.first) \div Period
<1>1. PICK p \in db.permit, n \in Amounts :
        /\ n <= available_this_period(p, now)
        /\ Operation(Grantee, LAMBDA d : Move([d EXCEPT !.permit = {Claimed(p, now, n)}],
                                             Grantor, Grantee, Core, n))
        /\ taken' = [taken EXCEPT !.window = k, !.sum = IF k = taken.window THEN @ + n ELSE n]
        /\ UNCHANGED <<now, area, withdrawn>>
  BY DEF withdraw_permission_claim
<1> HIDE DEF k
<1> DEFINE P == {Claimed(p, now, n)}
<1>2. PICK fee \in Fees :
        /\ FeeAllowed(db, fee)
        /\ db' \in apply(db, Grantee, fee, CoreFee(db, fee),
                         LAMBDA d : Move([d EXCEPT !.permit = P], Grantor, Grantee, Core, n))
  BY <1>1 DEF Operation
<1> DEFINE D == Charged(db, fee, CoreFee(db, fee))
           x == [D EXCEPT !.permit = P]
<1>3. db' \in UNION {adjust_balance(y, Grantee, fee.asset, -fee.amount) : y \in Move(x, Grantor, Grantee, Core, n)}
  BY <1>2 DEF apply, Then, Charged
<1>4. n \in Nat \ {0} /\ Grantor \in Accounts /\ Grantee \in Accounts /\ Period \in Nat \ {0}
  BY LedgerAssumption
<1>5. P \in SUBSET Permits
  <2>1. p \in Permits
    BY DEF Good, DbOK
  <2>2. Quotient(now - p.start, Period) \in Int
    BY <1>4, <2>1 DEF Quotient, Permits
  <2> DEFINE j == Quotient(now - p.start, Period)
  <2> HIDE DEF j
  <2>3. j * Period \in Int
    BY <1>4, <2>2 DEF j
  <2>4. Claimed(p, now, n) = [p EXCEPT !.start = @ + j * Period, !.claimed = IF j = 0 THEN @ + n ELSE n]
    BY DEF Claimed, j
  <2> DEFINE m == j * Period
  <2> HIDE DEF m
  <2>5. [p EXCEPT !.start = @ + m, !.claimed = IF j = 0 THEN @ + n ELSE n] \in Permits
    <3>1. m \in Int
      BY <2>3 DEF m
    <3> DEFINE c == IF j = 0 THEN p.claimed + n ELSE n
    <3>2. c \in Nat /\ p.start + m \in Int
      BY <1>4, <2>1, <3>1 DEF Permits
    <3> HIDE DEF c
    <3>3. [p EXCEPT !.start = @ + m, !.claimed = c] \in Permits
      BY <2>1, <3>2 DEF Permits
    <3> QED
      BY <3>3 DEF c
  <2> QED
    BY <2>4, <2>5 DEF m
<1>6. DOMAIN x = DbFields /\ SameButPermit(D, x) /\ x.permit = P
  <2>1. DOMAIN D = DbFields
    BY <1>2, Start DEF DbOK
  <2> HIDE DEF D
  <2> QED
    BY <2>1 DEF SameButPermit, DbFields
<1> HIDE DEF P, x
<1>7. /\ DbOK(x) /\ Live(x) = Live(db) /\ Capped(x) /\ x.permit = P /\ x.vestings = db.vestings
      /\ \A a \in Live(db) : Excess(x, a) = Excess(D, a)
  BY <1>2, <1>4, <1>5, <1>6, PermitSet
<1> HIDE DEF D
<1>8. PICK y \in Move(x, Grantor, Grantee, Core, n) : db' \in adjust_balance(y, Grantee, fee.asset, -fee.amount)
  BY <1>3
<1>9. Core \in Live(x)
  BY <1>7 DEF DbOK
<1>10. DbOK(y) /\ SameButMoney(x, y) /\ \A a \in Live(x) : Excess(y, a) = Excess(x, a)
  BY <1>4, <1>7, <1>9, MoveEffect
<1>11. Live(y) = Live(db) /\ Capped(y)
  BY <1>7, <1>10 DEF SameButMoney, Live, Capped
<1>12. Good(db', made) /\ SameButMoney(y, db')
  BY <1>2, <1>4, <1>7, <1>8, <1>10, <1>11, Finish DEF D
<1>13. db'.vestings = db.vestings /\ db'.permit = P
  BY <1>7, <1>10, <1>12 DEF SameButMoney
<1> QED
  BY <1>1, <1>4, <1>12, <1>13 DEF P, k


-----------------------------------------------------------------------------
(* Vesting balances.                                                       *)

LEMMA AtLeastOneType ==
  ASSUME NEW n \in Nat
  PROVE  AtLeastOne(n) \in Nat \ {0}
<1>1. \E x \in {n, 1} : \A y \in {n, 1} : x >= y
  OBVIOUS
<1>2. AtLeastOne(n) \in {n, 1} /\ \A y \in {n, 1} : AtLeastOne(n) >= y
  BY <1>1 DEF AtLeastOne, Max
<1> QED
  BY <1>2

LEMMA SmallerOf ==
  ASSUME NEW a \in Int, NEW b \in Int
  PROVE  Min({a, b}) \in {a, b} /\ Min({a, b}) <= a /\ Min({a, b}) <= b
<1>1. \E x \in {a, b} : \A y \in {a, b} : x <= y
  OBVIOUS
<1>2. Min({a, b}) \in {a, b} /\ \A y \in {a, b} : Min({a, b}) <= y
  BY <1>1 DEF Min
<1> QED
  BY <1>2

LEMMA LargerOf ==
  ASSUME NEW a \in Int, NEW b \in Int
  PROVE  Max({a, b}) = IF a >= b THEN a ELSE b
<1>1. \E x \in {a, b} : \A y \in {a, b} : x >= y
  OBVIOUS
<1>2. Max({a, b}) \in {a, b} /\ \A y \in {a, b} : Max({a, b}) >= y
  BY <1>1 DEF Max
<1> QED
  BY <1>2

(* What is known of a vesting balance at time t, of which w was withdrawn  *)
(* and that held ar coin seconds.  Of coin days: the seconds earned, those *)
(* it would earn up to t and those spent by withdrawals were all held, and *)
(* no more are earned than vest the balance.  Of a linear policy: what was *)
(* withdrawn is the share of the time that had passed. *)
CoinDaysOK(v, ar, w, t) ==
  /\ v.earned <= v.balance * AtLeastOne(v.seconds)
  /\ v.earned + v.balance * (t - v.updated) + w * AtLeastOne(v.seconds) <= ar
  /\ w > 0 => t > v.start

LinearOK(v, w, t) ==
  /\ v.begin = v.balance + w
  /\ w > 0 => /\ t > v.start /\ t - v.start >= v.cliff
              /\ t - v.start >= v.seconds \/ w * v.seconds <= v.begin * (t - v.start)

VestOK(v, ar, w, t) ==
  /\ ar \in Nat /\ w \in Nat /\ v.updated <= t
  /\ v.kind = "cdd" => CoinDaysOK(v, ar, w, t)
  /\ v.kind = "linear" => LinearOK(v, w, t)

(* What can be withdrawn of coin days is at most what was held long enough. *)
LEMMA CoinDaysAllowed ==
  ASSUME NEW v \in VestingRecords, NEW ar \in Nat, NEW w \in Nat, NEW t \in Nat, v.updated <= t,
         CoinDaysOK(v, ar, w, t)
  PROVE  LET c == compute_coin_seconds_earned(v, t)
             S == AtLeastOne(v.seconds)
         IN  /\ c \in Nat /\ S \in Nat \ {0} /\ c <= v.balance * S /\ c + w * S <= ar
             /\ c \div S \in 0 .. v.balance /\ (c \div S) * S <= c
<1> DEFINE c == compute_coin_seconds_earned(v, t)
           S == AtLeastOne(v.seconds)
           A == v.earned + v.balance * (t - v.updated)
           B == v.balance * S
<1>1. v.earned \in Nat /\ v.balance \in Nat /\ v.updated \in Nat /\ v.seconds \in Nat
  BY DEF VestingRecords
<1>2. S \in Nat \ {0}
  BY <1>1, AtLeastOneType
<1>7. c = Min({A, B})
  BY DEF compute_coin_seconds_earned
<1>8. v.earned <= B /\ A + w * S <= ar
  BY DEF CoinDaysOK
<1> HIDE DEF S, c
<1>3. v.balance * (t - v.updated) \in Nat
  BY <1>1
<1>4. A \in Nat
  BY <1>1, <1>3
<1>5. B \in Nat
  BY <1>1, <1>2
<1> HIDE DEF A, B
<1>6. c \in Nat /\ c <= A /\ c <= B
  <2>1. A \in Int /\ B \in Int
    BY <1>4, <1>5
  <2>2. Min({A, B}) \in {A, B} /\ Min({A, B}) <= A /\ Min({A, B}) <= B
    BY <2>1, SmallerOf
  <2> QED
    BY <1>4, <1>5, <1>7, <2>2
<1>9. w * S \in Nat
  BY <1>2
<1>10. c + w * S <= ar
  BY <1>4, <1>6, <1>8, <1>9
<1>11. c \div S \in Nat /\ (c \div S) * S <= c
  BY <1>2, <1>6
<1>12. c \div S <= v.balance
  <2>1. SUFFICES ASSUME c \div S > v.balance PROVE FALSE
    BY <1>1, <1>11
  <2>2. (c \div S) * S >= (v.balance + 1) * S
    BY <1>1, <1>2, <1>11, <2>1
  <2>3. (v.balance + 1) * S = B + S
    BY <1>1, <1>2 DEF B
  <2> QED
    BY <1>2, <1>5, <1>6, <1>11, <2>2, <2>3
<1> QED
  BY <1>1, <1>2, <1>6, <1>10, <1>11, <1>12 DEF c, S, B

LEMMA LinearAllowed ==
  ASSUME NEW v \in VestingRecords, NEW w \in Nat, NEW t \in Nat, v.kind = "linear",
         LinearOK(v, w, t)
  PROVE  /\ get_allowed_withdraw(v, t) \in 0 .. v.balance
         /\ \A n \in Nat \ {0} : n <= get_allowed_withdraw(v, t) =>
              /\ t > v.start /\ t - v.start >= v.cliff
              /\ t - v.start >= v.seconds \/ (w + n) * v.seconds <= v.begin * (t - v.start)
<1> DEFINE e == t - v.start
           vested == IF e < v.seconds THEN (v.begin * e) \div v.seconds ELSE v.begin
<1>1. v.start \in Nat /\ v.balance \in Nat /\ v.begin \in Nat /\ v.seconds \in Nat /\ v.cliff \in Nat
  BY DEF VestingRecords
<1>2. v.begin = v.balance + w
  BY DEF LinearOK
<1>3. get_allowed_withdraw(v, t) =
        IF e > 0 /\ e >= v.cliff THEN vested - (v.begin - v.balance) ELSE 0
  BY DEF get_allowed_withdraw
<1>4. CASE ~(e > 0 /\ e >= v.cliff)
  BY <1>1, <1>3, <1>4
<1>5. CASE e > 0 /\ e >= v.cliff /\ e >= v.seconds
  <2>1. vested = v.begin
    BY <1>1, <1>5
  <2> HIDE DEF vested
  <2>2. get_allowed_withdraw(v, t) = v.balance
    BY <1>1, <1>2, <1>3, <1>5, <2>1
  <2> QED
    BY <1>1, <1>5, <2>2
<1>6. CASE e > 0 /\ e >= v.cliff /\ e < v.seconds
  <2> DEFINE p == v.begin * e
             q == p \div v.seconds
  <2>1. vested = q
    BY <1>6
  <2>2. v.seconds \in Nat \ {0} /\ e \in Nat
    BY <1>1, <1>6
  <2>3. p \in Nat
    BY <1>1, <2>2
  <2>4. w = 0 \/ w * v.seconds <= p
    BY <1>1, <1>6, <2>2 DEF LinearOK
  <2>5. p <= v.begin * v.seconds
    BY <1>1, <1>6, <2>2
  <2> HIDE DEF p, e, vested
  <2>6. q \in Nat /\ q * v.seconds <= p /\ p < (q + 1) * v.seconds
    BY <2>2, <2>3
  <2> HIDE DEF q
  <2>7. w <= q
    <3>1. SUFFICES ASSUME w > q PROVE FALSE
      BY <2>6
    <3>2. w * v.seconds >= (q + 1) * v.seconds
      BY <2>2, <2>6, <3>1
    <3>3. w * v.seconds \in Nat /\ (q + 1) * v.seconds \in Nat
      BY <2>2, <2>6
    <3> QED
      BY <2>3, <2>4, <2>6, <3>1, <3>2, <3>3
  <2>8. q <= v.begin
    <3>1. SUFFICES ASSUME q > v.begin PROVE FALSE
      BY <1>1, <2>6
    <3>2. q * v.seconds >= (v.begin + 1) * v.seconds
      BY <1>1, <2>2, <2>6, <3>1
    <3>3. (v.begin + 1) * v.seconds = v.begin * v.seconds + v.seconds
      BY <1>1, <2>2
    <3>4. q * v.seconds \in Nat /\ v.begin * v.seconds \in Nat
      BY <1>1, <2>2, <2>6
    <3> QED
      BY <2>2, <2>3, <2>5, <2>6, <3>2, <3>3, <3>4
  <2>9. get_allowed_withdraw(v, t) = q - w
    BY <1>1, <1>2, <1>3, <1>6, <2>1, <2>6
  <2>10. ASSUME NEW n \in Nat \ {0}, n <= q - w
         PROVE  (w + n) * v.seconds <= p
    <3>1. w + n <= q
      BY <2>6, <2>10
    <3>2. (w + n) * v.seconds <= q * v.seconds
      BY <2>2, <2>6, <3>1
    <3>3. (w + n) * v.seconds \in Nat /\ q * v.seconds \in Nat
      BY <2>2, <2>6
    <3> QED
      BY <2>3, <2>6, <3>2, <3>3
  <2>11. q - w \in 0 .. v.balance
    BY <1>1, <1>2, <2>6, <2>7, <2>8
  <2> QED
    BY <1>1, <1>6, <2>9, <2>10, <2>11 DEF p, e
<1> QED
  BY <1>1, <1>4, <1>5, <1>6

(* No vesting balance allows more than it holds. *)
LEMMA AllowedInRange ==
  ASSUME NEW v \in VestingRecords, NEW ar, NEW w, NEW t \in Nat, VestOK(v, ar, w, t)
  PROVE  get_allowed_withdraw(v, t) \in 0 .. v.balance
<1>1. CASE v.kind = "linear"
  BY <1>1, LinearAllowed DEF VestOK
<1>2. CASE v.kind = "cdd"
  <2>1. compute_coin_seconds_earned(v, t) \div AtLeastOne(v.seconds) \in 0 .. v.balance
    BY <1>2, CoinDaysAllowed DEF VestOK
  <2>2. v.balance \in Nat
    BY DEF VestingRecords
  <2>3. get_allowed_withdraw(v, t) = IF t <= v.start THEN 0
          ELSE compute_coin_seconds_earned(v, t) \div AtLeastOne(v.seconds)
    BY <1>2 DEF get_allowed_withdraw
  <2> QED
    BY <2>1, <2>2, <2>3
<1> QED
  BY <1>1, <1>2 DEF VestingRecords

LEMMA VestingFields ==
  ASSUME NEW v \in VestingRecords
  PROVE  /\ v.earned \in Nat /\ v.balance \in Nat /\ v.updated \in Nat /\ v.seconds \in Nat
         /\ v.start \in Nat /\ v.begin \in Nat /\ v.cliff \in Nat /\ v.kind \in {"cdd", "linear"}
         /\ AtLeastOne(v.seconds) \in Nat \ {0}
<1>1. /\ v.earned \in Nat /\ v.balance \in Nat /\ v.updated \in Nat /\ v.seconds \in Nat
      /\ v.start \in Nat /\ v.begin \in Nat /\ v.cliff \in Nat /\ v.kind \in {"cdd", "linear"}
  BY DEF VestingRecords
<1> QED
  BY <1>1, AtLeastOneType

(* Withdrawing what is allowed. *)
LEMMA WithdrawVests ==
  ASSUME NEW v \in VestingRecords, NEW ar, NEW w, NEW t \in Nat, VestOK(v, ar, w, t),
         NEW n \in Nat \ {0}, n <= get_allowed_withdraw(v, t)
  PROVE  LET u == withdraw(v, t, n)
         IN  /\ u \in VestingRecords /\ VestOK(u, ar, w + n, t)
             /\ u.balance = v.balance - n /\ u.asset = v.asset /\ u.kind = v.kind
<1> DEFINE u == withdraw(v, t, n)
           S == AtLeastOne(v.seconds)
           c == compute_coin_seconds_earned(v, t)
<1>1. /\ v.earned \in Nat /\ v.balance \in Nat /\ v.updated \in Nat /\ v.seconds \in Nat
      /\ v.start \in Nat /\ v.begin \in Nat /\ v.cliff \in Nat /\ v.kind \in {"cdd", "linear"}
      /\ S \in Nat \ {0}
  BY VestingFields
<1>2. n <= v.balance /\ v.balance - n \in Nat
  BY <1>1, AllowedInRange
<1>3. ar \in Nat /\ w \in Nat /\ v.updated <= t /\ w + n \in Nat
  BY DEF VestOK
<1>4. CASE v.kind = "linear"
  <2>1. u = [v EXCEPT !.balance = @ - n]
    BY <1>4 DEF withdraw
  <2> HIDE DEF u
  <2>2. /\ u \in VestingRecords /\ u.balance = v.balance - n /\ u.asset = v.asset /\ u.kind = v.kind
        /\ u.begin = v.begin /\ u.start = v.start /\ u.cliff = v.cliff /\ u.seconds = v.seconds
        /\ u.updated = v.updated
    BY <1>2, <2>1 DEF VestingRecords
  <2>3. LinearOK(v, w, t)
    BY <1>4 DEF VestOK
  <2>4. /\ t > v.start /\ t - v.start >= v.cliff
        /\ t - v.start >= v.seconds \/ (w + n) * v.seconds <= v.begin * (t - v.start)
    BY <1>3, <1>4, <2>3, LinearAllowed
  <2>5. LinearOK(u, w + n, t)
    <3>1. v.begin = v.balance - n + (w + n)
      BY <1>1, <1>3, <2>3 DEF LinearOK
    <3> QED
      BY <2>2, <2>4, <3>1 DEF LinearOK
  <2> QED
    BY <1>3, <1>4, <2>2, <2>5 DEF VestOK, u
<1>5. CASE v.kind = "cdd"
  <2>1. u = [v EXCEPT !.balance = @ - n, !.earned = c - n * S, !.updated = t]
    <3>1. u = [[update_coin_seconds_earned(v, t) EXCEPT !.earned = @ - n * S] EXCEPT !.balance = @ - n]
      BY <1>5 DEF withdraw
    <3>2. update_coin_seconds_earned(v, t) = [v EXCEPT !.earned = c, !.updated = t]
      BY DEF update_coin_seconds_earned
    <3> HIDE DEF u, c, S
    <3> QED
      BY <3>1, <3>2 DEF VestingRecords
  <2>2. /\ c \in Nat /\ c <= v.balance * S /\ c + w * S <= ar /\ (c \div S) * S <= c
        /\ c \div S \in 0 .. v.balance
    BY <1>3, <1>5, CoinDaysAllowed DEF VestOK
  <2>3. t > v.start /\ n <= c \div S
    BY <1>1, <1>5, <2>2 DEF get_allowed_withdraw
  <2> HIDE DEF u, c, S
  <2>4. n * S \in Nat /\ n * S <= c
    <3>1. n * S <= (c \div S) * S /\ (c \div S) * S \in Nat /\ n * S \in Nat
      BY <1>1, <2>2, <2>3
    <3> QED
      BY <2>2, <3>1
  <2>5. c - n * S \in Nat
    BY <2>2, <2>4
  <2>6. /\ u \in VestingRecords /\ u.balance = v.balance - n /\ u.asset = v.asset /\ u.kind = v.kind
        /\ u.start = v.start /\ u.seconds = v.seconds /\ u.updated = t /\ u.earned = c - n * S
    <3> DEFINE m == c - n * S
    <3>1. m \in Nat
      BY <2>5
    <3> HIDE DEF m
    <3>2. u = [v EXCEPT !.balance = @ - n, !.earned = m, !.updated = t]
      BY <2>1 DEF m
    <3>3. /\ u \in VestingRecords /\ u.balance = v.balance - n /\ u.asset = v.asset /\ u.kind = v.kind
          /\ u.start = v.start /\ u.seconds = v.seconds /\ u.updated = t /\ u.earned = m
      BY <1>2, <3>1, <3>2 DEF VestingRecords
    <3> QED
      BY <3>3 DEF m
  <2>7. CoinDaysOK(u, ar, w + n, t)
    <3>1. (v.balance - n) * S = v.balance * S - n * S /\ (w + n) * S = w * S + n * S
      BY <1>1, <1>3
    <3>2. v.balance * S \in Nat /\ w * S \in Nat
      BY <1>1, <1>3
    <3>3. c - n * S <= (v.balance - n) * S
      BY <2>2, <2>4, <3>1, <3>2
    <3>4. (v.balance - n) * (t - t) = 0
      BY <1>2
    <3>5. c - n * S + (v.balance - n) * (t - t) + (w + n) * S <= ar
      BY <1>3, <2>2, <2>4, <3>1, <3>2, <3>4
    <3> QED
      BY <2>3, <2>6, <3>3, <3>5 DEF CoinDaysOK, S
  <2> QED
    BY <1>3, <1>5, <2>6, <2>7 DEF VestOK, u
<1> QED
  BY <1>1, <1>4, <1>5

(* Time passes. *)
LEMMA TimeVests ==
  ASSUME NEW v \in VestingRecords, NEW ar, NEW w, NEW t \in Nat, VestOK(v, ar, w, t),
         NEW t2 \in Nat, t < t2
  PROVE  VestOK(v, ar + v.balance * (t2 - t), w, t2)
<1> DEFINE S == AtLeastOne(v.seconds)
           m == v.balance * (t2 - t)
<1>1. /\ v.earned \in Nat /\ v.balance \in Nat /\ v.updated \in Nat /\ v.seconds \in Nat
      /\ v.start \in Nat /\ v.begin \in Nat /\ v.cliff \in Nat /\ v.kind \in {"cdd", "linear"}
      /\ S \in Nat \ {0}
  BY VestingFields
<1>2. ar \in Nat /\ w \in Nat /\ v.updated <= t
  BY DEF VestOK
<1>3. m \in Nat
  BY <1>1
<1>4. CASE v.kind = "cdd"
  <2>1. v.balance * (t2 - v.updated) = v.balance * (t - v.updated) + m
    BY <1>1, <1>2
  <2>2. v.balance * (t - v.updated) \in Nat /\ w * S \in Nat
    BY <1>1, <1>2
  <2>3. /\ v.earned <= v.balance * S
        /\ v.earned + v.balance * (t - v.updated) + w * S <= ar
        /\ w > 0 => t > v.start
    BY <1>4 DEF VestOK, CoinDaysOK
  <2> HIDE DEF m, S
  <2>4. v.earned + v.balance * (t2 - v.updated) + w * S <= ar + m
    BY <1>1, <1>2, <1>3, <2>1, <2>2, <2>3
  <2>5. w > 0 => t2 > v.start
    BY <1>1, <1>2, <2>3
  <2>6. CoinDaysOK(v, ar + m, w, t2)
    BY <2>3, <2>4, <2>5 DEF CoinDaysOK, S
  <2>7. ar + m \in Nat /\ v.updated <= t2
    BY <1>1, <1>2, <1>3
  <2> QED
    BY <1>2, <1>4, <2>6, <2>7 DEF VestOK, m
<1>5. CASE v.kind = "linear"
  <2>1. LinearOK(v, w, t)
    BY <1>5 DEF VestOK
  <2>2. v.begin * (t - v.start) <= v.begin * (t2 - v.start)
    BY <1>1
  <2>3. w * v.seconds \in Nat /\ v.begin * (t - v.start) \in Int /\ v.begin * (t2 - v.start) \in Int
    BY <1>1, <1>2
  <2>4. LinearOK(v, w, t2)
    BY <1>1, <1>2, <2>1, <2>2, <2>3 DEF LinearOK
  <2>5. ar + m \in Nat /\ v.updated <= t2
    BY <1>1, <1>2, <1>3
  <2> QED
    BY <1>2, <1>5, <2>4, <2>5 DEF VestOK
<1> QED
  BY <1>1, <1>4, <1>5

(* Time passes and the balance is added to. *)
LEMMA DepositVests ==
  ASSUME NEW v \in VestingRecords, NEW ar, NEW w, NEW t \in Nat, VestOK(v, ar, w, t),
         v.kind = "cdd", NEW t2 \in Nat, t < t2, NEW n \in Nat
  PROVE  LET u == deposit(v, t2, n)
         IN  /\ u \in VestingRecords /\ VestOK(u, ar + v.balance * (t2 - t), w, t2)
             /\ u.balance = v.balance + n /\ u.asset = v.asset /\ u.kind = v.kind
<1> DEFINE u == deposit(v, t2, n)
           S == AtLeastOne(v.seconds)
           ar2 == ar + v.balance * (t2 - t)
           c == compute_coin_seconds_earned(v, t2)
<1>1. /\ v.earned \in Nat /\ v.balance \in Nat /\ v.updated \in Nat /\ v.seconds \in Nat
      /\ v.start \in Nat /\ v.begin \in Nat /\ v.cliff \in Nat /\ v.kind \in {"cdd", "linear"}
      /\ S \in Nat \ {0}
  BY VestingFields
<1>2. VestOK(v, ar2, w, t2)
  BY TimeVests
<1>3. ar2 \in Nat /\ w \in Nat /\ v.updated <= t2 /\ CoinDaysOK(v, ar2, w, t2)
  BY <1>2 DEF VestOK
<1> HIDE DEF ar2
<1>4. c \in Nat /\ c <= v.balance * S /\ c + w * S <= ar2
  BY <1>3, CoinDaysAllowed
<1>5. u = [v EXCEPT !.balance = @ + n, !.earned = c, !.updated = t2]
  <2>1. u = [update_coin_seconds_earned(v, t2) EXCEPT !.balance = @ + n]
    BY DEF deposit
  <2>2. update_coin_seconds_earned(v, t2) = [v EXCEPT !.earned = c, !.updated = t2]
    BY DEF update_coin_seconds_earned
  <2> HIDE DEF u, c
  <2> QED
    BY <2>1, <2>2 DEF VestingRecords
<1> HIDE DEF u, c, S
<1>6. /\ u \in VestingRecords /\ u.balance = v.balance + n /\ u.asset = v.asset /\ u.kind = v.kind
      /\ u.start = v.start /\ u.seconds = v.seconds /\ u.updated = t2 /\ u.earned = c
  <2>1. c \in Nat /\ v.balance + n \in Nat
    BY <1>1, <1>4
  <2> QED
    BY <1>5, <2>1 DEF VestingRecords
<1>7. CoinDaysOK(u, ar2, w, t2)
  <2>1. (v.balance + n) * S = v.balance * S + n * S /\ n * S \in Nat /\ v.balance * S \in Nat
    BY <1>1
  <2>2. c <= (v.balance + n) * S
    BY <1>4, <2>1
  <2>3. (v.balance + n) * (t2 - t2) = 0 /\ w * S \in Nat
    BY <1>1, <1>3
  <2>4. c + (v.balance + n) * (t2 - t2) + w * S <= ar2
    BY <1>3, <1>4, <2>3
  <2>5. w > 0 => t2 > v.start
    BY <1>3 DEF CoinDaysOK
  <2> QED
    BY <1>6, <2>2, <2>4, <2>5 DEF CoinDaysOK, S
<1>8. VestOK(u, ar2, w, t2)
  BY <1>3, <1>6, <1>7 DEF VestOK
<1> QED
  BY <1>6, <1>8 DEF u, ar2

(* A new vesting balance. *)
LEMMA NewVests ==
  ASSUME NEW v \in VestingRecords, v.earned = 0, v.begin = v.balance, NEW t \in Nat, v.updated = t
  PROVE  VestOK(v, 0, 0, t)
<1>1. v.balance \in Nat /\ AtLeastOne(v.seconds) \in Nat \ {0} /\ v.updated \in Nat
  BY VestingFields
<1>2. v.balance * (t - v.updated) = 0 /\ v.balance * AtLeastOne(v.seconds) \in Nat
      /\ 0 * AtLeastOne(v.seconds) = 0
  BY <1>1
<1> QED
  BY <1>1, <1>2 DEF VestOK, CoinDaysOK, LinearOK


(* The sum of vesting balances. *)
LEMMA VestedAppend ==
  ASSUME NEW vs \in Seq(VestingRecords), NEW v \in VestingRecords, NEW a
  PROVE  /\ Vested(Append(vs, v), a) = Vested(vs, a) + (IF v.asset = a THEN v.balance ELSE 0)
         /\ Vested(vs, a) \in Int
<1> DEFINE S == DOMAIN vs
           k == Len(vs) + 1
           ws == Append(vs, v)
           F(us) == [i \in DOMAIN us |-> IF us[i].asset = a THEN us[i].balance ELSE 0]
           f == F(vs)
           g == F(ws)
<1>1. S = 1 .. Len(vs) /\ Len(vs) \in Nat /\ DOMAIN ws = S \cup {k} /\ k \notin S
  OBVIOUS
<1>2. (\A i \in S : ws[i] = vs[i]) /\ ws[k] = v
  OBVIOUS
<1>3. \A i \in S : vs[i].balance \in Nat
  BY VestingFields
<1>4. v.balance \in Nat
  BY VestingFields
<1>5. IsFiniteSet(S)
  BY <1>1, FS_Interval
<1> HIDE DEF S, k, ws
<1>6. IntValued(f, S)
  BY <1>3 DEF IntValued, S
<1>7. g[k] = (IF v.asset = a THEN v.balance ELSE 0) /\ \A i \in S : g[i] = f[i]
  BY <1>1, <1>2 DEF S
<1>10. Vested(ws, a) = SumFunctionOnSet(g, S \cup {k}) /\ Vested(vs, a) = SumFunctionOnSet(f, S)
  BY <1>1 DEF Vested, S
<1> HIDE DEF f, g
<1>8. IntValued(g, S) /\ g[k] \in Int
  BY <1>4, <1>6, <1>7 DEF IntValued
<1>9. SumFunctionOnSet(g, S \cup {k}) = g[k] + SumFunctionOnSet(g, S)
  BY <1>1, <1>5, <1>8, SumAdd
<1>11. SumFunctionOnSet(g, S) = SumFunctionOnSet(f, S) /\ SumFunctionOnSet(f, S) \in Int
  BY <1>5, <1>6, <1>7, SumSame, SumType
<1>12. Vested(ws, a) = Vested(vs, a) + g[k] /\ Vested(vs, a) \in Int
  BY <1>8, <1>9, <1>10, <1>11
<1> QED
  BY <1>7, <1>12 DEF ws

LEMMA VestedSet ==
  ASSUME NEW vs \in Seq(VestingRecords), NEW ws \in Seq(VestingRecords), DOMAIN ws = DOMAIN vs,
         NEW i \in DOMAIN vs, \A j \in DOMAIN vs : j # i => ws[j] = vs[j],
         ws[i].asset = vs[i].asset, NEW a
  PROVE  Vested(ws, a) = Vested(vs, a) + (IF vs[i].asset = a THEN ws[i].balance - vs[i].balance ELSE 0)
<1> DEFINE S == DOMAIN vs
           F(us) == [j \in DOMAIN us |-> IF us[j].asset = a THEN us[j].balance ELSE 0]
           f == F(vs)
           g == F(ws)
<1>1. S = 1 .. Len(vs) /\ Len(vs) \in Nat
  OBVIOUS
<1>3. \A j \in S : vs[j].balance \in Nat /\ ws[j].balance \in Nat
  BY VestingFields
<1>5. IsFiniteSet(S)
  BY <1>1, FS_Interval
<1> HIDE DEF S
<1>6. IntValued(f, S) /\ g[i] \in Int /\ (\A j \in S : j # i => g[j] = f[j])
  BY <1>3 DEF IntValued, S
<1>7. g[i] - f[i] = IF vs[i].asset = a THEN ws[i].balance - vs[i].balance ELSE 0
  BY <1>3 DEF S
<1>10. Vested(ws, a) = SumFunctionOnSet(g, S) /\ Vested(vs, a) = SumFunctionOnSet(f, S) /\ i \in S
  BY DEF Vested, S
<1> HIDE DEF f, g
<1>8. SumFunctionOnSet(g, S) = SumFunctionOnSet(f, S) + (g[i] - f[i])
  BY <1>5, <1>6, <1>10, SumUpdate
<1> QED
  BY <1>7, <1>8, <1>10

(* e is d with other vesting balances and payments. *)
SameButVestings(d, e) ==
  /\ e.balance = d.balance /\ e.asset_pool = d.asset_pool /\ e.core_pool = d.core_pool
  /\ e.supply = d.supply /\ e.options = d.options

LEMMA VestingEffect ==
  ASSUME NEW d, DbOK(d), NEW e, SameButVestings(d, e), e.paid \in Nat, NEW a \in Live(d),
         NEW n \in Int, Vested(e.vestings, a) = Vested(d.vestings, a) + n
  PROVE  Excess(e, a) = Excess(d, a) + n - (IF a = Core THEN e.paid - d.paid ELSE 0)
<1>1. /\ d.asset_pool[a] \in Int /\ d.supply[a] \in Int /\ d.paid \in Int
      /\ Owned(d, a) \in Int /\ Vested(d.vestings, a) \in Int
      /\ SumFunctionOnSet(d.core_pool, Live(d)) \in Int
  BY HeldParts
<1>2. Owned(e, a) = Owned(d, a) /\ Live(e) = Live(d)
  BY DEF Owned, Live, SameButVestings
<1>3. Held(e, a) = Held(d, a) + n /\ Held(d, a) \in Int
  BY <1>1, <1>2 DEF Held, SameButVestings
<1>4. e.supply[a] = d.supply[a]
  BY DEF SameButVestings
<1> QED
  BY <1>1, <1>3, <1>4 DEF Excess

LEMMA VestingTyped ==
  ASSUME NEW d, DbOK(d), NEW e, DOMAIN e = DbFields, SameButVestings(d, e),
         e.vestings \in Seq(VestingRecords), e.permit \subseteq Permits,
         e.pay_seconds \in Nat, e.paid \in Nat,
         \A i \in e.pay_vb : /\ i \in DOMAIN e.vestings /\ e.pay_vb = {i}
                             /\ e.vestings[i].asset = Core /\ e.vestings[i].kind = "cdd",
         \A i \in DOMAIN e.vestings : e.vestings[i].asset \in Live(d)
  PROVE  DbOK(e) /\ Live(e) = Live(d) /\ (Capped(d) => Capped(e))
<1>1. Live(e) = Live(d)
  BY DEF Live, SameButVestings
<1>2. DbOK(e)
  BY <1>1 DEF DbOK, SameButVestings
<1> QED
  BY <1>1, <1>2 DEF Capped, SameButVestings

LEMMA CreateVestingGood ==
  ASSUME Good(db, made), now \in Nat, vesting_balance_create
  PROVE  /\ Good(db', made) /\ db'.permit = db.permit
         /\ \E v \in VestingRecords : /\ db'.vestings = Append(db.vestings, v)
                                      /\ v.earned = 0 /\ v.begin = v.balance /\ v.updated = now
         /\ area' = Append(area, 0) /\ withdrawn' = Append(withdrawn, 0)
         /\ UNCHANGED <<now, taken>>
<1> DEFINE V(owner, s, n, policy) ==
             [owner |-> owner, asset |-> s, balance |-> n, kind |-> policy.kind,
              seconds |-> policy.seconds, start |-> policy.start, cliff |-> policy.cliff,
              begin |-> n, earned |-> 0, updated |-> now]
<1>1. PICK creator \in Accounts, owner \in Accounts, s \in Live(db), n \in Amounts, policy \in Policies :
        /\ Operation(creator, LAMBDA d : Then(adjust_balance(d, creator, s, -n),
                                LAMBDA x : {[x EXCEPT !.vestings = Append(@, V(owner, s, n, policy))]}))
        /\ area' = Append(area, 0) /\ withdrawn' = Append(withdrawn, 0)
        /\ UNCHANGED <<now, taken>>
  BY DEF vesting_balance_create
<1>2. PICK fee \in Fees :
        /\ FeeAllowed(db, fee)
        /\ db' \in apply(db, creator, fee, CoreFee(db, fee), LAMBDA d : Then(adjust_balance(d, creator, s, -n),
                                LAMBDA x : {[x EXCEPT !.vestings = Append(@, V(owner, s, n, policy))]}))
  BY <1>1 DEF Operation
<1> DEFINE v == V(owner, s, n, policy)
           D == Charged(db, fee, CoreFee(db, fee))
           X == UNION {{[y EXCEPT !.vestings = Append(@, v)]} : y \in adjust_balance(D, creator, s, -n)}
<1>3. db' \in UNION {adjust_balance(x, creator, fee.asset, -fee.amount) : x \in X}
  BY <1>2 DEF apply, Then, Charged
<1>4. DbOK(D) /\ SameButMoney(db, D) /\ Live(D) = Live(db) /\ Capped(D)
  BY <1>2, Start
<1>5. n \in Nat /\ -n \in Int
  BY LedgerAssumption
<1>6. v \in VestingRecords /\ v.asset = s /\ v.balance = n /\ v.earned = 0 /\ v.begin = n /\ v.updated = now
  <2>1. policy \in [kind : {"cdd", "linear"}, seconds : Nat, start : Nat, cliff : Nat]
    BY LedgerAssumption
  <2>2. s \in Assets
    BY DEF Good, DbOK
  <2> QED
    BY <1>5, <2>1, <2>2 DEF VestingRecords
<1> HIDE DEF D, X, V
<1>7. PICK x \in X : db' \in adjust_balance(x, creator, fee.asset, -fee.amount)
  BY <1>3
<1>8. PICK y \in adjust_balance(D, creator, s, -n) : x = [y EXCEPT !.vestings = Append(@, v)]
  BY DEF X
<1>9. /\ DbOK(y) /\ SameButMoney(D, y)
      /\ \A a \in Live(D) : Excess(y, a) = Excess(D, a) + (IF a = s THEN -n ELSE 0)
  BY <1>4, <1>5, AdjustEffect
<1>10. Live(y) = Live(db) /\ DOMAIN y = DbFields /\ y.vestings \in Seq(VestingRecords) /\ y.paid \in Nat
  BY <1>4, <1>9 DEF SameButMoney, Live, DbOK
<1>11. /\ DOMAIN x = DbFields /\ SameButVestings(y, x) /\ x.vestings = Append(y.vestings, v)
       /\ x.permit = y.permit /\ x.pay_vb = y.pay_vb /\ x.pay_seconds = y.pay_seconds /\ x.paid = y.paid
  BY <1>8, <1>10 DEF DbFields, SameButVestings
<1>12. Live(x) = Live(db)
  BY <1>10, <1>11 DEF SameButVestings, Live
<1>13. DbOK(x)
  <2> DEFINE vs == y.vestings
             ws == x.vestings
  <2>1. ws \in Seq(VestingRecords)
    BY <1>6, <1>10, <1>11
  <2>2. /\ DOMAIN vs \subseteq DOMAIN ws
        /\ \A i \in DOMAIN vs : ws[i] = vs[i]
        /\ \A i \in DOMAIN ws : i \in DOMAIN vs \/ ws[i] = v
    BY <1>6, <1>10, <1>11
  <2>3. \A i \in x.pay_vb : /\ i \in DOMAIN ws /\ x.pay_vb = {i}
                            /\ ws[i].asset = Core /\ ws[i].kind = "cdd"
    <3>1. \A i \in y.pay_vb : /\ i \in DOMAIN vs /\ y.pay_vb = {i}
                              /\ vs[i].asset = Core /\ vs[i].kind = "cdd"
      BY <1>9 DEF DbOK
    <3> HIDE DEF vs, ws
    <3> QED
      BY <1>11, <2>2, <3>1
  <2>4. \A i \in DOMAIN ws : ws[i].asset \in Live(x)
    <3>1. \A i \in DOMAIN vs : vs[i].asset \in Live(x)
      BY <1>9, <1>10, <1>12 DEF DbOK
    <3> HIDE DEF vs, ws
    <3> QED
      BY <1>6, <1>12, <2>2, <3>1
  <2>5. x.permit \subseteq Permits /\ x.pay_seconds \in Nat /\ x.paid \in Nat
    BY <1>9, <1>11 DEF DbOK
  <2> QED
    BY <1>9, <1>10, <1>11, <1>12, <2>1, <2>3, <2>4, <2>5, VestingTyped
<1>14. Capped(x)
  BY <1>4, <1>9, <1>11, <1>12 DEF Capped, SameButVestings, SameButMoney
<1>15. ASSUME NEW a \in Live(db) PROVE Excess(x, a) = Excess(D, a)
  <2> DEFINE m == IF v.asset = a THEN v.balance ELSE 0
  <2>1. Vested(x.vestings, a) = Vested(y.vestings, a) + m
    BY <1>6, <1>10, <1>11, VestedAppend
  <2>2. m \in Int /\ m = IF a = s THEN n ELSE 0
    BY <1>5, <1>6
  <2> HIDE DEF m
  <2>5. DbOK(y) /\ SameButVestings(y, x) /\ x.paid \in Nat /\ a \in Live(y)
    BY <1>9, <1>10, <1>11
  <2>3. Excess(x, a) = Excess(y, a) + m - (IF a = Core THEN x.paid - y.paid ELSE 0)
    BY <2>1, <2>2, <2>5, VestingEffect
  <2>4. Excess(D, a) \in Int
    BY <1>4, ExcessType
  <2> QED
    BY <1>4, <1>5, <1>9, <1>10, <1>11, <2>2, <2>3, <2>4
<1>16. Good(db', made) /\ SameButMoney(x, db')
  BY <1>2, <1>7, <1>12, <1>13, <1>14, <1>15, Finish DEF D
<1>17. db'.permit = db.permit /\ db'.vestings = Append(db.vestings, v)
  BY <1>4, <1>9, <1>11, <1>16 DEF SameButMoney
<1> QED
  BY <1>1, <1>6, <1>16, <1>17

(* Another vesting balance in the place of one, with the same asset. *)
LEMMA VestingReplaced ==
  ASSUME NEW d, DbOK(d), NEW i \in DOMAIN d.vestings, NEW u \in VestingRecords,
         u.asset = d.vestings[i].asset, u.kind = d.vestings[i].kind,
         NEW e, DOMAIN e = DbFields, SameButVestings(d, e), e.vestings = [d.vestings EXCEPT ![i] = u],
         e.permit = d.permit, e.pay_vb = d.pay_vb, e.pay_seconds = d.pay_seconds, e.paid = d.paid
  PROVE  /\ DbOK(e) /\ Live(e) = Live(d)
         /\ \A a \in Live(d) : Excess(e, a) = Excess(d, a) +
              (IF a = u.asset THEN u.balance - d.vestings[i].balance ELSE 0)
<1> DEFINE vs == d.vestings
           ws == e.vestings
<1>1. vs \in Seq(VestingRecords)
  BY DEF DbOK
<1>2. /\ ws \in Seq(VestingRecords) /\ DOMAIN ws = DOMAIN vs /\ ws[i] = u
      /\ \A j \in DOMAIN vs : j # i => ws[j] = vs[j]
  BY <1>1
<1>3. Live(e) = Live(d)
  BY DEF SameButVestings, Live
<1>4. DbOK(e)
  <2>1. \A j \in e.pay_vb : /\ j \in DOMAIN ws /\ e.pay_vb = {j}
                            /\ ws[j].asset = Core /\ ws[j].kind = "cdd"
    <3>1. \A j \in d.pay_vb : /\ j \in DOMAIN vs /\ d.pay_vb = {j}
                              /\ vs[j].asset = Core /\ vs[j].kind = "cdd"
      BY DEF DbOK
    <3> QED
      BY <1>2, <3>1
  <2>2. \A j \in DOMAIN ws : ws[j].asset \in Live(e)
    <3>1. \A j \in DOMAIN vs : vs[j].asset \in Live(d)
      BY DEF DbOK
    <3> QED
      BY <1>2, <1>3, <3>1
  <2>3. Core \in Live(e) /\ Live(e) \subseteq Assets /\ IsFiniteSet(Live(e))
    BY <1>3, Zenon DEF DbOK
  <2>4. /\ e.balance \in [Accounts -> [Assets -> Nat]] /\ e.supply \in [Live(e) -> Int]
        /\ e.asset_pool \in [Live(e) -> Int] /\ e.core_pool \in [Live(e) -> Int]
        /\ e.options \in [Live(e) \ {Core} -> OptionRecords]
    BY <1>3, Zenon DEF DbOK, SameButVestings
  <2>5. e.permit \subseteq Permits /\ e.pay_seconds \in Nat /\ e.paid \in Nat
    BY Zenon DEF DbOK
  <2>6. \A y \in Accounts, a \in Assets \ Live(e) : e.balance[y][a] = 0
    <3>1. \A y \in Accounts, a \in Assets \ Live(d) : d.balance[y][a] = 0
      BY Zenon DEF DbOK
    <3> QED
      BY <1>3, <3>1 DEF SameButVestings
  <2> QED
    BY <1>2, <2>1, <2>2, <2>3, <2>4, <2>5, <2>6, Zenon DEF DbOK
<1>5. ASSUME NEW a \in Live(d)
      PROVE  Excess(e, a) = Excess(d, a) + (IF a = u.asset THEN u.balance - vs[i].balance ELSE 0)
  <2> DEFINE m == IF vs[i].asset = a THEN ws[i].balance - vs[i].balance ELSE 0
  <2>1. Vested(ws, a) = Vested(vs, a) + m
    <3> HIDE DEF vs, ws
    <3>1. i \in DOMAIN vs /\ ws[i].asset = vs[i].asset
      BY <1>2 DEF vs
    <3> QED
      BY <1>1, <1>2, <3>1, VestedSet
  <2>2. m \in Int /\ m = IF a = u.asset THEN u.balance - vs[i].balance ELSE 0
    BY <1>1, <1>2, VestingFields
  <2>3. e.paid \in Nat /\ d.paid \in Nat /\ Excess(d, a) \in Int
    BY ExcessType DEF DbOK
  <2> HIDE DEF m
  <2>4. Excess(e, a) = Excess(d, a) + m - (IF a = Core THEN e.paid - d.paid ELSE 0)
    BY <2>1, <2>2, <2>3, VestingEffect
  <2> QED
    BY <2>2, <2>3, <2>4
<1> QED
  BY <1>3, <1>4, <1>5


(* Every vesting balance has its records of what was held and withdrawn. *)
AllVest ==
  /\ area \in Seq(Nat) /\ withdrawn \in Seq(Nat)
  /\ Len(area) = Len(db.vestings) /\ Len(withdrawn) = Len(db.vestings)
  /\ \A i \in 1 .. Len(db.vestings) : VestOK(db.vestings[i], area[i], withdrawn[i], now)

LEMMA WithdrawVestingGood ==
  ASSUME Good(db, made), now \in Nat, AllVest, vesting_balance_withdraw
  PROVE  /\ Good(db', made) /\ db'.permit = db.permit
         /\ \E i \in DOMAIN db.vestings, n \in Nat \ {0} :
              /\ n <= get_allowed_withdraw(db.vestings[i], now)
              /\ db'.vestings = [db.vestings EXCEPT ![i] = withdraw(db.vestings[i], now, n)]
              /\ withdrawn' = [withdrawn EXCEPT ![i] = @ + n]
         /\ UNCHANGED <<now, area, taken>>
<1>1. PICK i \in DOMAIN db.vestings, n \in Amounts :
        /\ n <= get_allowed_withdraw(db.vestings[i], now)
        /\ Operation(db.vestings[i].owner,
                     LAMBDA d : adjust_balance([d EXCEPT !.vestings[i] = withdraw(@, now, n)],
                                               db.vestings[i].owner, db.vestings[i].asset, n))
        /\ withdrawn' = [withdrawn EXCEPT ![i] = @ + n]
        /\ UNCHANGED <<now, area, taken>>
  BY DEF vesting_balance_withdraw
<1> DEFINE v == db.vestings[i]
           owner == v.owner
           s == v.asset
<1>2. PICK fee \in Fees :
        /\ FeeAllowed(db, fee)
        /\ db' \in apply(db, owner, fee, CoreFee(db, fee),
                     LAMBDA d : adjust_balance([d EXCEPT !.vestings[i] = withdraw(@, now, n)], owner, s, n))
  BY <1>1 DEF Operation
<1> DEFINE D == Charged(db, fee, CoreFee(db, fee))
           z == [D EXCEPT !.vestings[i] = withdraw(@, now, n)]
           u == withdraw(v, now, n)
<1>3. db' \in UNION {adjust_balance(x, owner, fee.asset, -fee.amount) : x \in adjust_balance(z, owner, s, n)}
  BY <1>2 DEF apply, Then, Charged
<1>4. DbOK(D) /\ SameButMoney(db, D) /\ Live(D) = Live(db) /\ Capped(D)
  BY <1>2, Start
<1>5. n \in Nat \ {0}
  BY LedgerAssumption
<1>6. v \in VestingRecords /\ owner \in Accounts /\ s \in Live(db) /\ db.vestings \in Seq(VestingRecords)
  <2>1. db.vestings \in Seq(VestingRecords) /\ s \in Live(db)
    BY DEF Good, DbOK
  <2>2. v \in VestingRecords
    BY <2>1
  <2> QED
    BY <2>1, <2>2 DEF VestingRecords
<1>7. VestOK(v, area[i], withdrawn[i], now)
  <2>1. i \in 1 .. Len(db.vestings)
    BY <1>6
  <2> QED
    BY <2>1 DEF AllVest
<1> HIDE DEF D, v
<1>8. u \in VestingRecords /\ u.balance = v.balance - n /\ u.asset = v.asset /\ u.kind = v.kind
  BY <1>1, <1>5, <1>6, <1>7, WithdrawVests DEF v
<1>9. D.vestings = db.vestings /\ DOMAIN D = DbFields
  BY <1>4 DEF SameButMoney, DbOK
<1>10. z = [D EXCEPT !.vestings = [D.vestings EXCEPT ![i] = u]]
  BY <1>9 DEF v
<1> HIDE DEF z, u
<1>11. /\ DOMAIN z = DbFields /\ SameButVestings(D, z) /\ z.vestings = [D.vestings EXCEPT ![i] = u]
       /\ z.permit = D.permit /\ z.pay_vb = D.pay_vb /\ z.pay_seconds = D.pay_seconds /\ z.paid = D.paid
  BY <1>9, <1>10 DEF DbFields, SameButVestings
<1>12. i \in DOMAIN D.vestings /\ u.asset = D.vestings[i].asset /\ u.kind = D.vestings[i].kind
       /\ D.vestings[i] = v
  BY <1>8, <1>9 DEF v
<1>13. /\ DbOK(z) /\ Live(z) = Live(D)
       /\ \A a \in Live(D) : Excess(z, a) = Excess(D, a) +
            (IF a = u.asset THEN u.balance - D.vestings[i].balance ELSE 0)
  BY <1>4, <1>8, <1>11, <1>12, VestingReplaced
<1>14. PICK x \in adjust_balance(z, owner, s, n) : db' \in adjust_balance(x, owner, fee.asset, -fee.amount)
  BY <1>3
<1>15. /\ DbOK(x) /\ SameButMoney(z, x)
       /\ \A a \in Live(z) : Excess(x, a) = Excess(z, a) + (IF a = s THEN n ELSE 0)
  BY <1>4, <1>5, <1>6, <1>13, AdjustEffect
<1>16. Live(x) = Live(db) /\ Capped(x)
  BY <1>4, <1>11, <1>13, <1>15 DEF SameButMoney, SameButVestings, Live, Capped
<1>17. ASSUME NEW a \in Live(db) PROVE Excess(x, a) = Excess(D, a)
  <2>1. Excess(D, a) \in Int /\ v.balance \in Nat
    BY <1>4, <1>6, ExcessType, VestingFields
  <2>2. Excess(z, a) = Excess(D, a) + (IF a = s THEN u.balance - v.balance ELSE 0)
    BY <1>4, <1>8, <1>12, <1>13
  <2>3. Excess(x, a) = Excess(z, a) + (IF a = s THEN n ELSE 0)
    BY <1>4, <1>13, <1>15
  <2> QED
    BY <1>5, <1>8, <2>1, <2>2, <2>3
<1>18. Good(db', made) /\ SameButMoney(x, db')
  BY <1>2, <1>6, <1>14, <1>15, <1>16, <1>17, Finish DEF D
<1>19. db'.permit = db.permit /\ db'.vestings = [db.vestings EXCEPT ![i] = u]
  BY <1>4, <1>11, <1>15, <1>18 DEF SameButMoney
<1> QED
  BY <1>1, <1>5, <1>18, <1>19 DEF u, v

(* What the end of a block at time t does to the vesting balances: those   *)
(* there are stay or are deposited to, and there may be a new one. *)
PaidVestings(t) ==
  LET vs == db.vestings
      ws == db'.vestings
  IN  /\ Len(ws) \in {Len(vs), Len(vs) + 1}
      /\ \A i \in 1 .. Len(vs) :
           ws[i] = vs[i] \/ (vs[i].kind = "cdd" /\ \E n \in Nat : ws[i] = deposit(vs[i], t, n))
      /\ \A i \in 1 .. Len(ws) \ 1 .. Len(vs) :
           ws[i].earned = 0 /\ ws[i].begin = ws[i].balance /\ ws[i].updated = t

LEMMA EndBlockGood ==
  ASSUME Good(db, made), now \in Nat, AllVest, EndBlock
  PROVE  /\ Good(db', made) /\ now' \in Nat /\ now < now'
         /\ \A p \in db'.permit : p \in db.permit /\ taken' = taken
         /\ PaidVestings(now')
         /\ area' = [i \in DOMAIN area |-> area[i] + db.vestings[i].balance * (now' - now)]
                      \o [i \in 1 .. (Len(db'.vestings) - Len(db.vestings)) |-> 0]
         /\ withdrawn' = withdrawn \o [i \in 1 .. (Len(db'.vestings) - Len(db.vestings)) |-> 0]
<1> DEFINE M(t, n) == deposit_miner_pay(db, t, n)
           W(t, n) == update_withdraw_permissions(M(t, n), t)
<1>1. PICK t \in (now + 1) .. MaxTime, n \in Pays, seconds \in PaySeconds :
        /\ now' = t
        /\ db' = [W(t, n) EXCEPT !.paid = @ + n, !.pay_seconds = seconds]
        /\ area' = [i \in DOMAIN area |-> area[i] + db.vestings[i].balance * (t - now)]
                      \o [i \in 1 .. (Len(W(t, n).vestings) - Len(db.vestings)) |-> 0]
        /\ withdrawn' = withdrawn \o [i \in 1 .. (Len(W(t, n).vestings) - Len(db.vestings)) |-> 0]
        /\ taken' = IF W(t, n).permit = {} THEN Unused(0) ELSE taken
  BY DEF EndBlock
<1>2. t \in Nat /\ now < t /\ n \in Nat /\ seconds \in Nat
  BY LedgerAssumption
<1> DEFINE m == M(t, n)
           w == W(t, n)
           e == db'
           vs == db.vestings
           ws == m.vestings
<1>3. DbOK(db) /\ DOMAIN db = DbFields /\ vs \in Seq(VestingRecords) /\ db.paid \in Nat /\ Core \in Live(db)
  BY DEF Good, DbOK
<1>4. /\ DOMAIN m = DbFields /\ SameButVestings(db, m) /\ m.permit = db.permit /\ m.paid = db.paid
      /\ ws \in Seq(VestingRecords)
      /\ \A a \in Live(db) : Vested(ws, a) = Vested(vs, a) + (IF a = Core THEN n ELSE 0)
      /\ \A i \in m.pay_vb : /\ i \in DOMAIN ws /\ m.pay_vb = {i}
                              /\ ws[i].asset = Core /\ ws[i].kind = "cdd"
      /\ \A i \in DOMAIN ws : ws[i].asset \in Live(db)
      /\ Len(ws) \in {Len(vs), Len(vs) + 1}
      /\ \A i \in 1 .. Len(vs) :
           ws[i] = vs[i] \/ (vs[i].kind = "cdd" /\ \E k \in Nat : ws[i] = deposit(vs[i], t, k))
      /\ \A i \in 1 .. Len(ws) \ 1 .. Len(vs) :
           ws[i].earned = 0 /\ ws[i].begin = ws[i].balance /\ ws[i].updated = t
  <2>1. CASE n = 0
    <3>1. m = db
      BY <2>1 DEF deposit_miner_pay
    <3> HIDE DEF m
    <3>2. \A i \in db.pay_vb : /\ i \in DOMAIN vs /\ db.pay_vb = {i}
                               /\ vs[i].asset = Core /\ vs[i].kind = "cdd"
      BY <1>3 DEF DbOK
    <3>3. \A i \in DOMAIN vs : vs[i].asset \in Live(db)
      BY <1>3 DEF DbOK
    <3>4. \A a \in Live(db) : Vested(vs, a) = Vested(vs, a) + (IF a = Core THEN n ELSE 0)
      BY <1>3, <2>1, HeldParts
    <3>5. SameButVestings(db, db)
      BY DEF SameButVestings
    <3>6. Len(vs) \in {Len(vs), Len(vs) + 1} /\ 1 .. Len(vs) \ 1 .. Len(vs) = {}
      OBVIOUS
    <3> HIDE DEF vs
    <3>7. m.vestings = vs
      BY <3>1 DEF vs
    <3> QED
      BY <1>3, <3>1, <3>2, <3>3, <3>4, <3>5, <3>6, <3>7
  <2> DEFINE reusable == {i \in db.pay_vb : vs[i].seconds = db.pay_seconds}
  <2>2. CASE n # 0 /\ reusable # {}
    <3>1. PICK k \in reusable : TRUE
      BY <2>2
    <3>2. /\ k \in DOMAIN vs /\ db.pay_vb = {k} /\ vs[k].asset = Core /\ vs[k].kind = "cdd"
      BY <1>3, <3>1 DEF DbOK
    <3>3. reusable = {k}
      BY <3>1, <3>2
    <3> DEFINE u == deposit(vs[k], t, n)
               us == [vs EXCEPT ![k] = u]
    <3>4. m = [db EXCEPT !.vestings = [i \in DOMAIN vs |-> IF i \in reusable THEN deposit(vs[i], t, n) ELSE vs[i]]]
      BY <2>2 DEF deposit_miner_pay
    <3>5. [i \in DOMAIN vs |-> IF i \in reusable THEN deposit(vs[i], t, n) ELSE vs[i]] = us
      <4> DEFINE A == [i \in DOMAIN vs |-> IF i \in reusable THEN deposit(vs[i], t, n) ELSE vs[i]]
      <4>1. DOMAIN A = DOMAIN vs /\ DOMAIN us = DOMAIN vs
        OBVIOUS
      <4>2. ASSUME NEW i \in DOMAIN vs PROVE A[i] = us[i]
        BY <3>2, <3>3
      <4>3. us = [i \in DOMAIN vs |-> us[i]] /\ A = [i \in DOMAIN vs |-> A[i]]
        OBVIOUS
      <4> HIDE DEF A, us
      <4>4. A = us
        BY <4>2, <4>3
      <4> QED
        BY <4>4 DEF A
    <3>6. vs[k] \in VestingRecords /\ VestOK(vs[k], area[k], withdrawn[k], now)
      <4>1. k \in 1 .. Len(vs)
        BY <1>3, <3>2
      <4> QED
        BY <1>3, <3>2, <4>1 DEF AllVest
    <3>7. u \in VestingRecords /\ u.balance = vs[k].balance + n /\ u.asset = vs[k].asset /\ u.kind = vs[k].kind
      BY <1>2, <3>2, <3>6, DepositVests
    <3>8. m = [db EXCEPT !.vestings = us]
      BY <3>4, <3>5
    <3>12. u = deposit(vs[k], t, n)
      OBVIOUS
    <3> HIDE DEF m, u
    <3>9. us \in Seq(VestingRecords) /\ DOMAIN us = DOMAIN vs /\ Len(us) = Len(vs) /\ us[k] = u
          /\ \A i \in DOMAIN vs : i # k => us[i] = vs[i]
      BY <1>3, <3>2, <3>7
    <3> HIDE DEF us
    <3>10. /\ DOMAIN m = DbFields /\ SameButVestings(db, m) /\ m.permit = db.permit /\ m.paid = db.paid
           /\ m.vestings = us /\ m.pay_vb = {k}
      BY <1>3, <3>2, <3>8 DEF DbFields, SameButVestings
    <3>11. ASSUME NEW a \in Live(db) PROVE Vested(us, a) = Vested(vs, a) + (IF a = Core THEN n ELSE 0)
      <4>1. us[k].asset = vs[k].asset /\ vs[k].balance \in Nat
        BY <3>6, <3>7, <3>9, VestingFields
      <4>2. Vested(us, a) = Vested(vs, a) + (IF vs[k].asset = a THEN us[k].balance - vs[k].balance ELSE 0)
        <5>1. vs \in Seq(VestingRecords) /\ us \in Seq(VestingRecords) /\ DOMAIN us = DOMAIN vs
          BY <1>3, <3>9
        <5>2. k \in DOMAIN vs /\ us[k].asset = vs[k].asset
              /\ \A j \in DOMAIN vs : j # k => us[j] = vs[j]
          BY <3>2, <3>9, <4>1
        <5> HIDE DEF vs
        <5> QED
          BY <5>1, <5>2, VestedSet
      <4> QED
        BY <1>2, <3>2, <3>7, <3>9, <4>1, <4>2
    <3>13. \A i \in DOMAIN us : us[i].asset \in Live(db)
      <4>1. \A i \in DOMAIN vs : vs[i].asset \in Live(db)
        BY <1>3 DEF DbOK
      <4> QED
        BY <3>2, <3>7, <3>9, <4>1
    <3>14. us[k].asset = Core /\ us[k].kind = "cdd" /\ k \in DOMAIN us
      BY <3>2, <3>7, <3>9
    <3>15. DOMAIN vs = 1 .. Len(vs)
      BY <1>3
    <3> HIDE DEF vs
    <3>16. \A i \in 1 .. Len(vs) :
              us[i] = vs[i] \/ (vs[i].kind = "cdd" /\ \E j \in Nat : us[i] = deposit(vs[i], t, j))
      BY <1>2, <3>2, <3>9, <3>12, <3>15
    <3> QED
      BY <3>9, <3>10, <3>11, <3>13, <3>14, <3>16
  <2>3. CASE n # 0 /\ reusable = {}
    <3> DEFINE v == [owner |-> Signer, asset |-> Core, balance |-> n, kind |-> "cdd",
                     seconds |-> db.pay_seconds, start |-> 0, cliff |-> 0, begin |-> n,
                     earned |-> 0, updated |-> t]
               us == Append(vs, v)
               k == Len(vs) + 1
    <3>1. m = [db EXCEPT !.vestings = us, !.pay_vb = {k}]
      BY <2>3 DEF deposit_miner_pay
    <3>2. /\ v \in VestingRecords /\ v.asset = Core /\ v.kind = "cdd" /\ v.balance = n
          /\ v.earned = 0 /\ v.begin = n /\ v.updated = t
      <4>1. Signer \in Accounts /\ Core \in Assets /\ db.pay_seconds \in Nat
        BY <1>3, LedgerAssumption DEF DbOK
      <4> QED
        BY <1>2, <4>1 DEF VestingRecords
    <3> HIDE DEF m, v
    <3>3. /\ us \in Seq(VestingRecords) /\ Len(us) = k /\ DOMAIN us = 1 .. k /\ us[k] = v
          /\ \A i \in 1 .. Len(vs) : us[i] = vs[i]
          /\ k = Len(vs) + 1 /\ Len(vs) \in Nat /\ DOMAIN vs = 1 .. Len(vs)
      BY <1>3, <3>2
    <3>4. \A a \in Live(db) : Vested(us, a) = Vested(vs, a) + (IF a = Core THEN n ELSE 0)
      BY <1>3, <3>2, VestedAppend
    <3> HIDE DEF us, k
    <3>5. /\ DOMAIN m = DbFields /\ SameButVestings(db, m) /\ m.permit = db.permit /\ m.paid = db.paid
          /\ m.vestings = us /\ m.pay_vb = {k}
      BY <1>3, <3>1 DEF DbFields, SameButVestings
    <3>6. \A i \in DOMAIN vs : vs[i].asset \in Live(db)
      BY <1>3 DEF DbOK
    <3> HIDE DEF vs
    <3>7. \A i \in DOMAIN us : i = k \/ i \in 1 .. Len(vs)
      BY <3>3
    <3>8. \A i \in DOMAIN us : us[i].asset \in Live(db)
      BY <1>3, <3>2, <3>3, <3>6, <3>7
    <3>9. \A i \in 1 .. Len(us) \ 1 .. Len(vs) :
            us[i].earned = 0 /\ us[i].begin = us[i].balance /\ us[i].updated = t
      BY <3>2, <3>3, <3>7
    <3>10. k \in DOMAIN us
      BY <3>3
    <3>11. \A i \in {k} : /\ i \in DOMAIN us /\ {k} = {i}
                          /\ us[i].asset = Core /\ us[i].kind = "cdd"
      BY <3>2, <3>3, <3>10
    <3>12. Len(us) \in {Len(vs), Len(vs) + 1}
      BY <3>3
    <3> QED
      BY <3>3, <3>4, <3>5, <3>8, <3>9, <3>11, <3>12, Zenon
  <2> QED
    BY <2>1, <2>2, <2>3
<1> HIDE DEF m, M
<1>5. /\ DOMAIN w = DbFields /\ SameButVestings(m, w) /\ w.permit = {p \in m.permit : p.expiration > t}
      /\ w.paid = m.paid /\ w.vestings = ws /\ w.pay_vb = m.pay_vb
  <2>1. w = [m EXCEPT !.permit = {p \in m.permit : p.expiration > t}]
    BY DEF update_withdraw_permissions, m
  <2> HIDE DEF w
  <2> QED
    BY <1>4, <2>1 DEF DbFields, SameButVestings
<1> HIDE DEF w, W
<1>6. /\ DOMAIN e = DbFields /\ SameButVestings(w, e) /\ e.permit = w.permit
      /\ e.paid = w.paid + n /\ e.vestings = ws /\ e.pay_vb = m.pay_vb /\ e.pay_seconds = seconds
  <2>1. e = [w EXCEPT !.paid = @ + n, !.pay_seconds = seconds]
    BY <1>1 DEF w
  <2> HIDE DEF e
  <2> QED
    BY <1>5, <2>1 DEF DbFields, SameButVestings
<1>7. SameButVestings(db, e) /\ e.paid = db.paid + n /\ e.permit \subseteq db.permit
  BY <1>4, <1>5, <1>6 DEF SameButVestings
<1>8. e.paid \in Nat /\ e.permit \subseteq Permits
  BY <1>2, <1>3, <1>7 DEF DbOK
<1>9. DbOK(e) /\ Live(e) = Live(db) /\ Capped(e)
  <2>1. Capped(db)
    BY DEF Good
  <2> HIDE DEF e
  <2> QED
    BY <1>2, <1>3, <1>4, <1>6, <1>7, <1>8, <2>1, VestingTyped
<1>10. ASSUME NEW a \in Live(db) PROVE Excess(e, a) = IF a = Core THEN made ELSE 0
  <2> DEFINE k == IF a = Core THEN n ELSE 0
  <2>1. k \in Int /\ Vested(e.vestings, a) = Vested(vs, a) + k /\ Excess(db, a) = IF a = Core THEN made ELSE 0
    BY <1>2, <1>4, <1>6 DEF Good, Explained
  <2> HIDE DEF k, e
  <2>2. Excess(e, a) = Excess(db, a) + k - (IF a = Core THEN e.paid - db.paid ELSE 0)
    BY <1>3, <1>7, <1>8, <2>1, VestingEffect
  <2>3. Excess(db, a) \in Int
    BY ExcessType DEF Good
  <2> QED
    BY <1>2, <1>3, <1>7, <2>1, <2>2, <2>3 DEF k
<1>11. Good(db', made)
  BY <1>9, <1>10 DEF Good, Explained
<1>12. ASSUME NEW p \in db'.permit PROVE p \in db.permit /\ taken' = taken
  BY <1>1, <1>6, <1>7 DEF w
<1>13. PaidVestings(t)
  BY <1>4, <1>6 DEF PaidVestings
<1>14. Len(W(t, n).vestings) = Len(db'.vestings)
  BY <1>5, <1>6 DEF w
<1> QED
  BY <1>1, <1>2, <1>11, <1>12, <1>13, <1>14


-----------------------------------------------------------------------------
(* Withdraw permissions.                                                   *)

(* The start of the permission's period is whole periods away from the     *)
(* start it was given.  While something was taken, claimed_this_period is  *)
(* at least that, the window it was taken in is the one that begins or     *)
(* ends with the period's start, and that window has begun. *)
PermitSteady(p, tk, t) ==
  /\ tk.sum \in Nat /\ tk.sum <= p.limit
  /\ \E j \in Int :
       /\ p.start = tk.first + j * Period
       /\ tk.sum > 0 => tk.sum <= p.claimed /\ tk.window \in {j - 1, j} /\ p.start - Period < t

Takings == [first : Int, window : Int, sum : Nat]

PermitsOK ==
  taken \in Takings /\ \A p \in db.permit : PermitSteady(p, taken, now)

LEMMA UnusedSteady ==
  ASSUME NEW p \in Permits, NEW start \in Int, p.start = start, NEW t \in Nat
  PROVE  PermitSteady(p, Unused(start), t)
<1>1. p.start = start + 0 * Period /\ p.limit \in Nat
  BY LedgerAssumption DEF Permits
<1>2. Unused(start).sum = 0 /\ Unused(start).first = start
  BY DEF Unused
<1> QED
  BY <1>1, <1>2 DEF PermitSteady

(* Division that truncates, and the one that rounds down. *)
LEMMA QuotientMeans ==
  ASSUME NEW a \in Int, NEW b \in Nat \ {0}
  PROVE  LET q == Quotient(a, b)
         IN  /\ q \in Int
             /\ a >= 0 => q >= 0 /\ q * b <= a /\ a < q * b + b
             /\ a < 0 => q <= 0 /\ q * b >= a /\ a > q * b - b
<1>1. CASE a >= 0
  <2> DEFINE q == a \div b
  <2>1. q \in Nat /\ q * b <= a /\ a < q * b + b
    BY <1>1
  <2>2. Quotient(a, b) = q
    BY <1>1 DEF Quotient
  <2> QED
    BY <1>1, <2>1, <2>2
<1>2. CASE a < 0
  <2> DEFINE q == (-a) \div b
  <2>1. -a \in Nat
    BY <1>2
  <2>2. q \in Nat /\ q * b <= -a /\ -a < q * b + b
    BY <2>1
  <2>3. Quotient(a, b) = -q
    BY <1>2 DEF Quotient
  <2> HIDE DEF q
  <2>4. (-q) * b = -(q * b) /\ q * b \in Nat
    BY <2>2
  <2> QED
    BY <1>2, <2>2, <2>3, <2>4
<1> QED
  BY <1>1, <1>2

LEMMA DivMeans ==
  ASSUME NEW a \in Int, NEW b \in Nat \ {0}
  PROVE  a \div b \in Int /\ (a \div b) * b <= a /\ a < (a \div b) * b + b
OBVIOUS

LEMMA SameMultiple ==
  ASSUME NEW i \in Int, NEW j \in Int, NEW b \in Nat \ {0}, i * b < j * b + b
  PROVE  i <= j
<1> SUFFICES ASSUME i >= j + 1 PROVE FALSE
  OBVIOUS
<1>1. i * b >= (j + 1) * b
  OBVIOUS
<1>2. (j + 1) * b = j * b + b /\ i * b \in Int /\ j * b \in Int
  OBVIOUS
<1> QED
  BY <1>1, <1>2

(* A claim. *)
LEMMA ClaimSteady ==
  ASSUME NEW p \in Permits, NEW tk \in Takings, NEW t \in Nat, PermitSteady(p, tk, t),
         NEW n \in Nat \ {0}, n <= available_this_period(p, t), NEW k, k = (t - tk.first) \div Period,
         NEW tk2, tk2 = [tk EXCEPT !.window = k, !.sum = IF k = tk.window THEN @ + n ELSE n]
  PROVE  tk2 \in Takings /\ PermitSteady(Claimed(p, t, n), tk2, t)
<1> DEFINE q == Quotient(t - p.start, Period)
           r == Claimed(p, t, n)
           s2 == p.start + q * Period
           c2 == IF q = 0 THEN p.claimed + n ELSE n
           sum2 == IF k = tk.window THEN tk.sum + n ELSE n
<1>1. Period \in Nat \ {0}
  BY LedgerAssumption
<1>2. p.limit \in Nat \ {0} /\ p.start \in Int /\ p.claimed \in Nat
  BY DEF Permits
<1>3. tk.first \in Int /\ tk.window \in Int /\ tk.sum \in Nat
  BY DEF Takings
<1>4. k \in Int /\ k * Period <= t - tk.first /\ t - tk.first < k * Period + Period
  <2> DEFINE a == t - tk.first
  <2>1. a \in Int
    BY <1>3
  <2>2. k = a \div Period
    OBVIOUS
  <2> HIDE DEF a
  <2>3. a \div Period \in Int /\ (a \div Period) * Period <= a /\ a < (a \div Period) * Period + Period
    BY <1>1, <2>1, DivMeans
  <2>4. k \in Int /\ k * Period <= a /\ a < k * Period + Period
    BY <2>2, <2>3
  <2> QED
    BY <2>4 DEF a
<1>5. /\ q \in Int
      /\ t - p.start >= 0 => q >= 0 /\ q * Period <= t - p.start /\ t - p.start < q * Period + Period
      /\ t - p.start < 0 => q <= 0 /\ q * Period >= t - p.start /\ t - p.start > q * Period - Period
  BY <1>1, <1>2, QuotientMeans
<1>6. r = [p EXCEPT !.start = s2, !.claimed = c2]
  BY DEF Claimed
<1>7. tk2 = [tk EXCEPT !.window = k, !.sum = sum2]
  OBVIOUS
<1> HIDE DEF q, r
<1>8. q * Period \in Int
  BY <1>1, <1>5
<1>9. s2 \in Int /\ c2 \in Nat /\ sum2 \in Nat
  BY <1>2, <1>3, <1>5, <1>8
<1>24. sum2 <= tk.sum + n /\ sum2 >= n /\ (k # tk.window => sum2 = n) /\ (q # 0 => c2 = n) /\ c2 >= n
       /\ (q = 0 => c2 = p.claimed + n)
  BY <1>2, <1>3
<1> HIDE DEF s2, c2, sum2
<1>10. tk2.first = tk.first /\ tk2.window = k /\ tk2.sum = sum2 /\ tk2 \in Takings
  BY <1>4, <1>7, <1>9 DEF Takings
<1>11. r.start = s2 /\ r.claimed = c2 /\ r.limit = p.limit
  BY <1>6 DEF Permits
<1>12. PICK j \in Int :
         /\ p.start = tk.first + j * Period
         /\ tk.sum > 0 => tk.sum <= p.claimed /\ tk.window \in {j - 1, j} /\ p.start - Period < t
  BY DEF PermitSteady
<1> DEFINE P == Period
           jp == j * Period
           qp == q * Period
           kp == k * Period
<1>13. jp \in Int /\ kp \in Int /\ qp \in Int
  BY <1>1, <1>4, <1>8
<1>14. (j + q) * Period = jp + qp
  BY <1>1, <1>5
<1>15. s2 = tk.first + (j + q) * Period
  BY <1>2, <1>3, <1>12, <1>13, <1>14 DEF s2
\* The window of the claim is that before or that after the new start.
<1>16. k \in {j + q - 1, j + q}
  <2>1. k <= j + q
    <3>1. k * Period < (j + q) * Period + Period
      <4>1. kp <= t - tk.first
        BY <1>4
      <4>2. t - p.start < qp + Period
        BY <1>1, <1>2, <1>5, <1>13
      <4> QED
        BY <1>1, <1>2, <1>3, <1>12, <1>13, <1>14, <4>1, <4>2
    <3> QED
      BY <1>1, <1>4, <1>5, <3>1, SameMultiple
  <2>2. j + q - 1 <= k
    <3>1. (j + q - 1) * Period < k * Period + Period
      <4>1. t - tk.first < kp + Period
        BY <1>4
      <4>2. t - p.start > qp - Period
        BY <1>1, <1>2, <1>5, <1>13
      <4>3. (j + q - 1) * Period = jp + qp - Period
        BY <1>1, <1>5
      <4> QED
        BY <1>1, <1>2, <1>3, <1>12, <1>13, <4>1, <4>2, <4>3
    <3>2. j + q - 1 \in Int
      BY <1>5
    <3> QED
      BY <1>1, <1>4, <3>1, <3>2, SameMultiple
  <2> QED
    BY <1>4, <1>5, <2>1, <2>2
<1>17. s2 - Period < t
  BY <1>1, <1>2, <1>5, <1>13 DEF s2
\* What is added to was taken in the same period.
<1>18. ASSUME k = tk.window, tk.sum > 0 PROVE q = 0 /\ t < p.start + Period
  <2>1. k \in {j - 1, j} /\ p.start - Period < t
    BY <1>12, <1>18
  <2>2. t < p.start + Period
    <3>1. t - tk.first < kp + Period
      BY <1>4
    <3>2. kp <= jp
      <4>1. k <= j
        BY <1>4, <2>1
      <4> QED
        BY <1>1, <1>4, <4>1
    <3> QED
      BY <1>1, <1>2, <1>3, <1>12, <1>13, <3>1, <3>2
  <2>3. q = 0
    <3>1. ASSUME q >= 1 PROVE FALSE
      <4>1. qp >= Period
        BY <1>1, <1>5, <3>1
      <4> QED
        BY <1>1, <1>2, <1>5, <1>13, <2>2, <3>1, <4>1
    <3>2. ASSUME q <= -1 PROVE FALSE
      <4>1. qp <= -Period
        BY <1>1, <1>5, <3>2
      <4> QED
        BY <1>1, <1>2, <1>5, <1>13, <2>1, <3>2, <4>1
    <3> QED
      BY <1>5, <3>1, <3>2
  <2> QED
    BY <2>2, <2>3
<1>19. available_this_period(p, t) = IF t >= p.start + Period THEN p.limit
                                     ELSE IF p.limit - p.claimed >= 0 THEN p.limit - p.claimed ELSE 0
  <2>1. p.limit - p.claimed \in Int /\ 0 \in Int
    BY <1>2
  <2>2. Max({p.limit - p.claimed, 0}) = IF p.limit - p.claimed >= 0 THEN p.limit - p.claimed ELSE 0
    BY <2>1, LargerOf
  <2> QED
    BY <2>2 DEF available_this_period
<1>20. n <= p.limit
  BY <1>2, <1>19
<1>23. ASSUME sum2 <= p.limit, sum2 <= c2 PROVE PermitSteady(r, tk2, t)
  <2> DEFINE i == j + q
  <2>1. i \in Int /\ s2 = tk.first + i * Period /\ k \in {i - 1, i}
    BY <1>5, <1>15, <1>16
  <2> HIDE DEF i
  <2>2. \E i1 \in Int : /\ s2 = tk.first + i1 * Period
                        /\ sum2 > 0 => sum2 <= c2 /\ k \in {i1 - 1, i1} /\ s2 - Period < t
    BY <1>17, <1>23, <2>1
  <2> QED
    BY <1>9, <1>10, <1>11, <1>23, <2>2 DEF PermitSteady
<1>21. CASE k = tk.window /\ tk.sum > 0
  <2>1. n <= p.limit - p.claimed
    BY <1>1, <1>2, <1>18, <1>19, <1>21
  <2>2. tk.sum <= p.claimed
    BY <1>12, <1>21
  <2>3. sum2 <= p.limit
    BY <1>2, <1>3, <1>9, <1>24, <2>1, <2>2
  <2>4. sum2 <= c2
    BY <1>2, <1>3, <1>9, <1>18, <1>21, <1>24, <2>2
  <2> QED
    BY <1>10, <1>23, <2>3, <2>4 DEF r
<1>22. CASE ~(k = tk.window /\ tk.sum > 0)
  <2>1. sum2 = n
    BY <1>3, <1>9, <1>22, <1>24
  <2>2. sum2 <= p.limit /\ sum2 <= c2
    BY <1>9, <1>20, <1>24, <2>1
  <2> QED
    BY <1>10, <1>23, <2>2 DEF r
<1> QED
  BY <1>21, <1>22

(* Time passes. *)
LEMMA TimeSteady ==
  ASSUME NEW p \in Permits, NEW tk, NEW t \in Nat, PermitSteady(p, tk, t), NEW t2 \in Nat, t < t2
  PROVE  PermitSteady(p, tk, t2)
<1>1. p.start \in Int /\ Period \in Nat
  BY LedgerAssumption DEF Permits
<1>2. p.start - Period < t => p.start - Period < t2
  BY <1>1
<1> QED
  BY <1>2 DEF PermitSteady


-----------------------------------------------------------------------------
(* The invariant and the theorems.                                         *)

Inv == now \in Nat /\ made \in Nat /\ Good(db, made) /\ AllVest /\ PermitsOK

LEMMA InitInv == Init => Inv
<1> SUFFICES ASSUME Init PROVE Inv
  OBVIOUS
<1>1. PICK seconds \in PaySeconds :
        db = [balance |-> [x \in Accounts |-> [a \in Assets |-> IF a = Core THEN Balance0[x] ELSE 0]],
              supply |-> [a \in {Core} |-> SumFunctionOnSet(Balance0, Accounts)],
              asset_pool |-> [a \in {Core} |-> 0], core_pool |-> [a \in {Core} |-> 0],
              options |-> [a \in {} |-> 0], vestings |-> <<>>, permit |-> {}, pay_vb |-> {},
              pay_seconds |-> seconds, paid |-> 0]
  BY DEF Init
<1>2. /\ DOMAIN db = DbFields
      /\ db.balance = [x \in Accounts |-> [a \in Assets |-> IF a = Core THEN Balance0[x] ELSE 0]]
      /\ db.supply = [a \in {Core} |-> SumFunctionOnSet(Balance0, Accounts)]
      /\ db.asset_pool = [a \in {Core} |-> 0] /\ db.core_pool = [a \in {Core} |-> 0]
      /\ db.options = [a \in {} |-> 0] /\ db.vestings = <<>> /\ db.permit = {} /\ db.pay_vb = {}
      /\ db.pay_seconds = seconds /\ db.paid = 0
  BY <1>1 DEF DbFields
<1>3. now = 0 /\ area = <<>> /\ withdrawn = <<>> /\ taken = Unused(0) /\ made = 0
  BY DEF Init
<1>4. /\ Core \in Assets /\ IsFiniteSet(Accounts) /\ Balance0 \in [Accounts -> Nat] /\ seconds \in Nat
  BY LedgerAssumption
<1>5. Live(db) = {Core}
  BY <1>2 DEF Live
<1>6. SumFunctionOnSet(Balance0, Accounts) \in Nat
  BY <1>4, SumNat
<1>7. DbOK(db)
  <2>1. IsFiniteSet({Core})
    BY FS_Singleton
  <2>2. /\ db.balance \in [Accounts -> [Assets -> Nat]]
        /\ \A x \in Accounts, a \in Assets \ {Core} : db.balance[x][a] = 0
    BY <1>2, <1>4
  <2>3. /\ db.supply \in [{Core} -> Int] /\ db.asset_pool \in [{Core} -> Int]
        /\ db.core_pool \in [{Core} -> Int] /\ db.options \in [{Core} \ {Core} -> OptionRecords]
    BY <1>2, <1>6
  <2>4. db.vestings \in Seq(VestingRecords) /\ DOMAIN db.vestings = {}
    BY <1>2
  <2>5. db.permit \subseteq Permits /\ db.pay_seconds \in Nat /\ db.paid \in Nat /\ db.pay_vb = {}
    BY <1>2, <1>4
  <2> QED
    BY <1>2, <1>4, <1>5, <2>1, <2>2, <2>3, <2>4, <2>5 DEF DbOK
<1>8. Excess(db, Core) = 0
  <2> DEFINE f == [x \in Accounts |-> db.balance[x][Core]]
  <2>1. f = Balance0
    BY <1>2, <1>4
  <2>2. Owned(db, Core) = SumFunctionOnSet(Balance0, Accounts)
    BY <2>1 DEF Owned
  <2>3. Vested(db.vestings, Core) = 0
    <3>1. DOMAIN db.vestings = {}
      BY <1>2
    <3> QED
      BY <3>1, SumEmpty DEF Vested
  <2>4. SumFunctionOnSet(db.core_pool, {Core}) = 0
    <3>1. \A a \in {Core} : db.core_pool[a] = 0
      BY <1>2
    <3> QED
      BY <3>1, FS_Singleton, SumZero
  <2>5. db.asset_pool[Core] = 0 /\ db.supply[Core] = SumFunctionOnSet(Balance0, Accounts) /\ db.paid = 0
    BY <1>2
  <2>6. Held(db, Core) = SumFunctionOnSet(Balance0, Accounts)
    BY <1>5, <1>6, <2>2, <2>3, <2>4, <2>5 DEF Held
  <2> QED
    BY <1>6, <2>5, <2>6 DEF Excess
<1>9. Good(db, made)
  BY <1>3, <1>5, <1>7, <1>8 DEF Good, Explained, Capped
<1>10. AllVest
  BY <1>2, <1>3 DEF AllVest
<1>11. PermitsOK
  <2>1. taken \in Takings
    BY <1>3 DEF Takings, Unused
  <2> QED
    BY <1>2, <2>1 DEF PermitsOK
<1> QED
  BY <1>3, <1>9, <1>10, <1>11 DEF Inv

(* Vesting balances that stay as they are. *)
LEMMA VestingsKept ==
  ASSUME AllVest, db'.vestings = db.vestings, UNCHANGED <<now, area, withdrawn>>
  PROVE  AllVest'
BY DEF AllVest

LEMMA PermitsKept ==
  ASSUME PermitsOK, db'.permit = db.permit, UNCHANGED <<now, taken>>
  PROVE  PermitsOK'
BY DEF PermitsOK

LEMMA PermitsReset ==
  ASSUME now \in Nat, Good(db', made'), UNCHANGED now,
         \E start \in Int, limit \in Nat \ {0} :
              /\ taken' = Unused(start)
              /\ \A p \in db'.permit : p.start = start /\ p.limit = limit /\ p.claimed \in Nat
  PROVE  PermitsOK'
<1>1. PICK start \in Int : taken' = Unused(start) /\ \A p \in db'.permit : p.start = start
  OBVIOUS
<1>2. \A p \in db'.permit : p \in Permits
  BY DEF Good, DbOK
<1>3. \A p \in db'.permit : PermitSteady(p, Unused(start), now)
  BY <1>1, <1>2, UnusedSteady
<1>4. Unused(start) \in Takings
  BY DEF Unused, Takings
<1> QED
  BY <1>1, <1>3, <1>4 DEF PermitsOK

LEMMA StepInv == Inv /\ [Next]_vars => Inv'
<1> SUFFICES ASSUME Inv, [Next]_vars PROVE Inv'
  OBVIOUS
<1> USE DEF Inv
<1>0. db.vestings \in Seq(VestingRecords)
  BY DEF Good, DbOK
<1>1. CASE UNCHANGED vars
  BY <1>1 DEF vars, ghosts, Good, DbOK, Explained, Excess, Held, Owned, Live, Capped, AllVest, PermitsOK
<1>2. ASSUME \/ asset_create
             \/ /\ \/ transfer \/ update_user_issued_asset \/ asset_issue \/ asset_reserve
                   \/ asset_fund_pools \/ asset_claim_fees
                /\ UNCHANGED made
      PROVE  Inv'
  <2>1. Good(db', made') /\ made' \in Nat /\ SameRest(db, db')
    BY <1>2, TransferGood, CreateAssetGood, UpdateAssetGood, IssueGood, ReserveGood, FundGood,
       ClaimFeesGood DEF SameRest
  <2>2. UNCHANGED <<now, ghosts>>
    BY <1>2 DEF transfer, asset_create, update_user_issued_asset, asset_issue, asset_reserve,
                asset_fund_pools, asset_claim_fees
  <2>3. AllVest'
    BY <2>1, <2>2, VestingsKept DEF SameRest, ghosts
  <2>4. PermitsOK'
    BY <2>1, <2>2, PermitsKept DEF SameRest, ghosts
  <2> QED
    BY <2>1, <2>2, <2>3, <2>4
<1>3. ASSUME withdraw_permission_create \/ withdraw_permission_update, UNCHANGED made PROVE Inv'
  <2>1. /\ Good(db', made') /\ made' \in Nat /\ db'.vestings = db.vestings
        /\ UNCHANGED <<now, area, withdrawn>>
        /\ \E start \in Int, limit \in Nat \ {0} :
              /\ taken' = Unused(start)
              /\ \A p \in db'.permit : p.start = start /\ p.limit = limit /\ p.claimed \in Nat
    BY <1>3, PermitCreateGood, PermitUpdateGood
  <2>2. AllVest'
    BY <2>1, VestingsKept
  <2>3. PermitsOK'
    BY <2>1, PermitsReset
  <2> QED
    BY <2>1, <2>2, <2>3
<1>4. CASE withdraw_permission_delete /\ UNCHANGED made
  <2>1. Good(db', made') /\ made' \in Nat /\ db'.vestings = db.vestings /\ db'.permit = {} /\ UNCHANGED <<now, area, withdrawn>>
    BY <1>4, PermitDeleteGood
  <2>2. AllVest'
    BY <2>1, VestingsKept
  <2>3. taken' = Unused(0)
    BY <1>4 DEF withdraw_permission_delete
  <2>4. PermitsOK'
    <3>1. Unused(0) \in Takings
      BY DEF Unused, Takings
    <3> QED
      BY <2>1, <2>3, <3>1 DEF PermitsOK
  <2> QED
    BY <2>1, <2>2, <2>4
<1>5. CASE withdraw_permission_claim /\ UNCHANGED made
  <2> DEFINE k == (now - taken.first) \div Period
  <2>1. /\ Good(db', made') /\ made' \in Nat /\ db'.vestings = db.vestings /\ UNCHANGED <<now, area, withdrawn>>
    BY <1>5, PermitClaimGood
  <2>2. PICK p \in db.permit, n \in Nat \ {0} :
          /\ n <= available_this_period(p, now)
          /\ db'.permit = {Claimed(p, now, n)}
          /\ taken' = [taken EXCEPT !.window = k, !.sum = IF k = taken.window THEN @ + n ELSE n]
    BY <1>5, PermitClaimGood
  <2>3. p \in Permits /\ taken \in Takings /\ PermitSteady(p, taken, now)
    BY DEF Good, DbOK, PermitsOK
  <2>6. k = (now - taken.first) \div Period
    OBVIOUS
  <2> HIDE DEF k
  <2>4. taken' \in Takings /\ PermitSteady(Claimed(p, now, n), taken', now)
    BY <2>2, <2>3, <2>6, ClaimSteady
  <2>5. AllVest'
    BY <2>1, VestingsKept
  <2>7. PermitsOK'
    BY <2>1, <2>2, <2>4 DEF PermitsOK
  <2> QED
    BY <2>1, <2>5, <2>7
<1>6. CASE vesting_balance_create /\ UNCHANGED made
  <2>1. /\ Good(db', made') /\ made' \in Nat /\ db'.permit = db.permit
        /\ area' = Append(area, 0) /\ withdrawn' = Append(withdrawn, 0) /\ UNCHANGED <<now, taken>>
    BY <1>6, CreateVestingGood
  <2>2. PICK v \in VestingRecords : /\ db'.vestings = Append(db.vestings, v)
                                    /\ v.earned = 0 /\ v.begin = v.balance /\ v.updated = now
    BY <1>6, CreateVestingGood
  <2>3. VestOK(v, 0, 0, now)
    BY <2>2, NewVests
  <2> DEFINE vs == db.vestings
             ws == db'.vestings
             l == Len(vs)
  <2>4. /\ Len(ws) = l + 1 /\ l \in Nat /\ ws[l + 1] = v /\ \A i \in 1 .. l : ws[i] = vs[i]
    BY <1>0, <2>2
  <2>5. /\ area' \in Seq(Nat) /\ Len(area') = l + 1 /\ area'[l + 1] = 0
        /\ \A i \in 1 .. l : area'[i] = area[i]
    BY <2>1, <2>4 DEF AllVest
  <2>6. /\ withdrawn' \in Seq(Nat) /\ Len(withdrawn') = l + 1 /\ withdrawn'[l + 1] = 0
        /\ \A i \in 1 .. l : withdrawn'[i] = withdrawn[i]
    BY <2>1, <2>4 DEF AllVest
  <2>7. ASSUME NEW i \in 1 .. (l + 1) PROVE VestOK(ws[i], area'[i], withdrawn'[i], now')
    <3>1. CASE i = l + 1
      BY <2>1, <2>3, <2>4, <2>5, <2>6, <3>1
    <3>2. CASE i \in 1 .. l
      <4>1. VestOK(vs[i], area[i], withdrawn[i], now)
        BY <3>2 DEF AllVest
      <4> QED
        BY <2>1, <2>4, <2>5, <2>6, <3>2, <4>1
    <3> QED
      BY <2>4, <3>1, <3>2
  <2>8. AllVest'
    BY <2>4, <2>5, <2>6, <2>7 DEF AllVest
  <2>9. PermitsOK'
    BY <2>1, PermitsKept
  <2> QED
    BY <2>1, <2>8, <2>9
<1>7. CASE vesting_balance_withdraw /\ UNCHANGED made
  <2>1. Good(db', made') /\ made' \in Nat /\ db'.permit = db.permit /\ UNCHANGED <<now, area, taken>>
    BY <1>7, WithdrawVestingGood
  <2>2. PICK i \in DOMAIN db.vestings, n \in Nat \ {0} :
          /\ n <= get_allowed_withdraw(db.vestings[i], now)
          /\ db'.vestings = [db.vestings EXCEPT ![i] = withdraw(db.vestings[i], now, n)]
          /\ withdrawn' = [withdrawn EXCEPT ![i] = @ + n]
    BY <1>7, WithdrawVestingGood
  <2> DEFINE vs == db.vestings
             ws == db'.vestings
             u == withdraw(vs[i], now, n)
  <2>3. i \in 1 .. Len(vs) /\ vs[i] \in VestingRecords /\ Len(vs) \in Nat
    BY <1>0
  <2>4. VestOK(vs[i], area[i], withdrawn[i], now) /\ withdrawn[i] \in Nat
    BY <2>3 DEF AllVest
  <2>5. VestOK(u, area[i], withdrawn[i] + n, now)
    BY <2>2, <2>3, <2>4, WithdrawVests
  <2> HIDE DEF u
  <2>6. Len(ws) = Len(vs) /\ ws[i] = u /\ \A j \in 1 .. Len(vs) : j # i => ws[j] = vs[j]
    BY <1>0, <2>2, <2>3 DEF u
  <2>7. /\ withdrawn' \in Seq(Nat) /\ Len(withdrawn') = Len(vs) /\ withdrawn'[i] = withdrawn[i] + n
        /\ \A j \in 1 .. Len(vs) : j # i => withdrawn'[j] = withdrawn[j]
    BY <2>2, <2>3, <2>4 DEF AllVest
  <2>8. ASSUME NEW j \in 1 .. Len(vs) PROVE VestOK(ws[j], area'[j], withdrawn'[j], now')
    <3>1. CASE j = i
      BY <2>1, <2>5, <2>6, <2>7, <3>1
    <3>2. CASE j # i
      <4>1. VestOK(vs[j], area[j], withdrawn[j], now)
        BY DEF AllVest
      <4> QED
        BY <2>1, <2>6, <2>7, <3>2, <4>1
    <3> QED
      BY <3>1, <3>2
  <2>9. AllVest'
    BY <2>1, <2>6, <2>7, <2>8 DEF AllVest
  <2>10. PermitsOK'
    BY <2>1, PermitsKept
  <2> QED
    BY <2>1, <2>9, <2>10
<1>8. CASE EndBlock /\ UNCHANGED made
  <2> DEFINE vs == db.vestings
             ws == db'.vestings
             l == Len(vs)
             t == now'
             zeros == [i \in 1 .. (Len(ws) - l) |-> 0]
             held == [i \in DOMAIN area |-> area[i] + vs[i].balance * (t - now)]
  <2>1. /\ Good(db', made') /\ made' \in Nat /\ t \in Nat /\ now < t
        /\ \A p \in db'.permit : p \in db.permit /\ taken' = taken
        /\ PaidVestings(t)
        /\ area' = held \o zeros
        /\ withdrawn' = withdrawn \o zeros
    BY <1>8, EndBlockGood
  <2>2. ws \in Seq(VestingRecords)
    BY <2>1 DEF Good, DbOK
  <2>3. l \in Nat /\ Len(ws) \in {l, l + 1}
    BY <1>0, <2>1 DEF PaidVestings
  <2> DEFINE k == Len(ws) - l
  <2>4. k \in {0, 1} /\ Len(ws) = l + k /\ zeros \in Seq(Nat) /\ Len(zeros) = k /\ \A i \in 1 .. k : zeros[i] = 0
    <3>1. k \in {0, 1} /\ Len(ws) = l + k
      BY <2>3
    <3>2. zeros = [i \in 1 .. k |-> 0] /\ k \in Nat
      BY <3>1
    <3> HIDE DEF k, zeros
    <3>3. zeros \in [1 .. k -> Nat]
      BY <3>2
    <3>4. zeros \in Seq(Nat) /\ Len(zeros) = k
      BY <3>2, <3>3
    <3> QED
      BY <3>1, <3>2, <3>4
  <2>5. ASSUME NEW i \in 1 .. l
        PROVE  /\ vs[i] \in VestingRecords /\ VestOK(vs[i], area[i], withdrawn[i], now)
               /\ area[i] \in Nat /\ vs[i].balance * (t - now) \in Nat
    <3>1. vs[i] \in VestingRecords /\ VestOK(vs[i], area[i], withdrawn[i], now) /\ area[i] \in Nat
      BY <1>0 DEF AllVest
    <3>2. vs[i].balance \in Nat
      BY <3>1, VestingFields
    <3> QED
      BY <2>1, <3>1, <3>2
  <2>6. DOMAIN area = 1 .. l /\ withdrawn \in Seq(Nat) /\ Len(withdrawn) = l
    BY DEF AllVest
  <2>7. held \in Seq(Nat) /\ Len(held) = l /\ \A i \in 1 .. l : held[i] = area[i] + vs[i].balance * (t - now)
    <3>1. held \in [1 .. l -> Nat]
      BY <2>5, <2>6
    <3>2. \A i \in 1 .. l : held[i] = area[i] + vs[i].balance * (t - now)
      BY <2>6
    <3> HIDE DEF held
    <3> QED
      BY <2>3, <3>1, <3>2
  <2> HIDE DEF held, zeros, k
  <2>8. /\ area' \in Seq(Nat) /\ Len(area') = Len(ws)
        /\ \A i \in 1 .. l : area'[i] = held[i]
        /\ \A i \in 1 .. Len(ws) \ 1 .. l : area'[i] = 0
    BY <2>1, <2>3, <2>4, <2>7
  <2>9. /\ withdrawn' \in Seq(Nat) /\ Len(withdrawn') = Len(ws)
        /\ \A i \in 1 .. l : withdrawn'[i] = withdrawn[i]
        /\ \A i \in 1 .. Len(ws) \ 1 .. l : withdrawn'[i] = 0
    BY <2>1, <2>3, <2>4, <2>6
  <2>10. ASSUME NEW i \in 1 .. Len(ws) PROVE VestOK(ws[i], area'[i], withdrawn'[i], t)
    <3>1. CASE i \in 1 .. l
      <4>1. VestOK(vs[i], held[i], withdrawn[i], t)
        BY <2>1, <2>5, <2>7, <3>1, TimeVests
      <4>2. CASE ws[i] = vs[i]
        BY <2>8, <2>9, <3>1, <4>1, <4>2
      <4>3. CASE vs[i].kind = "cdd" /\ \E n \in Nat : ws[i] = deposit(vs[i], t, n)
        <5>1. PICK n \in Nat : ws[i] = deposit(vs[i], t, n)
          BY <4>3
        <5>3. VestOK(deposit(vs[i], t, n), area[i] + vs[i].balance * (t - now), withdrawn[i], t)
          BY <2>1, <2>5, <3>1, <4>3, DepositVests
        <5>2. VestOK(deposit(vs[i], t, n), held[i], withdrawn[i], t)
          BY <2>7, <3>1, <5>3
        <5> QED
          BY <2>8, <2>9, <3>1, <5>1, <5>2
      <4> QED
        BY <2>1, <3>1, <4>2, <4>3 DEF PaidVestings
    <3>2. CASE i \notin 1 .. l
      <4>1. ws[i] \in VestingRecords
        BY <2>2
      <4>2. ws[i].earned = 0 /\ ws[i].begin = ws[i].balance /\ ws[i].updated = t
        BY <2>1, <3>2 DEF PaidVestings
      <4>3. VestOK(ws[i], 0, 0, t)
        BY <2>1, <4>1, <4>2, NewVests
      <4> QED
        BY <2>8, <2>9, <3>2, <4>3
    <3> QED
      BY <3>1, <3>2
  <2>11. AllVest'
    BY <2>8, <2>9, <2>10 DEF AllVest
  <2>12. PermitsOK'
    <3>1. taken' \in Takings
      BY <1>8 DEF EndBlock, PermitsOK, Unused, Takings
    <3>2. ASSUME NEW p \in db'.permit PROVE PermitSteady(p, taken', t)
      <4>1. p \in Permits /\ PermitSteady(p, taken, now)
        BY <2>1 DEF Good, DbOK, PermitsOK
      <4> QED
        BY <2>1, <4>1, TimeSteady
    <3> QED
      BY <3>1, <3>2 DEF PermitsOK
  <2> QED
    BY <2>1, <2>11, <2>12
<1> QED
  BY <1>1, <1>2, <1>3, <1>4, <1>5, <1>6, <1>7, <1>8 DEF Next, OtherStep

(* The invariant the evaluators keep together: money adds up, every        *)
(* vesting balance has earned what it paid, every permission keeps to its  *)
(* period.                                                                 *)
THEOREM LedgerInvariance == Spec => []Inv
BY InitInv, StepInv, PTL DEF Spec

(* Money is neither made nor lost in any asset, and no asset is issued     *)
(* beyond its maximum: Excess stays what asset_create_evaluator made of    *)
(* odd fees and of fees in other assets, and of nothing else, through fees *)
(* in any asset and at any rate, pools, vesting balances and miners' pay.  *)
THEOREM SupplyTheorem == Spec => []SupplyExplained
<1>1. Inv => SupplyExplained
  <2> SUFFICES ASSUME Inv, NEW a \in Live(db)
               PROVE  /\ Held(db, a) = db.supply[a] + (IF a = Core THEN db.paid + made ELSE 0)
                      /\ a # Core => db.supply[a] <= db.options[a].max
    BY DEF SupplyExplained
  <2>1. DbOK(db) /\ made \in Nat /\ Excess(db, a) = (IF a = Core THEN made ELSE 0) /\ Capped(db)
    BY DEF Inv, Good, Explained
  <2>2. /\ db.asset_pool[a] \in Int /\ db.supply[a] \in Int /\ db.paid \in Int
        /\ Owned(db, a) \in Int /\ Vested(db.vestings, a) \in Int
        /\ SumFunctionOnSet(db.core_pool, Live(db)) \in Int
    BY <2>1, HeldParts
  <2>3. Held(db, a) \in Int
    BY <2>2 DEF Held
  <2>4. Held(db, a) = db.supply[a] + (IF a = Core THEN db.paid + made ELSE 0)
    BY <2>1, <2>2, <2>3 DEF Excess
  <2> QED
    BY <2>1, <2>4 DEF Capped
<1> QED
  BY <1>1, LedgerInvariance, PTL

(* No vesting balance pays out early, whatever its policy, the deposits    *)
(* and the withdrawals. *)
THEOREM VestingTheorem == Spec => []NothingVestsEarly
<1>1. Inv => NothingVestsEarly
  <2> SUFFICES ASSUME Inv, NEW i \in DOMAIN db.vestings
               PROVE  LET v == db.vestings[i]
                          elapsed == now - v.start
                      IN  /\ v.balance >= 0 /\ get_allowed_withdraw(v, now) \in 0..v.balance
                          /\ withdrawn[i] > 0 =>
                               IF v.kind = "cdd"
                               THEN elapsed > 0 /\ withdrawn[i] * AtLeastOne(v.seconds) <= area[i]
                               ELSE /\ elapsed > 0 /\ elapsed >= v.cliff
                                    /\ elapsed >= v.seconds \/ withdrawn[i] * v.seconds <= v.begin * elapsed
    BY DEF NothingVestsEarly
  <2> DEFINE v == db.vestings[i]
             S == AtLeastOne(v.seconds)
  <2>1. db.vestings \in Seq(VestingRecords) /\ now \in Nat
    BY DEF Inv, Good, DbOK
  <2>9. i \in 1 .. Len(db.vestings)
    BY <2>1
  <2>2. v \in VestingRecords /\ VestOK(v, area[i], withdrawn[i], now)
    BY <2>1, <2>9 DEF Inv, AllVest
  <2> HIDE DEF v
  <2>3. /\ v.earned \in Nat /\ v.balance \in Nat /\ v.updated \in Nat /\ v.seconds \in Nat
        /\ v.start \in Nat /\ v.begin \in Nat /\ v.cliff \in Nat /\ v.kind \in {"cdd", "linear"}
        /\ S \in Nat \ {0}
    BY <2>2, VestingFields
  <2>4. get_allowed_withdraw(v, now) \in 0..v.balance
    BY <2>1, <2>2, AllowedInRange
  <2>5. area[i] \in Nat /\ withdrawn[i] \in Nat /\ v.updated <= now
    BY <2>2 DEF VestOK
  <2>6. ASSUME withdrawn[i] > 0, v.kind = "cdd"
        PROVE  now - v.start > 0 /\ withdrawn[i] * S <= area[i]
    <3>1. CoinDaysOK(v, area[i], withdrawn[i], now)
      BY <2>2, <2>6 DEF VestOK
    <3>2. v.balance * (now - v.updated) \in Nat
      BY <2>1, <2>3, <2>5
    <3>3. v.earned + v.balance * (now - v.updated) + withdrawn[i] * S <= area[i] /\ now > v.start
      BY <2>6, <3>1 DEF CoinDaysOK
    <3> DEFINE w == withdrawn[i] * S
               m == v.balance * (now - v.updated)
    <3>4. w \in Nat
      <4> HIDE DEF S
      <4> QED
        BY <2>3, <2>5
    <3>5. m \in Nat /\ v.earned + m + w <= area[i]
      BY <3>2, <3>3
    <3> HIDE DEF w, m
    <3>6. w <= area[i]
      BY <2>3, <2>5, <3>4, <3>5
    <3>7. now - v.start > 0
      BY <2>1, <2>3, <3>3
    <3> QED
      BY <3>6, <3>7 DEF w
  <2>7. ASSUME withdrawn[i] > 0, v.kind # "cdd"
        PROVE  /\ now - v.start > 0 /\ now - v.start >= v.cliff
               /\ now - v.start >= v.seconds \/ withdrawn[i] * v.seconds <= v.begin * (now - v.start)
    <3>1. LinearOK(v, withdrawn[i], now)
      BY <2>2, <2>3, <2>7 DEF VestOK
    <3>2. now > v.start
      BY <2>7, <3>1 DEF LinearOK
    <3>3. now - v.start > 0
      BY <2>1, <2>3, <3>2
    <3> QED
      BY <2>7, <3>1, <3>3 DEF LinearOK
  <2>8. v.balance >= 0
    BY <2>3
  <2> QED
    BY <2>4, <2>6, <2>7, <2>8 DEF v
<1> QED
  BY <1>1, LedgerInvariance, PTL

(* Nobody takes more than the limit of a withdraw permission in a period,  *)
(* however claims fall around the start of periods and of the permission. *)
THEOREM PermissionTheorem == Spec => []PeriodLimited
<1>1. Inv => PeriodLimited
  BY DEF Inv, PermitsOK, PermitSteady, PeriodLimited
<1> QED
  BY <1>1, LedgerInvariance, PTL
=============================================================================
