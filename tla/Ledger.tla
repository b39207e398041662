------------------------------- MODULE Ledger -------------------------------
(***************************************************************************)
(* Money: balances, fees in any exchangeable asset and the pools that       *)
(* convert them, assets that users issue, vesting balances and withdraw     *)
(* permissions (evaluator.hpp, evaluator.cpp, db_balance.cpp,               *)
(* transfer_evaluator.cpp, asset_evaluator.cpp, vesting_balance_*.cpp,      *)
(* withdraw_permission_evaluator.cpp).                                      *)
(*                                                                          *)
(* db is the object database.  An evaluation gives the set of databases it  *)
(* can end in: none when it throws.  What a miner earns with a block is an  *)
(* input here; module MinerSchedule has the budget it comes from.  area,    *)
(* withdrawn, taken and made only record what happened.                     *)
(***************************************************************************)
EXTENDS Integers, Sequences, FiniteSets, FiniteSetsExt

CONSTANTS
  Accounts,
  Assets,          \* the core asset and those that users may issue
  Core,            \* asset_id_type()
  Signer,          \* the account of the miner that signs the blocks
  Grantor,         \* gives the withdraw permission ...
  Grantee,         \* ... to this account
  Balance0,        \* initial core balances
  Options,         \* what an issuer may ask of an asset: [issuer, max,
                   \* exchangeable, fixed, core, units], where core for units
                   \* is the core_exchange_rate
  Amounts,         \* amounts an operation may name
  Fees,            \* fees it may pay: [asset, amount]
  CreationFees,    \* fees the creation of an asset may pay
  Policies,        \* vesting policies: [kind, seconds, start, cliff]
  PaySeconds,      \* values of miner_pay_vesting_seconds
  Pays,            \* what a miner may earn with a block
  Limits, Period,  \* of a withdraw permission
  Periods,         \* periods_until_expiration
  MaxVestings,     \* bound: vesting balances ever created
  MaxPaid,         \* bound: what the miner is ever paid
  MaxTime          \* bound: head block time

ASSUME LedgerAssumption ==
  /\ Core \in Assets /\ {Signer, Grantor, Grantee} \subseteq Accounts
  /\ Grantor # Grantee
  /\ IsFiniteSet(Accounts) /\ Balance0 \in [Accounts -> Nat]
  /\ Fees \cup CreationFees \subseteq [asset : Assets, amount : Nat]
  /\ Options \subseteq [issuer : Accounts, max : Nat, exchangeable : BOOLEAN, fixed : BOOLEAN,
                        core : Nat \ {0}, units : Nat \ {0}]
  /\ Policies \subseteq [kind : {"cdd", "linear"}, seconds : Nat, start : Nat, cliff : Nat]
  /\ {MaxVestings, MaxPaid, MaxTime, Periods} \subseteq Nat
  /\ PaySeconds \cup Pays \subseteq Nat
  /\ Amounts \cup Limits \cup {Period} \subseteq Nat \ {0}

VARIABLES
  now,        \* head_block_time
  db,         \* the objects, see Init
  area,       \* per vesting balance: coin seconds held so far
  withdrawn,  \* per vesting balance: amount withdrawn so far
  taken,      \* claims since the permission was last set: [first, window, sum]
  made        \* core that creations of assets have made of nothing

ghosts == <<area, withdrawn, taken>>
vars == <<now, db, ghosts, made>>

UIAs == Assets \ {Core}
Live(d) == DOMAIN d.supply

-----------------------------------------------------------------------------
(* Balances and fees.                                                       *)

\* database::adjust_balance.
adjust_balance(d, account, asset, delta) ==
  IF d.balance[account][asset] + delta < 0 THEN {}
  ELSE {[d EXCEPT !.balance[account][asset] = @ + delta]}

Then(ds, Do(_)) == UNION {Do(d) : d \in ds}

\* generic_evaluator::prepare_fee: the fee in core, and whether the pool has it.
CoreFee(d, fee) ==
  IF fee.asset = Core THEN fee.amount
  ELSE (fee.amount * d.options[fee.asset].core) \div d.options[fee.asset].units

FeeAllowed(d, fee) ==
  /\ fee.asset \in Live(d)
  /\ fee.asset # Core => d.options[fee.asset].exchangeable /\ CoreFee(d, fee) <= d.core_pool[fee.asset]

\* A conversion that leaves the core pool as it was.
convert_fee_one_sided(d, fee, paid) ==
  IF fee.asset = Core THEN d ELSE [d EXCEPT !.asset_pool[fee.asset] = @ + fee.amount]

\* generic_evaluator::convert_fee, with core_fee_paid as the evaluator leaves it.
convert_fee(d, fee, paid) ==
  IF fee.asset = Core THEN d
  ELSE [d EXCEPT !.asset_pool[fee.asset] = @ + fee.amount, !.core_pool[fee.asset] = @ - paid]

pay_fee(d, paid) == [d EXCEPT !.asset_pool[Core] = @ + paid]

\* evaluator::apply: the fee is taken from its payer after the operation.
apply(d, payer, fee, paid, Do(_)) ==
  Then(Do(pay_fee(convert_fee(d, fee, paid), paid)),
       LAMBDA x : adjust_balance(x, payer, fee.asset, -fee.amount))

Operation(payer, Do(_)) ==
  \E fee \in Fees :
    /\ FeeAllowed(db, fee)
    /\ db' \in apply(db, payer, fee, CoreFee(db, fee), Do)

Move(d, from, to, asset, n) ==
  Then(adjust_balance(d, from, asset, -n), LAMBDA x : adjust_balance(x, to, asset, n))

transfer ==
  \E from, to \in Accounts, asset \in Live(db), n \in Amounts :
    /\ from # to
    /\ db.balance[from][asset] >= n
    /\ Operation(from, LAMBDA d : Move(d, from, to, asset, n))
    /\ UNCHANGED <<now, ghosts>>

-----------------------------------------------------------------------------
(* Assets.                                                                  *)

Grow(f, a, v) == [x \in DOMAIN f \cup {a} |-> IF x = a THEN v ELSE f[x]]

\* asset_create_evaluator halves core_fee_paid, rounding up, and gives the new
\* asset that half as its core pool; the same half is the fee that is paid.  It
\* comes to more than the fee when that is odd, and twice when it is in another
\* asset, whose pool gives only one half of it.
asset_create ==
  \E a \in UIAs \ Live(db), fee \in CreationFees, o \in Options :
    LET half == CoreFee(db, fee) - CoreFee(db, fee) \div 2
        New(d) == {[d EXCEPT !.supply = Grow(@, a, 0), !.asset_pool = Grow(@, a, 0),
                             !.core_pool = Grow(@, a, half), !.options = Grow(@, a, o)]}
    IN  /\ FeeAllowed(db, fee)
        /\ db' \in apply(db, o.issuer, fee, half, New)
        /\ made' = made + (IF fee.asset = Core THEN fee.amount % 2 ELSE half)
        /\ UNCHANGED <<now, ghosts>>

\* new_issuer is optional: then o has the issuer of before.
update_user_issued_asset ==
  \E a \in UIAs \cap Live(db), o \in Options :
    LET old == db.options[a]
    IN  /\ o.max >= db.supply[a]
        /\ old.fixed => o.max = old.max
        /\ Operation(old.issuer, LAMBDA d : {[d EXCEPT !.options[a] = [o EXCEPT !.fixed = old.fixed]]})
        /\ UNCHANGED <<now, ghosts>>

asset_issue ==
  \E a \in UIAs \cap Live(db), to \in Accounts, n \in Amounts :
    /\ db.supply[a] + n <= db.options[a].max
    /\ Operation(db.options[a].issuer,
                 LAMBDA d : Then(adjust_balance(d, to, a, n), LAMBDA x : {[x EXCEPT !.supply[a] = @ + n]}))
    /\ UNCHANGED <<now, ghosts>>

\* The core asset can be reserved like any other.
asset_reserve ==
  \E a \in Live(db), payer \in Accounts, n \in Amounts :
    /\ db.supply[a] >= n
    /\ Operation(payer, LAMBDA d : Then(adjust_balance(d, payer, a, -n),
                                        LAMBDA x : {[x EXCEPT !.supply[a] = @ - n]}))
    /\ UNCHANGED <<now, ghosts>>

\* What one side of a pool operation moves: uia of the asset a and dct of core.
ToPools(d, account, a, uia, dct) ==
  Then(Then(adjust_balance(d, account, a, -uia), LAMBDA x : adjust_balance(x, account, Core, -dct)),
       LAMBDA x : {[x EXCEPT !.asset_pool[a] = @ + uia, !.core_pool[a] = @ + dct]})

\* Its fee has to be in core.
asset_fund_pools ==
  \E a \in UIAs \cap Live(db), from \in Accounts, uia, dct \in Amounts \cup {0}, fee \in Fees :
    /\ uia + dct > 0 /\ fee.asset = Core
    /\ uia <= db.balance[from][a] /\ dct <= db.balance[from][Core]
    /\ db' \in apply(db, from, fee, fee.amount, LAMBDA d : ToPools(d, from, a, uia, dct))
    /\ UNCHANGED <<now, ghosts>>

\* What the pools hold is compared before the fee of the claim is converted.
asset_claim_fees ==
  \E a \in UIAs \cap Live(db), uia, dct \in Amounts \cup {0} :
    /\ uia + dct > 0
    /\ uia <= db.asset_pool[a] /\ dct <= db.core_pool[a]
    /\ Operation(db.options[a].issuer, LAMBDA d : ToPools(d, db.options[a].issuer, a, -uia, -dct))
    /\ UNCHANGED <<now, ghosts>>

-----------------------------------------------------------------------------
(* Vesting balances: [owner, asset, balance, kind, seconds, start, cliff,   *)
(* begin, earned, updated].  seconds is vesting_seconds or, of a linear     *)
(* policy, vesting_duration_seconds; start is start_claim or                *)
(* begin_timestamp.                                                         *)

AtLeastOne(n) == Max({n, 1})

\* cdd_vesting_policy::compute_coin_seconds_earned.
compute_coin_seconds_earned(v, t) ==
  Min({v.earned + v.balance * (t - v.updated), v.balance * AtLeastOne(v.seconds)})

update_coin_seconds_earned(v, t) ==
  [v EXCEPT !.earned = compute_coin_seconds_earned(v, t), !.updated = t]

\* linear_vesting_policy::get_allowed_withdraw and cdd_vesting_policy's.
get_allowed_withdraw(v, t) ==
  LET elapsed == t - v.start
      vested == IF elapsed < v.seconds THEN (v.begin * elapsed) \div v.seconds ELSE v.begin
  IN  IF v.kind = "linear"
      THEN IF elapsed > 0 /\ elapsed >= v.cliff THEN vested - (v.begin - v.balance) ELSE 0
      ELSE IF t <= v.start THEN 0
      ELSE compute_coin_seconds_earned(v, t) \div AtLeastOne(v.seconds)

\* vesting_balance_object::withdraw.
withdraw(v, t, n) ==
  LET u == update_coin_seconds_earned(v, t)
  IN  [(IF v.kind = "cdd" THEN [u EXCEPT !.earned = @ - n * AtLeastOne(v.seconds)] ELSE v)
         EXCEPT !.balance = @ - n]

\* A deposit that does not bring the coin seconds up to date first.
deposit_unearned(v, t, n) == [v EXCEPT !.balance = @ + n]

\* vesting_balance_object::deposit, of coin days.
deposit(v, t, n) == [update_coin_seconds_earned(v, t) EXCEPT !.balance = @ + n]

vesting_balance_create ==
  \E creator, owner \in Accounts, asset \in Live(db), n \in Amounts, policy \in Policies :
    LET v == [owner |-> owner, asset |-> asset, balance |-> n, kind |-> policy.kind,
              seconds |-> policy.seconds, start |-> policy.start, cliff |-> policy.cliff,
              begin |-> n, earned |-> 0, updated |-> now]
    IN  /\ Len(db.vestings) < MaxVestings
        /\ db.balance[creator][asset] >= n
        /\ Operation(creator, LAMBDA d : Then(adjust_balance(d, creator, asset, -n),
                                             LAMBDA x : {[x EXCEPT !.vestings = Append(@, v)]}))
        /\ area' = Append(area, 0) /\ withdrawn' = Append(withdrawn, 0)
        /\ UNCHANGED <<now, taken>>

vesting_balance_withdraw ==
  \E i \in DOMAIN db.vestings, n \in Amounts :
    LET v == db.vestings[i]
    IN  /\ n <= get_allowed_withdraw(v, now)
        /\ Operation(v.owner, LAMBDA d : adjust_balance([d EXCEPT !.vestings[i] = withdraw(@, now, n)],
                                                       v.owner, v.asset, n))
        /\ withdrawn' = [withdrawn EXCEPT ![i] = @ + n]
        /\ UNCHANGED <<now, area, taken>>

\* database::deposit_miner_pay and deposit_lazy_vesting: a balance that vests in
\* another time than miners are now paid with is left behind.
deposit_miner_pay(d, t, n) ==
  LET reusable == {i \in d.pay_vb : d.vestings[i].seconds = d.pay_seconds}
      v == [owner |-> Signer, asset |-> Core, balance |-> n, kind |-> "cdd",
            seconds |-> d.pay_seconds, start |-> 0, cliff |-> 0, begin |-> n, earned |-> 0, updated |-> t]
  IN  IF n = 0 THEN d
      ELSE IF reusable # {}
      THEN [d EXCEPT !.vestings = [i \in DOMAIN @ |-> IF i \in reusable THEN deposit(@[i], t, n) ELSE @[i]]]
      ELSE [d EXCEPT !.vestings = Append(@, v), !.pay_vb = {Len(d.vestings) + 1}]

-----------------------------------------------------------------------------
(* The withdraw permission for the core asset: a set of at most one of      *)
(* [limit, start, expiration, claimed].                                     *)

available_this_period(p, t) ==
  IF t >= p.start + Period THEN p.limit ELSE Max({p.limit - p.claimed, 0})

\* Integer division of the code: towards zero.
Quotient(a, b) == IF a >= 0 THEN a \div b ELSE -((-a) \div b)

\* A claim that leaves the start of the period where it was.
Claimed_in_place(p, t, n) ==
  [p EXCEPT !.claimed = IF Quotient(t - p.start, Period) = 0 THEN @ + n ELSE n]

\* withdraw_permission_claim_evaluator::do_apply.
Claimed(p, t, n) ==
  LET periods == Quotient(t - p.start, Period)
  IN  [p EXCEPT !.start = @ + periods * Period,
                !.claimed = IF periods = 0 THEN @ + n ELSE n]

Unused(start) == [first |-> start, window |-> 0, sum |-> 0]

withdraw_permission_create ==
  \E start \in now + 1..MaxTime, limit \in Limits :
    LET p == [limit |-> limit, start |-> start, expiration |-> start + Periods * Period, claimed |-> 0]
    IN  /\ db.permit = {}
        /\ p.expiration > now
        /\ Operation(Grantor, LAMBDA d : {[d EXCEPT !.permit = {p}]})
        /\ taken' = Unused(start)
        /\ UNCHANGED <<now, area, withdrawn>>

\* An update keeps claimed_this_period.
withdraw_permission_update ==
  \E q \in db.permit, start \in now..MaxTime, limit \in Limits :
    LET p == [q EXCEPT !.limit = limit, !.start = start, !.expiration = start + Periods * Period]
    IN  /\ p.expiration > now
        /\ Operation(Grantor, LAMBDA d : {[d EXCEPT !.permit = {p}]})
        /\ taken' = Unused(start)
        /\ UNCHANGED <<now, area, withdrawn>>

withdraw_permission_claim ==
  \E p \in db.permit, n \in Amounts :
    LET k == (now - taken.first) \div Period
    IN  /\ p.expiration > now
        /\ n <= available_this_period(p, now)
        /\ db.balance[Grantor][Core] >= n
        /\ Operation(Grantee, LAMBDA d : Move([d EXCEPT !.permit = {Claimed(p, now, n)}],
                                             Grantor, Grantee, Core, n))
        /\ taken' = [taken EXCEPT !.window = k, !.sum = IF k = taken.window THEN @ + n ELSE n]
        /\ UNCHANGED <<now, area, withdrawn>>

withdraw_permission_delete ==
  /\ db.permit # {}
  /\ Operation(Grantor, LAMBDA d : {[d EXCEPT !.permit = {}]})
  /\ taken' = Unused(0)
  /\ UNCHANGED <<now, area, withdrawn>>

update_withdraw_permissions(d, t) == [d EXCEPT !.permit = {p \in @ : p.expiration > t}]

-----------------------------------------------------------------------------
\* The end of _apply_block at the new head time t: the miner is paid, expired
\* permissions go, and after an election miners may be paid in another time.
EndBlock ==
  \E t \in now + 1..MaxTime, n \in Pays, seconds \in PaySeconds :
    LET paid == deposit_miner_pay(db, t, n)
        d == update_withdraw_permissions(paid, t)
        new == [i \in 1..Len(d.vestings) - Len(db.vestings) |-> 0]
    IN  /\ db.paid + n <= MaxPaid /\ Len(d.vestings) <= MaxVestings
        /\ now' = t
        /\ db' = [d EXCEPT !.paid = @ + n, !.pay_seconds = seconds]
        /\ area' = [i \in DOMAIN area |-> area[i] + db.vestings[i].balance * (t - now)] \o new
        /\ withdrawn' = withdrawn \o new
        /\ taken' = IF d.permit = {} THEN Unused(0) ELSE taken

Init ==
  /\ now = 0
  /\ \E seconds \in PaySeconds :
       db = [balance |-> [x \in Accounts |-> [a \in Assets |-> IF a = Core THEN Balance0[x] ELSE 0]],
             supply |-> [a \in {Core} |-> SumFunctionOnSet(Balance0, Accounts)],
             asset_pool |-> [a \in {Core} |-> 0],
             core_pool |-> [a \in {Core} |-> 0],
             options |-> [a \in {} |-> 0],
             vestings |-> <<>>,
             permit |-> {},
             pay_vb |-> {},           \* the miner's pay_vb, an optional id
             pay_seconds |-> seconds, \* miner_pay_vesting_seconds
             paid |-> 0]              \* what the miner was paid so far
  /\ area = <<>> /\ withdrawn = <<>> /\ taken = Unused(0) /\ made = 0

OtherStep ==
  \/ transfer
  \/ update_user_issued_asset \/ asset_issue \/ asset_reserve
  \/ asset_fund_pools \/ asset_claim_fees
  \/ vesting_balance_create \/ vesting_balance_withdraw
  \/ withdraw_permission_create \/ withdraw_permission_update
  \/ withdraw_permission_claim \/ withdraw_permission_delete
  \/ EndBlock

Next == asset_create \/ (OtherStep /\ UNCHANGED made)

Spec == Init /\ [][Next]_vars

-----------------------------------------------------------------------------
(* Properties.                                                              *)

\* What accounts, pools and vesting balances hold of an asset.
Owned(d, a) == SumFunctionOnSet([x \in Accounts |-> d.balance[x][a]], Accounts)

Vested(vs, a) ==
  SumFunctionOnSet([i \in DOMAIN vs |-> IF vs[i].asset = a THEN vs[i].balance ELSE 0], DOMAIN vs)

Held(d, a) ==
  Owned(d, a) + d.asset_pool[a] + Vested(d.vestings, a)
    + (IF a = Core THEN SumFunctionOnSet(d.core_pool, Live(d)) ELSE 0)

\* Money is neither made nor lost, asset by asset, whatever fee is paid in
\* which asset: the recorded supply, and of core what miners were paid since, is
\* what accounts, pools and vesting balances hold.  The one exception is exact:
\* a creation of an asset makes one core of an odd fee in core, and half a fee
\* in another asset.  No more of an asset is out than its issuer allowed.
SupplyExplained ==
  \A a \in Live(db) :
    /\ Held(db, a) = db.supply[a] + (IF a = Core THEN db.paid + made ELSE 0)
    /\ a # Core => db.supply[a] <= db.options[a].max

\* No vesting balance pays out early: of coin days no more than was held for
\* the vesting time, through all deposits and withdrawals and however rarely
\* the coin seconds are brought up to date; of a linear policy no more than its
\* share of the time that passed, and nothing before the cliff.
NothingVestsEarly ==
  \A i \in DOMAIN db.vestings :
    LET v == db.vestings[i]
        elapsed == now - v.start
    IN  /\ v.balance >= 0 /\ get_allowed_withdraw(v, now) \in 0..v.balance
        /\ withdrawn[i] > 0 =>
             IF v.kind = "cdd"
             THEN elapsed > 0 /\ withdrawn[i] * AtLeastOne(v.seconds) <= area[i]
             ELSE /\ elapsed > 0 /\ elapsed >= v.cliff
                  /\ elapsed >= v.seconds \/ withdrawn[i] * v.seconds <= v.begin * elapsed

\* withdraw_permission_object: "the total amount withdrawn per period does not
\* exceed the limit for any given period".  Periods are counted from the start
\* the permission was last given, also before it and after periods without a
\* claim; what was claimed before an update is not counted.
PeriodLimited == \A p \in db.permit : taken.sum <= p.limit
=============================================================================
