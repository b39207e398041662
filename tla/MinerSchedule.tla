---------------------------- MODULE MinerSchedule ----------------------------
(***************************************************************************)
(* Slots, miners, the last irreversible block, maintenance and the miner    *)
(* budget: what applying a block does besides its transactions              *)
(* (db_miner_schedule.cpp, db_update.cpp, db_maint.cpp, the reward part of  *)
(* db_decent.cpp) and the block production plugin that asks for a slot      *)
(* (plugins/miner/miner.cpp).                                               *)
(*                                                                          *)
(* Time is in seconds and need not fall on slot boundaries: a block is      *)
(* valid at any second of its miner's slot.  Two statistics the code writes *)
(* and never reads are left out (total_missed, recently_missed_count), and  *)
(* so are checkpoints.  Money that is not in the pool of collected fees is  *)
(* one number, real; module Ledger has the accounts.                        *)
(***************************************************************************)
EXTENDS Integers, Sequences, FiniteSets, SequencesExt, FiniteSetsExt

CONSTANTS
  Miners,          \* miner objects, numbered as their vote ids
  Stakeholders,    \* accounts that vote
  Stake,           \* [Stakeholders -> Nat], their core balances
  Opinions,        \* opinions they may publish: [votes, num_miner]
  Opinion0,        \* the opinion everybody starts with
  MinMiners,       \* min_miner_count of the genesis state
  Active0,         \* initial active miners
  Parameters,      \* chain parameters that may be voted in
  Parameters0,     \* those of the genesis state
  GenesisTime,
  Switches,        \* blocks at which the reward changes (DECENT_SPLIT_*)
  Rewards,         \* the reward before each of them and after the last
  Fees,            \* fees a transaction may pay
  Supply0,         \* core supply of the genesis state
  MaxUndoHistory,  \* GRAPHENE_MAX_UNDO_HISTORY
  Threshold,       \* GRAPHENE_IRREVERSIBLE_THRESHOLD, in percent
  Window,          \* slots remembered in recent_slots_filled (128)
  Required,        \* percent of them a producer requires to be filled
  OwnMiners,       \* miners the local plugin produces for
  StaleProduction, \* --enable-stale-production
  Word,            \* bound of the 32-bit block count (2^32)
  MaxHead,         \* bound: blocks applied
  MaxTime          \* bound: last second considered

ASSUME ScheduleAssumption ==
  /\ Miners \subseteq Nat /\ IsFiniteSet(Miners)
  /\ Active0 \subseteq Miners /\ Active0 # {}
  /\ StaleProduction \in BOOLEAN
  /\ Supply0 \in Nat /\ GenesisTime \in Nat /\ Fees \subseteq Nat
  /\ Threshold \in 1..100 /\ OwnMiners \subseteq Miners
  /\ Switches \in Seq(Nat) /\ Rewards \in Seq(Nat) /\ Len(Rewards) = Len(Switches) + 1
  /\ Rewards[Len(Rewards)] = 0
  /\ IsFiniteSet(Stakeholders) /\ Stake \in [Stakeholders -> Nat]
  /\ Opinion0 \in Opinions /\ \A o \in Opinions : o.num_miner \in Nat
  /\ Word \in Nat /\ Parameters0 \in Parameters
  /\ \A p \in Parameters :
       /\ p.block_interval \in Nat \ {0}
       /\ p.maintenance_interval \in Nat \ {0} /\ p.maintenance_interval < Word
       /\ p.maintenance_skip_slots \in Nat
       /\ p.maximum_miner_count \in Nat

VARIABLES
  head,        \* head_block_number
  time,        \* head block time
  aslot,       \* current_aslot
  shuffled,    \* current_shuffled_miners
  active,      \* active_miners
  authority,   \* active authority of GRAPHENE_MINER_ACCOUNT
  confirmed,   \* last_confirmed_block_num of each miner
  lib,         \* last_irreversible_block_num
  maintFlag,   \* maintenance_flag of dynamic_flags
  nextMaint,   \* next_maintenance_time
  params,      \* parameters
  pending,     \* pending_parameters: a set with at most one element
  opinion,     \* options of each stakeholder
  filled,      \* recent_slots_filled, newest first
  pool,        \* core asset_pool: fees collected since the last maintenance
  supply,      \* core current_supply
  real,        \* what get_real_supply sums up
  lastBudget,  \* last_budget_time
  feeBudget,   \* miner_budget_from_fees
  rewardBudget,\* miner_budget_from_rewards
  unspent,     \* unspent_fee_budget
  mined,       \* mined_rewards
  producing,   \* _production_enabled of the local plugin
  signer       \* history: the miner of every block of the chain

slots == <<aslot, shuffled, filled>>
election == <<active, authority>>
budget == <<lastBudget, feeBudget, rewardBudget, unspent, mined, supply>>
vars == <<head, time, slots, election, confirmed, lib, maintFlag, nextMaint, params,
          pending, opinion, pool, real, budget, producing, signer>>

(***************************************************************************)
(* Slots.                                                                   *)
(***************************************************************************)
get_slot_time(n) ==
  IF head = 0 THEN time + n * params.block_interval
  ELSE (time \div params.block_interval) * params.block_interval
         + params.block_interval
             * (n + IF maintFlag THEN params.maintenance_skip_slots ELSE 0)

\* Mutant: the second a slot begins belongs to the one before.
get_slot_at_time_late(when) ==
  IF when <= get_slot_time(1) THEN 0
  ELSE (when - get_slot_time(1)) \div params.block_interval + 1

get_slot_at_time(when) ==
  IF when < get_slot_time(1) THEN 0
  ELSE (when - get_slot_time(1)) \div params.block_interval + 1

get_scheduled_miner(n) == shuffled[((aslot + n) % Len(shuffled)) + 1]

miner_participation_rate ==
  (100 * Cardinality({i \in 1..Window : filled[i]})) \div Window

(***************************************************************************)
(* Rewards.                                                                 *)
(***************************************************************************)
get_asset_per_block_by_block_num(n) ==
  Rewards[Cardinality({i \in DOMAIN Switches : Switches[i] <= n}) + 1]

\* The 64-bit differences below may wrap; the terms they multiply then cancel.
\* Past the last switch the next one is 0 and the reward halved: that is the
\* plan of the blocks only because the last reward is 0.
get_miner_budget(h, blocks) ==
  LET ahead == {i \in DOMAIN Switches : h <= Switches[i]}
      i == Min(ahead)
      now == get_asset_per_block_by_block_num(h)
      nextSwitch == IF ahead = {} THEN 0 ELSE Switches[i]
      after == IF ahead = {} THEN now \div 2 ELSE Rewards[i + 1]
      toSwitch == nextSwitch - h - 1
  IN IF h + 1 + blocks >= nextSwitch
     THEN now * toSwitch + after * (blocks - toSwitch)
     ELSE blocks * now

(***************************************************************************)
(* Elections.                                                               *)
(***************************************************************************)
StakeOf(S) == SumFunctionOnSet(Stake, S)

Tally(m) == StakeOf({a \in Stakeholders : m \in opinion[a].votes})

\* _miner_count_histogram_buffer: votes above the maximum are in no bin.
Histogram(i) ==
  LET bins == params.maximum_miner_count \div 2
  IN StakeOf({a \in Stakeholders :
                /\ opinion[a].num_miner <= params.maximum_miner_count
                /\ i = Min({opinion[a].num_miner \div 2, bins})})

\* Mutant: half of the stake is enough.
MinerCountAtHalf ==
  LET bins == params.maximum_miner_count \div 2
      target == (StakeOf(Stakeholders) - Histogram(0)) \div 2
      tally(i) == SumFunctionOnSet([j \in 1..bins |-> Histogram(j)], 1..i)
  IN IF target <= 0 THEN 0
     ELSE Min({bins} \cup {i \in 1..bins : tally(i) >= target})

MinerCount ==
  LET bins == params.maximum_miner_count \div 2
      target == (StakeOf(Stakeholders) - Histogram(0)) \div 2
      tally(i) == SumFunctionOnSet([j \in 1..bins |-> Histogram(j)], 1..i)
  IN IF target <= 0 THEN 0
     ELSE Min({bins} \cup {i \in 1..bins : tally(i) > target})

\* More votes first, the older vote id between equals.
Before(a, b) == Tally(a) > Tally(b) \/ (Tally(a) = Tally(b) /\ a < b)

\* The first count miners in that order.
sort_votable_objects(count) ==
  {m \in Miners : Cardinality({k \in Miners : Before(k, m)}) < count}

Elected == sort_votable_objects(Max({2 * MinerCount + 1, MinMiners}))

\* vote_counter: without votes the account keeps its authority.
vote_counter ==
  LET voted == {m \in Elected : Tally(m) > 0}
  IN IF voted = {} THEN authority
     ELSE [weights |-> [m \in voted |-> Tally(m)],
           threshold |-> MapThenSumSet(Tally, voted) \div 2 + 1]

update_active_miners ==
  /\ active' = Elected
  /\ authority' = vote_counter

(***************************************************************************)
(* A block at time t of chain height head + 1, step by step in the order of *)
(* _apply_block.  Operators with an argument see the updated head.          *)
(***************************************************************************)
validate_block_header(t, m) ==
  /\ time < t
  /\ get_slot_at_time(t) > 0
  /\ m = get_scheduled_miner(get_slot_at_time(t))

update_global_dynamic_data(t, m) ==
  LET missed == get_slot_at_time(t) - 1
  IN /\ head' = head + 1
     /\ time' = t
     /\ filled' = SubSeq([i \in 1..missed |-> FALSE] \o <<TRUE>> \o filled, 1, Window)
     /\ aslot' = aslot + missed + 1
     /\ signer' = Append(signer, m)

\* Mutant: the whole budget shared between the blocks that are left.
PayFromFeesOfRest ==
  LET blocks == (nextMaint - time + params.block_interval - 1) \div params.block_interval
  IN IF blocks > 0 THEN feeBudget \div blocks ELSE 0

\* Fees of the last interval shared between the blocks this one can hold.
PayFromFees ==
  LET blocks == (nextMaint - lastBudget + params.block_interval - 1)
                  \div params.block_interval
  IN IF blocks > 0 THEN feeBudget \div blocks ELSE 0

update_signing_miner(m) == confirmed' = [confirmed EXCEPT ![m] = head + 1]

\* Mutant: the threshold taken from the wrong end.
OffsetSwapped == (Threshold * Cardinality(active)) \div 100

Offset == ((100 - Threshold) * Cardinality(active)) \div 100

\* std::nth_element over the active miners, ordered by what they confirmed.
NthConfirmed(c, v) ==
  /\ \E m \in active : c[m] = v
  /\ Cardinality({m \in active : c[m] < v}) <= Offset
  /\ Cardinality({m \in active : c[m] <= v}) > Offset

update_last_irreversible_block(skipUndoCheck) ==
  IF skipUndoCheck THEN lib' = head + 1
  ELSE \E v \in 0..(head + 1) :
         /\ NthConfirmed(confirmed', v)
         /\ lib' = IF v > lib THEN v ELSE lib

NextMaintenanceTime(t, p) ==
  IF head = 0 THEN (t \div p.maintenance_interval + 1) * p.maintenance_interval
  ELSE nextMaint + ((t - nextMaint) \div p.maintenance_interval + 1) * p.maintenance_interval

BlocksToMaint(t, next, p) ==
  ((next - t + p.block_interval - 1) \div p.block_interval - p.maintenance_skip_slots) % Word

\* Mutant: the rewards mined are not reset.
process_budget_keeps_mined(t, next, p, u, r) ==
  /\ supply' = supply + (r + feeBudget - u) - pool
  /\ pool' = 0
  /\ feeBudget' = pool + u
  /\ unspent' = pool + u
  /\ rewardBudget' = get_miner_budget(head + 1, BlocksToMaint(t, next, p))
  /\ mined' = r
  /\ lastBudget' = t

\* Runs after the miner of this block is paid: u and r are what is left of
\* the fee budget and what was mined, this block included.
process_budget(t, next, p, u, r) ==
  /\ supply' = supply + (r + feeBudget - u) - pool
  /\ pool' = 0
  /\ feeBudget' = pool + u
  /\ unspent' = pool + u
  /\ rewardBudget' = get_miner_budget(head + 1, BlocksToMaint(t, next, p))
  /\ mined' = 0
  /\ lastBudget' = t

perform_chain_maintenance(t, u, r) ==
  /\ update_active_miners
  /\ params' \in (IF pending = {} THEN {params} ELSE pending)
  /\ pending' = {}
  /\ nextMaint' = NextMaintenanceTime(t, params')
  /\ process_budget(t, nextMaint', params', u, r)

NoMaintenance(u, r) ==
  /\ unspent' = u
  /\ mined' = r
  /\ UNCHANGED <<election, params, pending, nextMaint, pool, supply, feeBudget,
                 rewardBudget, lastBudget>>

Orders(S) == {s \in [1..Cardinality(S) -> S] : Range(s) = S}

\* The generator is seeded with the block time; any order may come out.
update_miner_schedule ==
  IF (head + 1) % Cardinality(active') = 0
  THEN shuffled' \in Orders(active')
  ELSE UNCHANGED shuffled

apply_block(t, m, skipUndoCheck) ==
  LET fromFees == PayFromFees
      reward == get_asset_per_block_by_block_num(head + 1)
      u == unspent - fromFees
      r == mined + reward
      maintNeeded == nextMaint <= t
  IN /\ head < MaxHead
     /\ validate_block_header(t, m)
     /\ update_global_dynamic_data(t, m)
     /\ skipUndoCheck \/ head + 1 - lib < MaxUndoHistory
     /\ update_signing_miner(m)
     /\ real' = real + fromFees + reward
     /\ update_last_irreversible_block(skipUndoCheck)
     /\ IF maintNeeded THEN perform_chain_maintenance(t, u, r) ELSE NoMaintenance(u, r)
     /\ maintFlag' = maintNeeded
     /\ update_miner_schedule
     /\ UNCHANGED opinion

(***************************************************************************)
(* The actions.                                                             *)
(***************************************************************************)
\* A block of any miner arrives.
ReceiveBlock == \E t \in (time + 1)..MaxTime, m \in Miners :
                  /\ apply_block(t, m, FALSE)
                  /\ UNCHANGED producing

\* Its own miner's slot is due: the half second of tolerance is below the
\* resolution of the model, so the clock shows the slot's time exactly.
CanProduce(now) ==
  LET slot == get_slot_at_time(now)
  IN /\ slot > 0
     /\ get_scheduled_miner(slot) \in OwnMiners
     /\ miner_participation_rate >= Required
     /\ get_slot_time(slot) = now

\* The plugin wakes up with its clock at now and finds out that it is synced.
Synced(now) == get_slot_time(1) >= now

EnableProduction(now) ==
  /\ ~producing
  /\ Synced(now)
  /\ ~CanProduce(now)
  /\ producing' = TRUE
  /\ UNCHANGED <<head, time, slots, election, confirmed, lib, maintFlag, nextMaint,
                 params, pending, opinion, pool, real, budget, signer>>

ProduceBlock(now) ==
  /\ producing \/ Synced(now)
  /\ CanProduce(now)
  /\ apply_block(now, get_scheduled_miner(get_slot_at_time(now)), StaleProduction)
  /\ producing' = TRUE

maybe_produce_block == \E now \in 1..MaxTime : EnableProduction(now) \/ ProduceBlock(now)

\* A transaction of the next block pays a fee.
PayFee(f) ==
  /\ f <= real
  /\ head < MaxHead
  /\ pool + f <= Max(Fees)          \* bound: fees collected in an interval
  /\ pool' = pool + f
  /\ real' = real - f
  /\ UNCHANGED <<head, time, slots, election, confirmed, lib, maintFlag, nextMaint,
                 params, pending, opinion, budget, producing, signer>>

\* verify_account_votes guards what an account may publish.
UpdateOpinion(a, o) ==
  /\ o.num_miner <= params.maximum_miner_count
  /\ head < MaxHead
  /\ opinion' = [opinion EXCEPT ![a] = o]
  /\ UNCHANGED <<head, time, slots, election, confirmed, lib, maintFlag, nextMaint,
                 params, pending, pool, real, budget, producing, signer>>

\* Executed only inside a proposal the miner account has approved.
miner_update_global_parameters(p) ==
  /\ head < MaxHead
  /\ pending' = {p}
  /\ UNCHANGED <<head, time, slots, election, confirmed, lib, maintFlag, nextMaint,
                 params, opinion, pool, real, budget, producing, signer>>

Transaction ==
  \/ \E f \in Fees : PayFee(f)
  \/ \E a \in Stakeholders, o \in Opinions : UpdateOpinion(a, o)
  \/ \E p \in Parameters : miner_update_global_parameters(p)

\* active_miners is an ordered set: the genesis schedule lists it by id.
InitialOrder == SetToSortSeq(Active0, <)

Init ==
  /\ head = 0 /\ time = GenesisTime /\ aslot = 0
  /\ active = Active0 /\ shuffled = InitialOrder
  /\ authority = [weights |-> <<>>, threshold |-> 0]
  /\ confirmed = [m \in Miners |-> 0] /\ lib = 0
  /\ maintFlag = FALSE /\ nextMaint = 0
  /\ params = Parameters0 /\ pending = {}
  /\ opinion = [a \in Stakeholders |-> Opinion0]
  /\ filled = [i \in 1..Window |-> TRUE]
  /\ pool = 0 /\ supply = Supply0 /\ real = Supply0
  /\ lastBudget = 0 /\ feeBudget = 0 /\ rewardBudget = 0 /\ unspent = 0 /\ mined = 0
  /\ producing = StaleProduction
  /\ signer = <<>>

Next == ReceiveBlock \/ maybe_produce_block \/ Transaction

Spec == Init /\ [][Next]_vars

-----------------------------------------------------------------------------
(***************************************************************************)
(* Properties.                                                              *)
(***************************************************************************)
\* Slots are a partition of the time after the head block: a slot's time is
\* in the future, every second of the slot is found to be in it, and the head
\* block's own second is in none, whatever parameters and maintenance did
\* (the assertions in update_global_dynamic_data and maybe_produce_block).
SlotsPartitionTime ==
  /\ get_slot_at_time(time) = 0
  /\ \A n \in 1..3 :
       /\ get_slot_time(n) > time
       /\ \A t \in get_slot_time(n)..(get_slot_time(n + 1) - 1) : get_slot_at_time(t) = n

RaiseConfirmed ==
  lib' > lib =>
    100 * Cardinality({m \in active : \E b \in lib'..head' : signer'[b] = m})
      >= Threshold * Cardinality(active)

\* When a block becomes irreversible, at least Threshold percent of the active
\* miners have signed it or a block on top of it (update_last_irreversible_block).
IrreversibleConfirmed == [][RaiseConfirmed]_vars

\* The recorded supply differs from what accounts and escrows really hold by
\* exactly the fees collected and the rewards mined since the last budget, so
\* process_budget's assertion holds at every maintenance.
SupplyRecorded == supply + mined + feeBudget - unspent - pool = real

\* What a maintenance plans is enough until the next one: miners are never
\* paid fees that were not collected, nor more rewards than planned (except
\* when fewer slots are left than maintenance skips and the plan is void).
BudgetCoversInterval ==
  /\ unspent >= 0
  /\ (nextMaint - lastBudget + params.block_interval - 1) \div params.block_interval
        > params.maintenance_skip_slots
       => mined <= rewardBudget

\* The number of miners elected is a median of what stakeholders ask for, an
\* opinion above the maximum counting as the maximum: at most half of the
\* stake with an opinion asked for more, at most half for fewer.
MedianElected ==
  LET bins == params.maximum_miner_count \div 2
      want(a) == Min({opinion[a].num_miner \div 2, bins})
      voters == {a \in Stakeholders : want(a) > 0}
  IN StakeOf(voters) > 1 =>
       /\ 2 * StakeOf({a \in voters : want(a) > MinerCount}) <= StakeOf(voters)
       /\ 2 * StakeOf({a \in voters : want(a) < MinerCount}) <= StakeOf(voters)

=============================================================================
