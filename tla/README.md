# A TLA+ model of the DECENT network node

DECENT is a blockchain for content: authors publish content and pay seeders
for storing it, consumers buy it and pay when the seeders have delivered the
keys. The node (`libraries/`) is a C++ program of the Graphene family. This
directory models the parts that decide whether a node's state can be trusted:
the object database with its undo history, the handling of blocks and forks,
the synchronisation of nodes, the miners' schedule with elections and budget,
proposals and authorities, balances, assets and vesting, and the trade in
content.

All source paths below are relative to the repository's `libraries/`.

## 1. The system

| Component | State | Operations | Interacts with |
|---|---|---|---|
| object database (`db/`) | indexes of objects, next ids | create, modify, remove | every change is reported to the undo history |
| undo history (`db/undo_database.*`) | stack of differences, number of open sessions, size limit | start session, undo, merge, commit, pop_commit, set_max_size | restores the object database |
| fork database (`chain/fork_database.*`) | tree of recent blocks, head, size limit | push, pop, remove, set head, fetch branches | asked by push_block what the best block is |
| block log (`chain/block_database.cpp`) | index file and block file | store, remove, fetch, last | replayed after a crash |
| chain database (`chain/db_block.cpp`, `db_management.cpp`, `db_with.hpp`) | head, pending and popped transactions, pending session | push_block, push_transaction, generate_block, pop_block, open, close, reindex | composes the four above; signals plugins |
| global dynamic data (`chain/db_update.cpp`) | head, missed slots, last irreversible block | one update per block | sets the limits of undo history and fork database |
| miner schedule, maintenance, budget (`chain/db_miner_schedule.cpp`, `db_maint.cpp`) | shuffled schedule, votes, budget, next maintenance time | slot arithmetic, elections, process_budget | housekeeping runs inside maintenance |
| content trading (`chain/decent_evaluator.cpp`, `db_decent.cpp`) | content, purchases, seeders, their statistics, balances | submit, cancel, buy, deliver keys, prove custody, rate; expiry at maintenance | one operation per transaction, applied by push_block |
| proposals and authorities (`chain/proposal_*.cpp`, `chain/protocol/transaction.cpp`) | proposed transactions, approvals, authorities of accounts | create, approve, withdraw, delete; execution at approval or expiry | run operations in a nested session; the miner account's authority comes from elections |
| ledger (`chain/evaluator.*`, `asset_evaluator.cpp`, `vesting_balance_*.cpp`, `withdraw_permission_evaluator.cpp`, `db_balance.cpp`) | balances, assets and their pools, vesting balances, permissions | one evaluator each, and the fee every operation pays | miner pay from the budget; supply is asserted at maintenance |
| other operations (`chain/*_evaluator.cpp`) | accounts, feeds, subscriptions, messages | one evaluator each | |
| plugins (`plugins/`) | miner: production; seeding: own content, download and proof tasks; histories | reactions to signals, timers, own threads | push transactions and blocks back into the chain |
| network (`net/`) | peers, inventories, synchronisation lists | messages and timers | pushes blocks and transactions, asks for ids |
| packages (`package/`) | files of content, transfers | download, upload, check, on worker threads | used by the seeding plugin and wallets |
| application, wallet, programs | configuration, keys | start, stop, remote calls | `application::startup` chooses open or replay |

One thread applies blocks and transactions, and one thread runs the fibers of
the network, which wait for the first. What makes the core hard is
therefore less threads than **long sequences of legal calls** on structures that
are only kept in step by the order of statements (undo history, fork database,
block log, pending session), **failures half way** (a block of a longer fork
that does not apply, an exception while unwinding), **crashes** between two
steps with buffered files, **callbacks** (a plugin that pushes a transaction
while the block is still being pushed), and **numbers at a boundary** (limits
of histories, windows of expirations, unsigned counters, rounding). In the
network it is the **order of messages**, answers that cross, time-outs and
lost connections, and wake-ups that nobody sends. The list
of hazards, each at its line and with the properties that cover it, is in
`PROJECT.json`.

What makes each component correct:

- undo history: undoing a session restores exactly the state it was opened
  in, completes without an exception, and is possible for every open session;
- chain database: undo history, fork database and block log describe the same
  chain; a failed push changes nothing; the node follows the longest chain and
  can leave every reversible block; transactions are neither lost nor applied
  twice; what is on disk after a crash can be replayed;
- content trading: money is conserved, every purchase is settled once, escrows
  are never overdrawn and are returned, statistics count what they say;
- miner schedule: every second after the head belongs to one slot, a block is
  irreversible only when enough miners built on it, the supply is accounted
  for, budgets suffice, elections follow the votes;
- synchronisation: blocks reach the chain after their parents, every block is
  requested once at a time, honest peers are kept, synchronisation ends and
  the nodes end on chains of one length;
- proposals: executed once and entirely or not at all, only when the
  authorities grant it, not before the review period, and gone at expiry;
- ledger: each asset adds up to its supply, nothing vests or is withdrawn early.

## 2. Modules

| Module | Models | Composes |
|---|---|---|
| `SnapshotStack` | abstract: what the undo history promises, a stack of complete copies | |
| `UndoDatabase` | indexes and `undo_database` with its differences | refines `SnapshotStack` |
| `UndoDatabaseProofs` | theorems about it | extends `UndoDatabase` |
| `BlockTree` | constants: the blocks a node may see | |
| `ForkDatabase` | `fork_database`, operators on its state | extends `BlockTree` |
| `BlockLog` | `block_database`, operators on its state | extends `BlockTree` |
| `ChainDatabase` | `chain::database` as a node drives it | instances of `ForkDatabase` and `BlockLog`; the undo history as `SnapshotStack` promises it |
| `ChainDatabaseProofs` | theorems about it | extends `ChainDatabase`, `SumTheorems` |
| `SumTheorems` | lemmas on finite sets, induction, sums and paths of a tree of blocks, for the other proofs | |
| `ContentTrading` | the evaluators and the housekeeping of content | |
| `ContentTradingProofs` | theorems about it | extends `ContentTrading`, `SumTheorems` |
| `MinerSchedule` | slots, elections, irreversible block, maintenance, budget, block production | |
| `MinerScheduleProofs` | theorems about it | extends `MinerSchedule`, `SumTheorems` |
| `BlockSync` | `net/node.cpp` on several nodes, with the application's answers about the chain | extends `BlockTree` |
| `BlockSyncProofs` | theorems about it | extends `BlockSync`, `SumTheorems` |
| `Proposals` | proposals and authorities | |
| `ProposalsProofs` | theorems about it | extends `Proposals`, `SumTheorems` |
| `Ledger` | balances, fees, assets, vesting, withdraw permissions | |
| `LedgerProofs` | theorems about it | extends `Ledger`, `SumTheorems` |
| `MCUndoDatabase`, `MCChainDatabase`, `MCContentTrading`, `MCMinerSchedule`, `MCBlockSync`, `MCProposals`, `MCLedger` | instances for TLC | |

Each module has comments that say which function a definition stands for; the
exact lines are in the `map` of `PROJECT.json`. Definitions introduced by a
comment "Mutation: ..." or described as a variant that does something else are
wrong variants of the definition below them. They
are no part of the specifications: replacing the definition by its variant
must make TLC find the named property violated (`mutants` in `PROJECT.json`).

### UndoDatabase

`objects`, `next_id` are the indexes; `stack`, `active_sessions`, `max_size`
the members of `undo_database`; `snapshots` is auxiliary and holds, for each
element of the stack, the database as it was when that element was pushed. A
state of the stack is a record of the four containers of `undo_state`; a map
entry that does not exist is `None`. `Create`, `Modify` and `Remove` are the
functions of `primary_index` with the hook they call; `Restored` is the common
body of `undo()` and `pop_commit()`, and `RestoreCannotThrow` collects the
assertions on its way, for every order in which the unordered containers may
be walked. Objects have one unique secondary key. Sessions nest up to three
deep, as in the chain (pending session, transaction, proposal).

### ChainDatabase

`push_block` is a sequence of steps (`pc`) because a crash may come between
them; all other operations are one step. The object database is reduced to
the head block, the known transactions and the seeding plugin's records.

| Steps | Code |
|---|---|
| `PushBlock` | `push_block`: clear the pending state, push to the fork database, decide |
| `ApplyNew`, `ApplyNewFails`, `Notify` | the block extends the head; plugins are notified |
| `SwitchPop`, `SwitchApply` | fork switch |
| `SwitchFails`, `UnwindPop`, `UnwindApply`, `SwitchThrows` | its failure, and the failure of the unwinding |
| `Restore` | destructor of `pending_transactions_restorer` |
| `PushTransaction` | `push_transaction` |
| `Close`, `Rewind`, `Flush` | `close` |
| `Crash` | the process dies; the last write to the block log may be lost |
| `Open`, `Reindex` | start after a clean and after an unclean shutdown |

A block's contents are constants: its transactions, the last irreversible
block number after it, whether it applies, whether it holds content or a
purchase that concerns this node's seeder. `InOrder` is the assumption on the
network layer: an empty fork database is first given block 1. `SyncInOrder` of
`BlockSync` shows that the synchronisation keeps it. `final` is history: the
highest last irreversible block number the node has had since it was started.

### ContentTrading

Accounts, content and purchases as functions from their keys to the records of
the code (`None` where there is no object). Operations happen at the time of
the last block; `Block` moves the time by one or more slots and runs the
maintenance when it is due. There is one asset; operation fees, the proofs'
cryptography, upload statistics and synopses are left out, and the code before
the hard forks is not modelled. Counters of the seeding statistics are
unsigned words of `Word` values. A proof of custody for content without
seeders (a division by `key_parts.size()` in the code) is left out. `maintained`
is history: the times of the maintenance blocks.

### MinerSchedule

The variables are the fields of the global, dynamic and schedule objects that
a block reads and writes. `apply_block` is `_apply_block` without the
transactions: the operators are its calls in their order, each seeing what the
ones before it changed. A block arrives at any second of its miner's slot
(`ReceiveBlock`), or the local plugin produces it (`maybe_produce_block`, with
the conditions under which it does not). `Transaction` stands for those
transactions that the rest depends on: fees, opinions, parameters voted in
through a proposal. The pseudo-random shuffle is any order. What accounts,
escrows and vesting balances hold is one number, `real`; `signer` is history.

### BlockSync

`node[n]` has the members of `node_impl` of node `n`, its chain (`known`,
`head`) and one `peer_connection` per neighbour, whose field `out` is the
messages under way. The handlers of a node are fibers of one thread that do
not yield before they call `handle_block`; that call goes to the chain's
thread, so `handle_block` is a step of its own and what the fiber does with
the result (`BlockHandled`) another. Messages on one connection arrive in
order, as TCP delivers them; what is under way is lost when it closes.

| Actions | Code |
|---|---|
| `Receive` | `on_message` with the handler of each message: requests for ids and their answers, requests for blocks, blocks, inventory, closing |
| `fetch_sync_items_loop`, `fetch_items_loop`, `advertise_inventory_loop` | the loops of that name, when triggered |
| `process_backlog_of_sync_blocks`, `handle_block`, `BlockHandled` | the way of a block to the chain and back |
| `generate_block` | the miner plugin produces a block and broadcasts it |
| `Connect` | the handshake, up to `new_peer_just_added` |
| `terminate_inactive_connections_loop`, `on_connection_closed` | time-outs and the end of a connection |

A sync block goes to the front of `new_received`; the backlog moves these
one by one to the front of `received` (`Collected`), so that those of one batch
stand there in the order of their arrival.

The chain follows the longest branch it can link, as `ChainDatabase` shows.
Transactions as items, the handshake's checks, peer addresses, firewall
checks and the expiry of inventories are left out. Three smaller
simplifications: `recent` (`_most_recent_blocks_accepted`) forgets nothing,
where the code has a ring of as many entries as connections are allowed
(`node.cpp:825`, 200 by default), far more than the blocks of a run, and a
block it has forgotten is handed to the chain again, which ignores it; the
answer is checked to be sequential, but not for a number of blocks that the
clock rules out (`node.cpp:2658`), which an honest peer does not offer; the
branch for `block_older_than_undo_history` of a rejected sync block
(`node.cpp:3178`) is left out because `handle_block` never throws it (a TODO at
`application.cpp:586`). No block of the runs is refused by the chain (`Lib` is 0
there), so the part of `HonestTrusted` about a peer of a refused block is met
in no run.

### Proposals

`db` is what an undo session restores (balances, authorities, proposals), `log`
the operations applied for proposals. `verify_authority`, `check_authority`
and `is_authorized_to_execute` are the depth-first search of `sign_state`
with its memory and its limit of depth, one function of accounts and memories
for each number of levels left; accounts and keys are numbers because
the code walks ordered maps. Every action except `EndBlock` is a transaction
of one operation, accepted when some set of signatures passes
`verify_authority`, with the shorter path for a single signature.
`push_proposal` executes in a nested session: its result is discarded with
its part of the log when an operation throws. `EndBlock` moves the time, may
give the miner account another authority (an election) and runs
`clear_expired_proposals`.

### Ledger

`db` holds balances, per asset the supply, the pool of collected fees
(`asset_pool`) and of core for conversions (`core_pool`), the vesting balances
and the withdraw permission. An evaluation maps a database to the set of
databases it can end in, empty when it throws; `apply` is the order of
`evaluator::apply`: convert the fee, pay it, run the operation, take the fee
from its payer. `area`, `withdrawn` and `taken` are history: coin seconds
really held, amounts really withdrawn, claims in the present window. `made`
is history too: the core that creations of assets made, by the arithmetic of
section 3. An issuer may change the limits, the issuer and the exchange rate of
an asset (`update_user_issued_asset`); fees are of any amount and asset that
`evaluator::prepare_fee` takes.

## 3. Runs

| Run | Instance and bounds | Checks |
|---|---|---|
| `UndoDatabase` | 1 index, 2 ids, 2 keys, 2 payloads, limits 2 and 3, nesting 3 | `UndoRestoresSnapshot`, `UndoCannotThrow`, `OpenSessionsKeepState`, refinement `AbstractSpec` |
| `ChainForks` | the 8-block tree of `MCChainDatabase`, 2 transactions, one of which executes a proposal, a plugin push, clean stops, no crash | `LogMatchesChain`, `ReversibleUndoable`, `NothingAppliedTwice`, `TransactionsSurvive`, liveness `CatchesUp` |
| `ChainCrash` | the same tree, 1 transaction, 1 crash at any step | `CrashSafeLog`, `HeadLinkable`, `StartsFromHead` |
| `ChainBadBlocks` | 10 blocks: the same tree and a fork at block 1; B5 does not apply, a transaction executes a proposal, a plugin pushes one | `UndoAligned`, `PushUnwound` |
| `TradingPurchases` | 1 content, co-authors, a buyer and a subscriber, 2 seeders, blocks every 2 time units, lives of 5 | `Conserved`, `SettledOnce`, `ExpiredReturned`, `CountsMatchPurchases` |
| `TradingCustody` | 1 content, 2 seeders of which 1 or both are chosen, lives of 8, 15 and 16 units with days of 8 and blocks every 2 | `SeedersFunded`, `SeededCounted`, `EscrowNotOverdrawn` |
| `MinerSchedule` | 3 miners, 2 stakeholders with 3 opinions, 2 sets of parameters, 7 blocks in 14 seconds | `SlotsPartitionTime`, `SupplyRecorded`, `BudgetCoversInterval`, `MedianElected`, action property `IrreversibleConfirmed` |
| `SyncNetwork` | a new node and two peers 2 blocks ahead, one mines a third, one may be lost and connected again; batches of 1 block and 2 ids | `RequestsTracked`, `SyncInOrder`, `HonestTrusted`, `SynopsisOrdered` |
| `SyncPair` | two nodes on different forks at height 2, a third block may be mined | `SyncFinishes`, liveness `CatchesUp` |
| `Proposals` | 3 accounts (one the miner account), 2 keys, 4 transactions, 2 proposals, times to 3 | `ExpiredGone`, `HistoryExplains`, `MinerReviewed`, `AuthorizedOnlyIfGranted`, `GrantedIsAuthorized` |
| `Ledger` | 2 accounts, core and two issued assets, rates 1 and 1/2, amounts 1 and 2, creation fees of 3 core or 1 of an asset, 2 vesting balances, 1 permission, times to 3 | `SupplyExplained`, `NothingVestsEarly`, `PeriodLimited` |
| `ClaimSyncStall` | `SyncNetwork` without mining and losses, 2 blocks handled at a time | `SyncFinishes`, violated |

Why the bounds are enough for the interesting cases: two ids and two keys
let an object be created, removed and its key taken again inside one session,
which is what makes the order of undo matter; a limit of two with nesting
three is the smallest limit the chain sets. The block tree has forks that grow
past each other twice and a third that leaves the second, so a node switches,
switches back and pushes onto a fork database whose head lags. On the first
fork the irreversible block follows one behind the head, so histories are
really trimmed; on the second it is still the first one, so that a switch lowers
it. In the trading instances a day is two or four block intervals
and a maintenance interval about a day, so keys, expirations and maintenance blocks
come in every order; lives of an odd number of units end between two blocks,
where a window of housekeeping may skip them. Time is bounded by `MaxTime`,
which leaves room for a maintenance block after the longest life.

Three miners at 70 percent make the offset round, two opinions and an
abstention make medians that a lowered maximum moves; 14 seconds hold three
maintenance intervals with missed slots, a reward that starts and ends
(`Switches`) and a parameter change. With batches of one block and two ids
the node asks again for ids, has blocks of two peers in hand and reaches the
limits that suspend fetching; larger batches only remove steps. The proposed
transactions are chosen so that one fails at its second operation, one acts
for the miner account, one changes an authority and deletes the other
proposal, and one creates a proposal. Accounts 2 and 3
can come to name each other, so that the search meets a cycle. Ledger amounts are small, but the fee in
the issued asset, its pools and the periods of the permission meet at times 1
to 3; at a rate of 1/2 conversions round, and so does half a fee of 3.

**Fairness.** `CatchesUp` of `ChainForks`: a call of `push_block` that has
started runs to its end and a stopped node is started again (weak fairness of
the steps of one thread); the network offers every block again and again while
the node does not have it (strong fairness of `PushBlock(b)`, because the call
is possible only between other calls). The property is stated for nodes that
are not stopped: the fork database of a restarted node begins at its head, so
a node that was stopped on a reversible block of a losing fork cannot leave it.

`CatchesUp` of `SyncPair`: a message that was sent on an open connection is
received and handled, a triggered loop or task runs, the chain's thread
returns (weak fairness of each; the fibers are scheduled in turn and the
events stay pending), a link is connected (`connect` is retried for ever by
`p2p_network_connect_loop`), and a peer that was asked to close is cut off by
`terminate_inactive_connections_loop`. Nothing is assumed of mining or of
time-outs of requests: they may happen or not.

**Deadlock** is not checked where the bounds make a run stop (all blocks
pushed, time used up).

### Where the code and its comments disagree

`ClaimSyncStall` states what a log line of `process_backlog_of_sync_blocks`
says, that a sync block already accepted is treated as accepted
(`net/node.cpp:3307`), and is violated. The loop breaks at such a block
without handing over the ones behind it, and as these are not requested again
nothing calls the backlog any more. In the trace block 1 is with the chain when
a second peer lists it and is asked for it; the second copy of block 1 arrives,
then block 2 from the first peer, before the backlog runs. It collects both in
this order, finds block 1 at the front of the second peer's list and accepted,
and ends: with two honest peers, no message under way and no task due, the node
holds block 2 and stays on block 1. `SyncPair` shows that one peer is always
left in sync.

The passing instances stay clear of further effects, which TLC reaches when
constants are changed as said:

- `LogMatchesChain` with `Bad = {B5}`: a failed fork switch writes the
  restored blocks to the entry of the block that was pushed, and their own
  entries stay removed (`db_block.cpp:184`), although `push_block` promises
  "every partial change is unwound";
- `SeederRecords` with a block of content and of a purchase: a purchase that
  the seeding plugin answers from inside the notification opens the pending
  session above the notification's, and `session.merge()` takes the wrong one
  (`db_block.cpp:222`): the records are undone with the pending transactions;
- `SeederRecords` with blocks of content and no purchase: blocks adopted by a
  fork switch are never notified to the plugins (`db_block.cpp:190`);
- `StartsFromHead` with `Bad = {B5}` and a crash: a replay that stops at a gap
  in the block log leaves the fork database ahead of the object database
  (`db_management.cpp:72`);
- `NothingAppliedTwice` with `Crashes = 1`: a replay does not record the
  transactions it applies (`db_management.cpp:93`), so they can be pushed again;
- `HeadLinkable` with `Bad = {B5}`: a head that was removed as invalid makes
  `push_block` apply a duplicate of the chain's head and remove it
  (`db_block.cpp:139`, `205`);
- `RatioInRange` with longer lives, one seeder and two purchases, one whose
  key comes after a maintenance block and one answered in time: the unsigned
  counter of missed keys wraps and the ratio leaves its interval
  (`decent_evaluator.cpp:617`);
- `IrreversibleConfirmed` with `StaleProduction = TRUE`: a producer that
  started on a stale chain declares its own head irreversible
  (`db_update.cpp:146`);
- `BudgetCoversInterval` without its condition: when fewer slots are left than
  a maintenance skips, `blocks_to_maint` wraps and the plan is void, although
  a comment says it is greater than zero (`db_maint.cpp:159`);
- `PeriodLimited` counts from the last update of a permission. Across an
  update `claimed_this_period` can be reset by a claim before the new start,
  and nearly twice the limit be taken in one period
  (`withdraw_permission_evaluator.cpp:83`).

Four properties say less than one would like, because the code does less; each
states exactly what it does, and the runs reach the difference:

- `PushUnwound`. `push_block` promises that "every partial change is unwound"
  (`db_block.cpp:109`). Of a failed switch that is so for the head and the known
  transactions. It is not for the block log (`db_block.cpp:184`, above), nor for
  the head of the fork database, nor for a plugin's record of a block that is
  restored; and nothing is unwound when `pop_block` throws on the way, with a
  fork that begins before the undo history, at block 1 or one block earlier than
  foreseen (`SwitchThrows`, `ChainBadBlocks` takes it).
- `ReversibleUndoable`. `update_global_dynamic_data` sizes the undo history for
  the reversible blocks and two sessions. A transaction that executes a proposal
  opens a third (`db_block.cpp:290`), as does a transaction a plugin pushes from
  a notification, and the oldest reversible block cannot be left any more;
  neither can blocks that are reversible again after a switch to a fork with a
  lower last irreversible block.
- `ExpiredReturned` and `SeededCounted`. The window of `decent_housekeeping`
  begins a block interval after the last maintenance block
  (`db_decent.cpp:226`), but content and purchases expire at any second: what
  expires in between is never expired, and its escrow never returned. A seeder
  that the author did not choose may prove custody, and its first proof is
  counted and never uncounted (`db_decent.cpp:80`), although the field is said
  to be "decreased inside maint for every expired content".
- `SupplyExplained`. Half of the fee of a new asset, rounded up, is credited both
  to its pool and to the collected fees (`asset_evaluator.cpp:55`, `82`): one core
  more than was paid when the fee is odd. When the fee is in another asset, both
  are credited too, but only one half is taken from that asset's pool. The
  assertion at `db_maint.cpp:189` counts on neither happening; `made` is the exact
  sum.

Three things read off the code on the way, without a property: the core pool
of an asset can become negative, because `asset_claim_fees` compares it before
its own fee is converted (`asset_evaluator.cpp:272`; the supply stays
explained); an even `maximum_miner_count` elects one miner more than the
maximum (`db_maint.cpp:96`); votes above a lowered maximum are in no bin of
the histogram, but count through the total stake, so that `MedianElected`
holds as the comment at `db_maint.cpp:258` says.

## 4. Proofs

Checked by TLAPS for every value of the constants that satisfies the named
assumptions.

**`UndoDatabaseProofs`.** The inductive invariant says of each state of the
stack how it relates the database before it (its snapshot) to the database
after it (the next snapshot, or the present one): a recorded old value or
removed object is the value of the snapshot, an id is in at most one of the
containers, an id in none of them has not changed, new ids did not exist
before, and the recorded next ids are those of the snapshot. The three hooks
keep this relation for the topmost state, and `Merged` composes two of them:
that is the lemma the proof turns on. From it follow, for all indexes, keys,
payloads, limits and nestings: exact undo (`UndoIsExact`), undo without
exceptions (`UndoCompletes`, which also needs unique keys in every snapshot),
`KeysStayUnique`, `OpenSessionsSafe` and the step simulation `RefinesSnapshots`.
Assumptions: ids are naturals, `None` is no object, and the nesting is at most
the limit plus one (`NestingAssumption`; the chain sets limits of at least 2
and nests 3 deep).

**`SumTheorems`.** What the other proofs share. A set of naturals that
contains each number whose predecessors it contains is `Nat`; a family of
finite sets closed under adding an element holds every finite set. Both are
stated about sets and not about predicates, and are what stands in for
induction over data. With them: `SumFunctionOnSet` is well defined on finite
sets, changes by the difference when one term changes, distributes over unions
and plus, is monotone, and can be regrouped by owner. And the path of a block
in a tree whose blocks are numbered one more than their parents is well
defined, is as long as the block's number and grows by the block itself. And
a recursion on the number of a round whose values stay in a set has a
solution, of which an invariant that every round keeps holds.

**`ContentTradingProofs`.** `Inv` joins the types of the objects, that
purchases are of existing content, `SettledOnce` and `EscrowNotOverdrawn`;
each action changes one content and one purchase at most, and three lemmas say
what such a change must respect.
`MoneyConserved` adds the sum over the accounts: each action is shown to move
an amount between a balance, an escrow and a pool, the payments to several
authors and seeders by induction on the set that is paid.
`SeedersStayFunded`: what is left of the price after each proof, seeder by
seeder, is within the escrow, because a proof pays for the time since the last
one and never beyond the end of the content.
`CountsTheorem`: the counters of sales and ratings are the cardinalities of
the sets of purchases, and the rounded average stays between the ratings.
`MaintenanceReturns` adds to the invariant how the times relate (`TimesOK`):
block times are multiples of the block interval, expirations any second, so an
expiration up to the last maintenance block is in some window of housekeeping or
strictly between a maintenance block and the next slot, which is `Skipped`. It
needs no hypothesis. `SeededTheorem` follows the set of contents a seeder is
counted for through the first proof of each and the walk over it, for any
seeders, chosen or not; it assumes that there is less content than the counters
can count (`CounterWide`).

**`LedgerProofs`.** `SupplyTheorem` follows the excess of an asset, what its
parts add up to less the recorded supply, through every primitive the
evaluators are made of: each lemma says by how much one primitive moves it, and
each operation's add up to zero, but for a creation's, which add up to what it
adds to `made`. It has no hypothesis on fees, assets and rates. `VestingTheorem`:
the coin seconds recorded are those earned by the balance actually held, and
what a deposit or a withdrawal multiplies and divides never rounds in favour of
the owner; linear vesting pays nothing before its cliff.
`PermissionTheorem`: the claims recorded for the period are those made in it,
across idle periods and claims on the boundary.

**`MinerScheduleProofs`.** `SupplyTheorem`: the recorded supply, corrected by
what was collected and mined since the last budget, is the real one; it is
inductive together with the types of the quantities, because every call of
`_apply_block` moves an amount from one of them to another, and
`process_budget` rearranges them. It is the assertion at `db_maint.cpp:189`,
for any miners, parameters, rewards and block times. `IrreversibleTheorem`:
the invariant is `ConfirmedSigned` (what a miner is recorded to have confirmed
is a block it signed, no later than the head); the lemma on `NthConfirmed`
counts the miners that stand at or above the chosen one with the theorems on
cardinality. It assumes `StaleProduction = FALSE`. `SlotsTheorem`: the two slot
functions are inverse to each other for any interval, head time and number of
skipped slots. `MedianTheorem`: the search over the histogram ends at a number
such that at most half of the stake asks for less and at most half for more;
the bins of the histogram are sums over the stakeholders. `BudgetTheorem`: the
invariant says of the n blocks since the last maintenance that each lies in a
later slot than the one before and was paid its share and its reward
(`Since`); the slots of the interval bound n by the number of blocks that
maintenance planned for, with the rewards of the same block numbers. It assumes
that a maintenance skips slots (`SkipsSlots`: the parameter is 3 by default,
its validation at `fee_schedule.cpp:182` only asks for divisibility) and that
the reward's switches are further apart than an interval (`SparseSwitches`).

**`ProposalsProofs`.** `Good` relates the objects to the history of what was
executed: each executed proposal appears once and with all of its operations
or not at all, and none of the miner account before its review ended. The proof
follows the sessions of `push_proposal`: an invariant of a session that runs,
that it continues through every operation (those that create or delete
proposals included), and that undoing it restores objects and `_applied_ops`
together.
`ExpiredTheorem` is a loop invariant of `clear_expired_proposals`: the expired
proposals left are at most as many as the rounds left, whatever an executed
proposal creates or deletes. The recursive functions of the model are shown to
exist by induction on the number of steps. What the authorities decide is an arbitrary
predicate in these three theorems.

`AuthorizedTheorem` is about that decision. Take any closed set of accounts:
one that holds those that approved and every account whose active authority it
meets together with the keys. By induction on the levels of the search, a
check that starts with a memory inside the set ends with one inside it, and
returns true only if the set and the keys meet the authority: what the loop
has counted is at most the weight of the members seen that are in the set,
each counted once because the members are distinct. With the least closed set,
which is what `Granted` uses, nothing is found executable that the approvals
do not grant. `AuthoritiesAssumption` is what it needs: finitely many accounts
and keys, weights and thresholds that are naturals, authorities and operations
that name existing accounts.

**`ChainDatabaseProofs`.** The invariant `CInv(G)` says that the states in the
undo history, the one pop_block would return to last and the present one form
a chain: each is the one before plus a block that applies to it, with the
pending transactions above the topmost (`HistOK`), and that the locals of
`push_block` fit the place it is at (`Control`). It is proved once for any set
`G` of states that contains what applying a block to one of its members gives,
and used for three: all states (`ChainTypes`, `UndoTheorem`,
`SurvivalTheorem`), those whose transactions include the ones of their chain
(`OnceTheorem`) and those whose chain has no bad block.
`UndoTheorem` and `SurvivalTheorem` need no hypothesis: any tree of blocks,
valid or not, any interleaving with transactions, plugin sessions, crashes and
restarts. `ReversibleTheorem` has none either. Its invariant (`ReachInv`)
says that the copies in the history are of consecutive blocks, that the limit is
greater than the distance from `final` to the head as soon as there is something
to undo, and that the oldest copy is the start or at most one block above
`final` (`Reaches`). A session that trims the history leaves one copy less than
the limit at the worst, which is where the one block is lost; a pop shortens the
history and the distance together, also after a switch that lowered the last
irreversible block.
`OnceTheorem` is for nodes that never replay their log; section 3
says what a replay does. For the block log, `LogInv` says that the blocks that
can be fetched from it, with and without its last write, lie on one path of
blocks that apply, and on the head's while the node runs. `GoodForksTheorem`
proves `CrashSafeLog` from it as long as no fork switch fails; failed switches
are covered by `CrashTheorem`, under the condition that `last()` is the
highest block that can be fetched when the node starts (`LastHighest`). That a
failed switch can endanger this condition is visible in the code: it stores the
old blocks under the id, and number, of the pushed block. `LogTheorem` and
`StartTheorem` sharpen this to a log that holds exactly the current chain
(`FullOn`) and to starts, clean or by replay, whose fork database is at the
head; they assume that no switch fails and that `pop_block` does not find the
history empty after it has removed the block from the log (`PopUncommitted`,
the exception of section 3).

**`BlockSyncProofs`.** The invariant is about one node at a time; of the
messages it says only that their ids are blocks and that the ids of an answer
form a chain, since a node must keep its own books whatever the others do. `NodeOK(n, K, s)` says of a set `K` of
blocks that the list of ids to get from each peer is a chain of blocks that
starts above a block of `K`, that the synopsis of a pending request lies in
`K` and that list, that the last block seen of the peer is in `K`, and that
what the node knows is closed under parents.
`Tracked` says that `_active_sync_requests` is the disjoint union of what the
peers were asked for, with nothing left on a closed connection. Each handler is
followed once, for any `K`, and each has its lemma; the loops (one round per
received block, one per peer asked) are recursive functions with a loop
invariant. The result is used twice.
`RequestsTrackedHolds` takes all blocks for `K` and needs no hypothesis: any
network, any tree, bad blocks, time-outs and connections that close with
answers under way. `SyncInOrderHolds` takes for `K` the blocks the node knows
and those it has handed to the chain in calls that have not run (`Handed`).
Then the invariant says that the next block of any list has its parent there,
so what `process_backlog_of_sync_blocks` appends to the calls is in order
(`Ordered`), and stays so when a rejected block makes the node drop lists. It
assumes `FinalTree`: no fork leaves a chain at or below its last irreversible
block. Without it a peer's fork may have a block the chain refuses as too old,
and its successor, already handed over, does not link. `MCBlockSync` assumes
`FinalTree`, so TLC evaluates it on the tree of each run, forks included.
Assumptions on the constants: finitely many nodes and blocks (ids are hashes
of 160 bits), links between different nodes, limits of at least one, and at
least two ids to an answer.

Only model-checked:

- liveness: `CatchesUp` of both modules, and `SyncFinishes`, which is its
  safety part;
- of `ChainDatabase`: `HeadLinkable`, which holds on the tree of its run and
  not on every tree: besides bad blocks (section 3), a fork that begins
  before the fork database does is kept though it cannot be switched to, and
  pushes the head out once it is longer by the limit, as TLC finds when the tree
  is extended. And `PushUnwound`, whose proof would follow the blocks popped
  and applied through both directions of a switch;
- `GrantedIsAuthorized`, the converse of what `AuthorizedTheorem` proves, which
  holds of authorities no deeper than `MaxDepth` only: below that the search
  refuses what the reference definition grants;
- of `BlockSync`: `HonestTrusted`, which relates a request under way on one
  node to the chain of another at the time of the answer, and
  `SynopsisOrdered`, whose order depends in the same way on both sides. The
  end of the synopsis is not inductive as it stands: for a list wholly below
  the last irreversible block the loop of
  `create_blockchain_synopsis_for_peer` would read past the list, where the
  model appends nothing. No run reaches such a list.

## 5. Not modelled

Cryptography, serialisation, files other than the block log, remote APIs, the
wallet and user interfaces; operations that are a single assignment behind
assertions; the mode of the undo history in which it is disabled. Monitored
assets and their price feeds (a median of numbers). Subscriptions, which are a
constant of `ContentTrading`. Of the network: transactions as items, expiry of
inventories and of the message cache, the checks of the handshake, addresses
and firewall checks. Packages and the seeding plugin's own thread, whose
steps are transfers by external programs. The `components` of `PROJECT.json`
give a reason for each part.

## 6. Plan

1. Done: undo history, content trading and miner schedule with their proofs;
   chain database; synchronisation; proposals and authorities; ledger.
2. Next: subscriptions renewed by housekeeping, composed with
   `ContentTrading`; expiry of transactions and of price feeds; the seeding
   plugin with its own thread and restart.
3. Proofs, done: all of `UndoDatabase`, `ContentTrading`, `MinerSchedule` and
   `Ledger`; of `Proposals` and `ChainDatabase` all but the ones section 4
   names; `RequestsTracked` and `SyncInOrder` of the synchronisation. Next: an
   invariant of two nodes and their connection for `HonestTrusted`.
