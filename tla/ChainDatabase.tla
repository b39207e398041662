--------------------------- MODULE ChainDatabase ---------------------------
(***************************************************************************)
(* chain::database as a node drives it: push_block with the switch to a    *)
(* longer fork and its failure, push_transaction, close, and the start     *)
(* after a clean or an unclean shutdown.                                   *)
(*                                                                         *)
(* The object database is abstracted to what these operations decide on:   *)
(* the head block, the known transactions and the records the seeding      *)
(* plugin keeps.  The undo history is used as SnapshotStack promises it    *)
(* (UndoDatabase shows that the real one keeps the promise): a sequence of *)
(* copies of that state.  One thread runs these operations, so only a      *)
(* crash can come between the steps of push_block.                         *)
(*                                                                         *)
(* Left out: checkpoints and skip flags, expiry of known transactions,     *)
(* transactions that become invalid for other reasons than being known.    *)
(***************************************************************************)
EXTENDS BlockTree

CONSTANTS DefaultMaxSize,   \* fork_database::_max_size and the first undo limit
          MaxNum,           \* bound: the highest block number
          Seeded,           \* blocks with content that this node's seeder stores
          Bought,           \* blocks with a purchase of content it stores
          KeyTx,            \* such a block -> the plugin's deliver_keys transaction
          ProposalTxs,      \* transactions that execute a proposal
          Crashes           \* bound: how many crashes

ASSUME PluginAssumption ==
    /\ Seeded \subseteq Blocks /\ Bought \subseteq Blocks
    /\ KeyTx \in [Bought -> Txs \ ProposalTxs] /\ ProposalTxs \subseteq Txs
    /\ DefaultMaxSize \in Nat \ {0, 1} /\ Crashes \in Nat
    /\ MaxNum \in Nat /\ \A b \in Blocks : Num[b] <= MaxNum

Fork == INSTANCE ForkDatabase
Log == INSTANCE BlockLog

VARIABLES fork,             \* _fork_db
          log,              \* _block_id_to_block
          synced,           \* the log without its last write, which the file
                            \* streams buffer until they are used again
          db,               \* the object database
          undo,             \* _undo_db: copies of db, oldest first
          undo_max,         \* its max_size
          pending,          \* _pending_tx
          pending_session,  \* _pending_tx_session.valid()
          popped,           \* _popped_tx
          disk,             \* the object database as flushed by close()
          clean,            \* the last run of the node ended in close()
          base,             \* auxiliary: the head this run of the node started from
          final,            \* auxiliary: the highest last irreversible block of this run
          crashes,
          pc,               \* where the running operation is
          call              \* its locals

vars == <<fork, log, synced, db, undo, undo_max, pending, pending_session, popped,
          disk, clean, base, final, crashes, pc, call>>

node == <<disk, clean, base, crashes>>
blocklog == <<log, synced>>
mempool == <<pending, pending_session>>

Genesis == [head |-> None, txs |-> {}, records |-> {}]
DbState == [head : BlockIds, txs : SUBSET Txs, records : SUBSET Blocks]

(* The locals of push_block: the block, the pending transactions that the  *)
(* restorer holds, the two branches of a fork switch (oldest first), how   *)
(* far the loop over one of them is, and how the call ends.  before is     *)
(* auxiliary: the object database the call started from.                   *)
NoCall == [block |-> None, held |-> {}, first |-> << >>, second |-> << >>,
           next |-> 1, result |-> "none", before |-> Genesis, cutoff |-> 0]

Top(s) == s[Len(s)]
Front(s) == SubSeq(s, 1, Len(s) - 1)

-----------------------------------------------------------------------------
(* Undo sessions.                                                          *)

(* start_undo_session forgets the oldest copies beyond limit m. *)
Trim(u, m) == IF Len(u) > m THEN SubSeq(u, Len(u) - m + 1, Len(u)) ELSE u
Start(u, m, d) == Append(Trim(u, m), d)

(* The temporary session of each transaction is undone or merged at once,  *)
(* and so is the one a proposal runs in: only the trimming is left.        *)
Nested(u, m, ts) ==
    IF ts \cap ProposalTxs = {} THEN Trim(u, m) ELSE Front(Trim(Start(u, m, db), m))

(* _push_transaction opens the pending session if there is none. *)
PendingOpened(d) == IF pending_session THEN undo ELSE Start(undo, undo_max, d)

(* clear_pending(): undo what the pending transactions did. *)
ClearedDb == IF pending_session THEN Top(undo) ELSE db
(* Mutation: the pending session is left on the stack. *)
ClearedUndoKept == undo
ClearedUndo == IF pending_session THEN Front(undo) ELSE undo

(* apply_block on state d: validate_block_header and the duplicate check   *)
(* of _apply_transaction, then the new head.                               *)
Applies(b, d) ==
    /\ b \notin Bad
    /\ Parent[b] = d.head
    /\ BlockTxs[b] \cap d.txs = {}

Applied(b, d) == [d EXCEPT !.head = b, !.txs = @ \cup BlockTxs[b]]

(* update_global_dynamic_data sets both limits, with the last irreversible *)
(* block of the parent.                                                    *)
(* Mutation: the limit is one block short, of at least two blocks. *)
HistorySizeShort(b) == Larger(2, Num[b] - Lib[Parent[b]])
HistorySize(b) == Num[b] - Lib[Parent[b]] + 1

Write(l) == log' = l /\ synced' = log

(* A proposal that the block executes runs in a session above the block's, *)
(* which forgets one copy more.                                            *)
BlockLimit(b) == IF BlockTxs[b] \cap ProposalTxs = {} THEN undo_max ELSE undo_max - 1

(* A session around apply_block, the block stored under id, the commit.    *)
ApplyAndStore(b, id) ==
    /\ db' = Applied(b, db)
    /\ undo' = Start(undo, BlockLimit(b), db)
    /\ final' = Larger(final, Lib[b])
    /\ undo_max' = HistorySize(b)
    /\ fork' = Fork!set_max_size(fork, HistorySize(b))
    /\ Write(Log!store(log, id, b))

-----------------------------------------------------------------------------
(* pop_block(): the assertions it makes, in the order it makes them.       *)
HeadFetchable == db.head \in fork.index \/ (db.head # None /\ Log!CanFetch(log, db.head))
PopStarts == HeadFetchable /\ Fork!CanPop(fork)

(* Mutation: the block stays in the log. *)
PopBlockKeepsLog ==
    /\ PopStarts /\ undo # << >>
    /\ fork' = Fork!pop_block(fork)
    /\ db' = Top(undo)
    /\ undo' = Front(undo)
    /\ popped' = popped \cup BlockTxs[db.head]
    /\ UNCHANGED <<blocklog, undo_max>>

(* Mutation: the transactions of the block are not kept. *)
PopBlockLosesTxs ==
    /\ PopStarts /\ undo # << >>
    /\ fork' = Fork!pop_block(fork)
    /\ Write(Log!remove(log, db.head))
    /\ db' = Top(undo)
    /\ undo' = Front(undo)
    /\ UNCHANGED <<undo_max, popped>>

PopBlock ==
    /\ PopStarts /\ undo # << >>
    /\ fork' = Fork!pop_block(fork)
    /\ Write(Log!remove(log, db.head))
    /\ db' = Top(undo)
    /\ undo' = Front(undo)
    /\ popped' = popped \cup BlockTxs[db.head]
    /\ UNCHANGED undo_max

-----------------------------------------------------------------------------
(* push_block(b).                                                          *)

is_known_block(b) == b \in fork.index \/ Log!contains(log, b)

(* "As long as blocks are pushed in order" is the fork database's          *)
(* condition: one without a head would take any block as its first, and    *)
(* one with a head links any block 1.  The network layer starts with block *)
(* 1 on an empty chain and does not ask again for a known one.             *)
InOrder(b) ==
    /\ fork.head = None => Parent[b] = None
    /\ Parent[b] = None => ~is_known_block(b)

(* without_pending_transactions empties the pending state; then the block  *)
(* goes to the fork database, whose head decides what happens.             *)
PushBlock(b) ==
    LET f == IF Fork!TooOld(fork, b) \/ Fork!Unlinkable(fork, b) THEN fork
             ELSE Fork!push_block(fork, b)
        h == f.head
        c == Fork!ForkPoint(h, ClearedDb.head)
        plain == [NoCall EXCEPT !.block = b, !.held = pending, !.before = ClearedDb]
        Goto(step, locals) == pc' = step /\ call' = locals
    IN  /\ pc = "idle"
        /\ InOrder(b)
        /\ db' = ClearedDb
        /\ undo' = ClearedUndo
        /\ pending' = {}
        /\ pending_session' = FALSE
        /\ fork' = f
        /\ \/ /\ Fork!TooOld(fork, b) \/ Fork!Unlinkable(fork, b)
              /\ Goto("restore", [plain EXCEPT !.result = "rejected"])
           \/ /\ ~Fork!TooOld(fork, b) /\ ~Fork!Unlinkable(fork, b)
              /\ \/ Parent[h] = ClearedDb.head /\ Goto("apply", plain)
                 \/ /\ Parent[h] # ClearedDb.head
                    /\ Num[h] <= Num[ClearedDb.head]
                    /\ Goto("restore", [plain EXCEPT !.result = "kept"])
                 \/ /\ Parent[h] # ClearedDb.head
                    /\ Num[h] > Num[ClearedDb.head]
                    /\ IF Fork!CanFetchBranches(f, h, ClearedDb.head)
                       THEN Goto("pop", [plain EXCEPT
                                !.first = Fork!BranchAfter(h, c),
                                !.second = Fork!BranchAfter(ClearedDb.head, c)])
                       ELSE Goto("restore", [plain EXCEPT !.result = "failed"])
        /\ UNCHANGED <<blocklog, undo_max, popped, node, final>>

(* The new block builds on the head. *)
ApplyNew ==
    /\ pc = "apply"
    /\ Applies(call.block, db)
    /\ ApplyAndStore(call.block, call.block)
    /\ pc' = "notify"
    /\ UNCHANGED <<popped, call, mempool, node>>

(* ... or does not apply, before or after its proposals: the session is    *)
(* undone and the block removed from the fork database.                    *)
ApplyNewFails ==
    /\ pc = "apply"
    /\ ~Applies(call.block, db)
    /\ undo' \in {Trim(undo, m) : m \in {undo_max, BlockLimit(call.block)}}
    /\ fork' = Fork!remove(fork, call.block)
    /\ pc' = "restore"
    /\ call' = [call EXCEPT !.result = "failed"]
    /\ UNCHANGED <<blocklog, db, undo_max, popped, mempool, node, final>>

(* The plugins hear of the operations of the new block, in a session of    *)
(* their own that is merged into the block's.  The seeding plugin records  *)
(* content it stores, and answers a purchase by pushing a transaction from *)
(* inside the notification: that opens the pending session on top of the   *)
(* notification's, and merge() always takes the topmost one.               *)
Notify ==
    LET b == call.block
        recorded == IF b \in Seeded THEN [db EXCEPT !.records = @ \cup {b}] ELSE db
        own == Start(undo, undo_max, db)
        t == KeyTx[b]
    IN  /\ pc = "notify"
        /\ IF b \in Bought
           THEN /\ db' = [recorded EXCEPT !.txs = @ \cup {t}]
                /\ undo' = Front(Nested(Start(own, undo_max, recorded), undo_max, {t}))
                /\ pending' = IF t \in db.txs THEN {} ELSE {t}
                /\ pending_session' = TRUE
           ELSE /\ db' = recorded
                /\ undo' = Front(own)
                /\ UNCHANGED <<pending, pending_session>>
        /\ pc' = "restore"
        /\ call' = [call EXCEPT !.result = "applied"]
        /\ UNCHANGED <<fork, blocklog, undo_max, popped, node, final>>

(* Fork switch: pop blocks until the head is the common ancestor. *)
AtForkPoint == db.head = Parent[call.second[1]]

SwitchPop ==
    /\ pc = "pop"
    /\ ~AtForkPoint
    /\ PopBlock
    /\ UNCHANGED <<pc, call, mempool, node, final>>

(* Mutation: blocks are stored under the id of the pushed one. *)
SwitchApplyWrongId ==
    LET b == call.first[call.next]
    IN  /\ (pc = "pop" /\ AtForkPoint) \/ pc = "switch"
        /\ Applies(b, db)
        /\ ApplyAndStore(b, call.block)
        /\ IF call.next = Len(call.first)
           THEN pc' = "restore" /\ call' = [call EXCEPT !.result = "switched"]
           ELSE pc' = "switch" /\ call' = [call EXCEPT !.next = @ + 1]
        /\ UNCHANGED <<popped, mempool, node>>

(* ... then apply the blocks of the new fork, oldest first. *)
SwitchApply ==
    LET b == call.first[call.next]
    IN  /\ (pc = "pop" /\ AtForkPoint) \/ pc = "switch"
        /\ Applies(b, db)
        /\ ApplyAndStore(b, b)
        /\ IF call.next = Len(call.first)
           THEN pc' = "restore" /\ call' = [call EXCEPT !.result = "switched"]
           ELSE pc' = "switch" /\ call' = [call EXCEPT !.next = @ + 1]
        /\ UNCHANGED <<popped, mempool, node>>

(* Mutation: the exception leaves before the old fork is restored. *)
SwitchFailsNoUnwind ==
    LET b == call.first[call.next]
        rest == {call.first[n] : n \in call.next .. Len(call.first)}
    IN  /\ (pc = "pop" /\ AtForkPoint) \/ pc = "switch"
        /\ ~Applies(b, db)
        /\ undo' \in {Trim(undo, m) : m \in {undo_max, BlockLimit(b)}}
        /\ fork' = Fork!set_head(Fork!Erase(fork, rest), Top(call.second))
        /\ pc' = "restore"
        /\ call' = [call EXCEPT !.result = "failed"]
        /\ UNCHANGED <<blocklog, db, undo_max, popped, mempool, node, final>>

(* A block of the new fork does not apply: it and the ones after it leave  *)
(* the fork database, whose head becomes the old head.                     *)
SwitchFails ==
    LET b == call.first[call.next]
        rest == {call.first[n] : n \in call.next .. Len(call.first)}
    IN  /\ (pc = "pop" /\ AtForkPoint) \/ pc = "switch"
        /\ ~Applies(b, db)
        /\ undo' \in {Trim(undo, m) : m \in {undo_max, BlockLimit(b)}}
        /\ fork' = Fork!set_head(Fork!Erase(fork, rest), Top(call.second))
        /\ pc' = "unwind"
        /\ call' = [call EXCEPT !.next = 1]
        /\ UNCHANGED <<blocklog, db, undo_max, popped, mempool, node, final>>

UnwindPop ==
    /\ pc = "unwind"
    /\ ~AtForkPoint
    /\ PopBlock
    /\ UNCHANGED <<pc, call, mempool, node, final>>

(* pop_block throws and the exception leaves push_block.  When it is       *)
(* pop_commit that finds no history, the fork database and the block log   *)
(* have lost the block already.                                            *)
SwitchThrows ==
    /\ pc \in {"pop", "unwind"}
    /\ ~AtForkPoint
    /\ ~PopStarts \/ undo = << >>
    /\ IF PopStarts
       THEN fork' = Fork!pop_block(fork) /\ Write(Log!remove(log, db.head))
       ELSE UNCHANGED <<fork, blocklog>>
    /\ pc' = "restore"
    /\ call' = [call EXCEPT !.result = "thrown"]
    /\ UNCHANGED <<db, undo, undo_max, popped, mempool, node, final>>

(* ... and restore the blocks of the old fork.  They are stored under the  *)
(* id of the block that was pushed.                                        *)
UnwindApply ==
    LET b == call.second[call.next]
    IN  /\ (pc = "unwind" /\ AtForkPoint) \/ pc = "redo"
        /\ Applies(b, db)
        /\ ApplyAndStore(b, call.block)
        /\ IF call.next = Len(call.second)
           THEN pc' = "restore" /\ call' = [call EXCEPT !.result = "failed"]
           ELSE pc' = "redo" /\ call' = [call EXCEPT !.next = @ + 1]
        /\ UNCHANGED <<popped, mempool, node>>

(* The restorer pushes the popped and the formerly pending transactions    *)
(* that are not known.  An already valid pending session is used again.    *)
(* Mutation: known transactions are pushed again. *)
ToRestoreAll == popped \cup call.held
ToRestore == (popped \cup call.held) \ db.txs

Restore ==
    LET again == ToRestore
    IN  /\ pc = "restore"
        /\ db' = [db EXCEPT !.txs = @ \cup again]
        /\ pending' = pending \cup again
        /\ pending_session' = (pending_session \/ again # {})
        /\ undo' = IF again = {} THEN undo
                   ELSE Nested(PendingOpened(db), undo_max, again)
        /\ popped' = {}
        /\ pc' = "idle"
        /\ call' = NoCall
        /\ UNCHANGED <<fork, blocklog, undo_max, node, final>>

-----------------------------------------------------------------------------
(* push_transaction(t): the pending session is opened even when t turns    *)
(* out to be known and is refused.                                         *)
PushTransaction(t) ==
    /\ pc = "idle"
    /\ undo' = Nested(PendingOpened(db), undo_max, {t} \ db.txs)
    /\ pending_session' = TRUE
    /\ pending' = pending \cup ({t} \ db.txs)
    /\ db' = [db EXCEPT !.txs = @ \cup {t}]
    /\ UNCHANGED <<fork, blocklog, undo_max, popped, pc, call, node, final>>

-----------------------------------------------------------------------------
(* close(): pending transactions are dropped, blocks are popped down to    *)
(* the last irreversible one or until pop_block throws, the object         *)
(* database is flushed.                                                    *)
Close ==
    /\ pc = "idle"
    /\ db' = ClearedDb
    /\ undo' = ClearedUndo
    /\ pending' = {}
    /\ pending_session' = FALSE
    /\ pc' = "rewind"
    /\ call' = [NoCall EXCEPT !.cutoff = Lib[ClearedDb.head]]
    /\ UNCHANGED <<fork, blocklog, undo_max, popped, node, final>>

Rewind ==
    /\ pc = "rewind"
    /\ Num[db.head] > call.cutoff
    /\ PopStarts /\ undo # << >>
    /\ fork' = Fork!remove(Fork!pop_block(fork), db.head)
    /\ Write(Log!remove(log, db.head))
    /\ db' = Top(undo)
    /\ undo' = Front(undo)
    /\ popped' = popped \cup BlockTxs[db.head]
    /\ UNCHANGED <<undo_max, pc, call, mempool, node, final>>

(* The loop ends, or an exception ends it.  When pop_commit is the one to  *)
(* throw the log has lost its last block before.                           *)
Flush ==
    /\ pc = "rewind"
    /\ Num[db.head] <= call.cutoff \/ ~PopStarts \/ undo = << >>
    /\ log' = IF Num[db.head] > call.cutoff /\ PopStarts THEN Log!remove(log, db.head) ELSE log
    /\ synced' = log'
    /\ disk' = db
    /\ clean' = TRUE
    /\ fork' = Fork!reset(fork)
    /\ popped' = {}
    /\ undo' = << >>
    /\ pc' = "down"
    /\ call' = NoCall
    /\ UNCHANGED <<db, undo_max, base, final, crashes, mempool>>

(* The process dies: what it held in memory is lost, the last write to the *)
(* block log perhaps with it.                                              *)
Crash ==
    /\ pc # "down"
    /\ crashes < Crashes
    /\ crashes' = crashes + 1
    /\ clean' = FALSE
    /\ db' = disk
    /\ undo' = << >>
    /\ fork' = Fork!ForkEmpty
    /\ pending' = {} /\ pending_session' = FALSE /\ popped' = {}
    /\ pc' = "down"
    /\ call' = NoCall
    /\ log' \in {log, synced}
    /\ synced' = log'
    /\ UNCHANGED <<undo_max, disk, base, final>>

(* open() after a clean shutdown: the fork database starts from the last   *)
(* block of the log, which has to be the head.                             *)
OpenMatches == Log!last(log) \in {db.head, None} \/ db.head = None

Open ==
    /\ pc = "down"
    /\ clean
    /\ OpenMatches
    /\ fork' = IF Log!last(log) = None THEN Fork!ForkEmpty
               ELSE Fork!start_block(Fork!ForkEmpty, Log!last(log))
    /\ undo_max' = DefaultMaxSize
    /\ clean' = FALSE
    /\ base' = db.head
    /\ final' = Lib[db.head]
    /\ pc' = "idle"
    /\ UNCHANGED <<blocklog, db, undo, popped, disk, crashes, call, mempool>>

(* After an unclean shutdown, or when open() throws, the node replays its  *)
(* block log from genesis; the fork database was started before from the   *)
(* last block of the log.  The replay skips the duplicate check, and with  *)
(* it the recording of the transactions, and notifies no plugin.           *)
Reindex ==
    LET top == Log!last(log)
        n == Smaller(Log!Replayable(log), Num[top])
        h == IF n = 0 THEN None ELSE log[n].data
        started == Fork!start_block(Fork!ForkEmpty, top)
    IN  /\ pc = "down"
        /\ ~clean \/ ~OpenMatches
        /\ db' = [Genesis EXCEPT !.head = h]
        /\ undo_max' = IF h = None THEN DefaultMaxSize ELSE HistorySize(h)
        /\ fork' = IF top = None THEN Fork!ForkEmpty
                   ELSE IF h = None THEN started
                   ELSE Fork!set_max_size(started, HistorySize(h))
        /\ log' = IF n < Num[top] THEN Log!DropAbove(log, n + 1) ELSE log
        /\ synced' = IF n < Num[top] THEN Log!DropAbove(log, n + 2) ELSE log
        /\ clean' = FALSE
        /\ base' = h
        /\ final' = Lib[h]
        /\ pc' = "idle"
        /\ UNCHANGED <<undo, popped, disk, crashes, call, mempool>>

-----------------------------------------------------------------------------
Init ==
    /\ fork = Fork!ForkEmpty
    /\ log = Log!EmptyLog
    /\ synced = Log!EmptyLog
    /\ db = Genesis
    /\ undo = << >>
    /\ undo_max = DefaultMaxSize
    /\ pending = {}
    /\ pending_session = FALSE
    /\ popped = {}
    /\ disk = Genesis
    /\ clean = FALSE
    /\ base = None
    /\ final = 0
    /\ crashes = 0
    /\ pc = "idle"
    /\ call = NoCall

PushStep ==
    \/ ApplyNew \/ ApplyNewFails \/ Notify
    \/ SwitchPop \/ SwitchApply \/ SwitchFails
    \/ UnwindPop \/ UnwindApply \/ SwitchThrows
    \/ Restore

Next ==
    \/ \E b \in Blocks : PushBlock(b)
    \/ PushStep
    \/ \E t \in Txs : PushTransaction(t)
    \/ Close \/ Rewind \/ Flush
    \/ Crash
    \/ Open \/ Reindex

Spec == Init /\ [][Next]_vars

(* A call of push_block that has started runs to its end, a stopped node   *)
(* is started again, and the network keeps offering every block.           *)
FairSpec ==
    /\ Spec
    /\ WF_vars(PushStep)
    /\ WF_vars(Rewind \/ Flush \/ Open \/ Reindex)
    /\ \A b \in Blocks : SF_vars(PushBlock(b))

-----------------------------------------------------------------------------
(* Every variable holds what its C++ type and its use allow. *)
TypeOK ==
    /\ fork \in Fork!ForkState
    /\ \A n \in 1 .. MaxNum : log[n] \in Log!Entry /\ synced[n] \in Log!Entry
    /\ {db, disk, call.before} \cup {undo[n] : n \in DOMAIN undo} \subseteq DbState
    /\ undo_max \in Nat
    /\ pending \subseteq Txs /\ popped \subseteq Txs /\ call.held \subseteq Txs
    /\ pending_session \in BOOLEAN /\ clean \in BOOLEAN
    /\ base \in BlockIds /\ call.block \in BlockIds /\ final \in Nat
    /\ crashes \in 0 .. Crashes
    /\ pc \in {"idle", "apply", "notify", "pop", "switch", "unwind", "redo",
               "restore", "rewind", "down"}

(* The copies pop_block can go back to, and the state they lead to. *)
Committed == IF pending_session THEN Front(undo) ELSE undo
History == Append(Committed, IF pending_session THEN Top(undo) ELSE db)

(* Undoing one block lands on exactly its parent, whatever forks, failed   *)
(* blocks, pending transactions and plugin sessions came before: the undo  *)
(* history, the fork database and the block log are moved by pop_block     *)
(* together, and nothing but this keeps them in step.                      *)
UndoAligned ==
    \A n \in 1 .. Len(Committed) :
      History[n + 1].head # None /\ Parent[History[n + 1].head] = History[n].head

(* With no call running, the block log holds exactly the blocks of the     *)
(* current chain (db_block.cpp: pop_block removes what push_block stored). *)
LogMatchesChain ==
    pc = "idle" =>
      \A n \in 1 .. MaxNum :
        IF n <= Num[db.head]
        THEN log[n] = [id |-> PathTo[db.head][n], data |-> PathTo[db.head][n], live |-> TRUE]
        ELSE ~log[n].live

(* A crash at any step, in the middle of a fork switch too, leaves a log   *)
(* whose replayable part is a chain of blocks that apply to each other.    *)
CrashSafeLog ==
    \A l \in {log, synced} :
      \A n \in 1 .. Log!Replayable(l) :
        /\ Parent[l[n].data] = (IF n = 1 THEN None ELSE l[n - 1].data)
        /\ l[n].data \notin Bad

(* The undo history reaches back to the block after the highest last       *)
(* irreversible block this run of the node has had, or to the block it was *)
(* started from: of the blocks that were always reversible at most one     *)
(* cannot be left.  That one is lost to a pending transaction that         *)
(* executes a proposal, or to one a plugin pushes from a notification:     *)
(* they open a third session where the limit of update_global_dynamic_data *)
(* foresees two.  After a switch to a fork whose last irreversible block   *)
(* is lower, blocks that have become reversible again stay out of reach.   *)
ReversibleUndoable ==
    pc = "idle" =>
      \/ History[1].head = base
      \/ Num[History[1].head] <= final + 1

(* A push_block that fails or changes nothing leaves the chain state it    *)
(* started from, over a switch to another fork and back: the same head and *)
(* the same known transactions.  This is the part of "every partial change *)
(* is unwound" (db_block.cpp) that the code keeps.  It does not keep it    *)
(* when pop_block throws in the middle (SwitchThrows), nor for the block   *)
(* log, where the old fork is stored under the id of the pushed block, nor *)
(* for the head of the fork database, nor for the plugins' records.        *)
PushUnwound ==
    pc = "restore" /\ call.result \in {"failed", "rejected", "kept"} =>
      /\ db.head = call.before.head
      /\ db.txs = call.before.txs

(* A child of the head can always be linked: trimming the fork database to *)
(* the reversible blocks never drops the head.                             *)
HeadLinkable ==
    pc = "idle" /\ Num[db.head] > 0 => db.head \in fork.index

(* A transaction the chain already contains is never pending again. *)
NothingAppliedTwice ==
    pc = "idle" => \A b \in OnPath(db.head) : BlockTxs[b] \cap pending = {}

(* A transaction the node accepted stays in the chain or among the pending *)
(* ones through every fork switch, failed or not, until the node stops.    *)
Accepted == db.txs \cup pending \cup popped \cup call.held
TransactionsSurvive ==
    [][pc' \notin {"rewind", "down"} /\ pc # "down" /\ pc # "rewind" => Accepted \subseteq Accepted']_vars

(* After a start, clean or not, the fork database begins at the head the   *)
(* object database has: open() asserts "last block ID does not match       *)
(* current chain state" otherwise.                                         *)
StartsFromHead == [][pc = "down" /\ pc' = "idle" => fork'.head = db'.head]_vars

(* A node that is never stopped ends on the longest chain the network      *)
(* offers, from any fork it may have followed and whatever is pushed in    *)
(* between.  (One that is restarted on a reversible block cannot leave it: *)
(* its fork database begins there.)                                        *)
Highest == \A b \in Blocks \ Bad : Num[b] <= Num[db.head]
CatchesUp == [](pc \notin {"rewind", "down"}) => <>[]Highest

(* The seeding plugin works: it keeps a record of all content of the chain *)
(* that this node has to store.                                            *)
SeederRecords == pc = "idle" => OnPath(db.head) \cap Seeded \subseteq db.records
=============================================================================
