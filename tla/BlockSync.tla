----------------------------- MODULE BlockSync -----------------------------
(***************************************************************************)
(* The block synchronisation of the p2p node (libraries/net/node.cpp), as  *)
(* every node of a network runs it: the exchange of synopses and lists of  *)
(* block ids, the fetching of sync blocks from several peers at a time,    *)
(* the backlog of received blocks and the tasks that hand them to the      *)
(* chain, the inventory that announces new blocks to peers in sync, and    *)
(* the loss and the renewal of connections.                                *)
(*                                                                         *)
(* The handlers of one node are fibers of one thread, so a handler is one  *)
(* action up to its call of handle_block, which runs in the thread of the  *)
(* chain: that is a step of its own (handle_block), and what the caller    *)
(* does with the result another.  The other calls of the delegate read the *)
(* chain and are taken as part of the handler.                             *)
(*                                                                         *)
(* node[n].peer[m] is the peer_connection n keeps for m, and its field     *)
(* out the messages sent on it and not yet received.                       *)
(***************************************************************************)
EXTENDS BlockTree, FiniteSetsExt, SequencesExt

CONSTANTS
    Nodes,
    Links,                  \* the pairs <<n, m>> where n connects to m
    Starts,                 \* node -> the head its chain starts with
    Miners,                 \* the nodes that produce blocks
    IdsPerReply,            \* the limit of get_block_ids
    MinIdsToPrefetch,       \* GRAPHENE_NET_MIN_BLOCK_IDS_TO_PREFETCH
    MaxBlocksPerPeer,       \* _maximum_blocks_per_peer_during_syncing
    MaxBlocksToHandle,      \* _maximum_number_of_blocks_to_handle_at_one_time
    MaxBlocksToPrefetch,    \* _maximum_number_of_sync_blocks_to_prefetch
    NotAsked,               \* item_ids_requested_from_peer is not set
    MaxConnects             \* bound: link -> the connections made over it

ASSUME LinksAssumption ==
    /\ IsFiniteSet(Nodes)
    /\ Links \subseteq Nodes \X Nodes
    /\ \A l \in Links : l[1] # l[2] /\ <<l[2], l[1]>> \notin Links
    /\ Starts \in [Nodes -> BlockIds]
    /\ Miners \subseteq Nodes

ASSUME LimitsAssumption ==
    /\ {MaxBlocksPerPeer, MaxBlocksToHandle} \subseteq Nat \ {0}
    /\ {MinIdsToPrefetch, MaxBlocksToPrefetch} \subseteq Nat
    /\ IdsPerReply \in Nat \ {0, 1}
    /\ MaxConnects \in [Links -> Nat]

(* A block id is a hash of 160 bits. *)
ASSUME IdsAssumption == IsFiniteSet(Blocks)

VARIABLES
    node,       \* node -> its state
    connects    \* link -> the connections made over it so far

vars == <<node, connects>>

-----------------------------------------------------------------------------
(* The state of a node, and of a connection as its constructor leaves it.  *)

Closed == [state                 |-> "closed",  \* which list it is on
           shut                  |-> TRUE,      \* the socket is closed here
           they_requested_close  |-> FALSE,
           we_need_sync_items    |-> TRUE,
           peer_needs_sync_items |-> TRUE,
           ids_of_items_to_get   |-> << >>,
           ids_being_processed   |-> {},
           number_of_unfetched   |-> 0,
           item_ids_requested    |-> NotAsked,
           sync_items_requested  |-> {},
           items_requested       |-> {},
           last_block_seen       |-> None,
           advertised_to_peer    |-> {},
           advertised_to_us      |-> {},
           pushing               |-> FALSE,     \* its fiber waits for handle_block
           misjudged             |-> FALSE,     \* history: dropped for a wrong answer
           out                   |-> << >>]

Neighbours(n) == {m \in Nodes : {<<n, m>>, <<m, n>>} \cap Links # {}}

NodeStart(n, b) ==
                [known         |-> OnPath(b),   \* the chain: is_known_block
                 head          |-> b,
                 active_sync   |-> {},          \* _active_sync_requests
                 received      |-> << >>,       \* _received_sync_items
                 new_received  |-> << >>,       \* _new_received_sync_items, last one first
                 calls         |-> << >>,       \* calls of handle_block in their order
                 handled       |-> << >>,       \* results the node has not seen yet
                 recent        |-> {b},         \* _most_recent_blocks_accepted
                 suspended     |-> FALSE,       \* _suspend_fetching_sync_blocks
                 items_to_fetch |-> {},
                 new_inventory |-> {},
                 due           |-> {},          \* loops and tasks triggered
                 peer          |-> [m \in Neighbours(n) |-> Closed]]

Init == /\ node = [n \in Nodes |-> NodeStart(n, Starts[n])]
        /\ connects = [l \in Links |-> 0]

Active(s) == {m \in DOMAIN s.peer : s.peer[m].state = "active"}

idle(p) == /\ p.items_requested = {}
           /\ p.sync_items_requested = {}
           /\ p.item_ids_requested = NotAsked

Send(p, msg) == [p EXCEPT !.out = Append(@, msg)]
Trigger(s, loop) == [s EXCEPT !.due = @ \cup {loop}]

(* The link carries nothing once one side has closed its socket. *)
Up(n, m) == ~node[n].peer[m].shut /\ ~node[m].peer[n].shut

-----------------------------------------------------------------------------
(* What the application answers about the chain.                           *)

Chain(s) == PathTo[s.head]
has_item(s, b) == b \in s.known
is_included_block(s, b) == b \in OnPath(s.head)
last_non_undoable_block_num(s) == Lib[s.head]

(* Mutation: without the id of the synopsis itself. *)
get_block_ids_after(s, synopsis) ==
    LET on    == {k \in DOMAIN synopsis : is_included_block(s, synopsis[k])}
        from  == IF on = {} THEN 1 ELSE Num[synopsis[Max(on)]] + 1
        last  == Smaller(Num[s.head], from + IdsPerReply - 1)
        none  == s.head = None \/ (on = {} /\ synopsis # << >>)
    IN  IF none THEN [ids |-> << >>, remaining |-> 0]
        ELSE [ids |-> SubSeq(Chain(s), from, last),
              remaining |-> Num[s.head] - last]

(* The ids after the last one of the synopsis that is on our chain, that   *)
(* one included; nothing for a peer whose synopsis has no such id.         *)
get_block_ids(s, synopsis) ==
    LET on    == {k \in DOMAIN synopsis : is_included_block(s, synopsis[k])}
        from  == IF on = {} THEN 1 ELSE Num[synopsis[Max(on)]]
        last  == Smaller(Num[s.head], from + IdsPerReply - 1)
        none  == s.head = None \/ (on = {} /\ synopsis # << >>)
    IN  IF none THEN [ids |-> << >>, remaining |-> 0]
        ELSE [ids |-> SubSeq(Chain(s), from, last),
              remaining |-> Num[s.head] - last]

(* Mutation: the steps are rounded up twice. *)
HalvingLong(low, high, top) ==
    LET from[n \in low .. Larger(low, top + 1)] ==
          IF n > high THEN << >> ELSE <<n>> \o from[n + (top - n + 3) \div 2]
    IN  from[low]

(* The numbers from low to high in steps that halve the distance to top. *)
Halving(low, high, top) ==
    LET from[n \in low .. Larger(low, top + 1)] ==
          IF n > high THEN << >> ELSE <<n>> \o from[n + (top - n + 2) \div 2]
    IN  from[low]

(* The last block of the path to b that is on our chain too. *)
LastCommon(s, b) == Cardinality(OnPath(b) \cap OnPath(s.head))

(* A peer on a fork that leaves our chain before what can be undone. *)
SynopsisTooOld(s, reference_point) ==
    /\ reference_point # None
    /\ ~is_included_block(s, reference_point)
    /\ LastCommon(s, reference_point) < last_non_undoable_block_num(s)

get_blockchain_synopsis(s, reference_point, after) ==
    LET tip  == IF reference_point = None THEN s.head ELSE reference_point
        high == Num[tip]
        low  == Larger(1, Smaller(last_non_undoable_block_num(s), high))
        nums == Halving(low, high, high + after)
    IN  IF high = 0 THEN << >>
        ELSE [k \in DOMAIN nums |-> PathTo[tip][nums[k]]]

(* handle_block: push_block of the chain database, the fork that becomes   *)
(* the longest included.                                                   *)
PushResult(s, b) ==
    IF Num[b] <= last_non_undoable_block_num(s) THEN "rejected"
    ELSE IF Parent[b] # None /\ Parent[b] \notin s.known THEN "unlinkable"
    ELSE "accepted"

Pushed(s, b) ==
    IF PushResult(s, b) # "accepted" THEN s
    ELSE [s EXCEPT !.known = @ \cup {b},
                   !.head = IF Num[b] > Num[@] THEN b ELSE @]

-----------------------------------------------------------------------------
(* The parts of the handlers.                                              *)

(* SelectSeq, as a function of the part of seq looked at. *)
KeepIn(seq, S) ==
    LET kept[i \in 0 .. Len(seq)] ==
          IF i = 0 THEN << >>
          ELSE IF seq[i] \in S THEN Append(kept[i - 1], seq[i]) ELSE kept[i - 1]
    IN  kept[Len(seq)]

(* Our chain up to the last block of the peer that we have, then the ids   *)
(* the peer has told us already.                                           *)
create_blockchain_synopsis_for_peer(s, p) ==
    LET ids   == p.ids_of_items_to_get
        ours  == get_blockchain_synopsis(s, p.last_block_seen, Len(ids))
        first == Num[ids[1]]
        top   == first + Len(ids) - 1
        low   == IF ours = << >> THEN 1 ELSE Num[ours[1]]
        nums  == KeepIn(Halving(low, top, top), first .. top)
    IN  IF ids = << >> THEN ours
        ELSE ours \o [k \in DOMAIN nums |-> ids[nums[k] - first + 1]]

(* A connection the other side wants closed is closed at once; otherwise   *)
(* the other side is asked to close it.                                    *)
disconnect_from_peer(p) ==
    IF p.they_requested_close THEN [p EXCEPT !.state = "closing", !.shut = TRUE]
    ELSE Send([p EXCEPT !.state = "closing"], [type |-> "closing_connection"])

fetch_next_batch_of_item_ids_from_peer(s, p) ==
    LET synopsis == create_blockchain_synopsis_for_peer(s, p)
    IN  IF SynopsisTooOld(s, p.last_block_seen) THEN disconnect_from_peer(p)
        ELSE Send([p EXCEPT !.item_ids_requested = synopsis],
                  [type |-> "fetch_blockchain_item_ids", synopsis |-> synopsis])

start_synchronizing_with_peer(s, p) ==
    fetch_next_batch_of_item_ids_from_peer(s,
        [p EXCEPT !.ids_of_items_to_get = << >>,
                  !.number_of_unfetched = 0,
                  !.we_need_sync_items = TRUE,
                  !.last_block_seen = None])

(* A peer joins the active list and synchronisation with it starts. *)
new_peer_just_added(s, p) ==
    start_synchronizing_with_peer(s, [p EXCEPT !.state = "active"])

(* Mutation: cached but not announced. *)
broadcast_quietly(s, b) == [s EXCEPT !.recent = @ \cup {b}]
broadcast(s, b) == [s EXCEPT !.recent = @ \cup {b}, !.new_inventory = @ \cup {b}]

WithPeer(s, m, p) == [s EXCEPT !.peer[m] = p]

-----------------------------------------------------------------------------
(* A peer asks for the ids that follow its synopsis.  Its answer is sent   *)
(* after the request of a synchronisation the other way, which starts when *)
(* the peer knows a block we do not.  The first such request of a peer     *)
(* that connected to us ends the handshake.                                *)
on_fetch_blockchain_item_ids_message(s, m, synopsis) ==
    LET reply  == get_block_ids(s, synopsis)
        insync == \/ reply.ids = << >>
                  \/ Len(reply.ids) = 1 /\ reply.ids[1] \in Range(synopsis)
        p      == [s.peer[m] EXCEPT !.peer_needs_sync_items = ~insync]
        again  == /\ ~p.we_need_sync_items
                  /\ synopsis # << >>
                  /\ ~has_item(s, Last(synopsis))
        asked  == IF again THEN start_synchronizing_with_peer(s, p) ELSE p
        told   == Send(asked, [type |-> "blockchain_item_ids_inventory",
                               ids |-> reply.ids, remaining |-> reply.remaining])
    IN  WithPeer(s, m, IF told.state = "handshaking" THEN new_peer_just_added(s, told)
                       ELSE told)

(* The answer is a list of consecutive blocks that starts with an id of    *)
(* the synopsis that was sent.                                             *)
ValidAnswer(p, ids) ==
    \/ ids = << >>
    \/ /\ \A i \in DOMAIN ids : Num[ids[i]] = Num[ids[1]] + i - 1
       /\ IF p.item_ids_requested = << >> THEN Num[ids[1]] = 1
          ELSE ids[1] \in Range(p.item_ids_requested)

(* Ids at the front of a new list that the chain has are dropped, unless   *)
(* another peer's list starts with the same id.                            *)
FlushKnown(s, m, p, ids) ==
    LET shared == \E o \in Active(s) \ {m} :
                    /\ s.peer[o].ids_of_items_to_get # << >>
                    /\ s.peer[o].ids_of_items_to_get[1] = ids[1]
        kept   == IF shared THEN 0
                  ELSE Max({k \in 0 .. Len(ids) : \A i \in 1 .. k : has_item(s, ids[i])})
    IN  [p EXCEPT !.ids_of_items_to_get = SubSeq(ids, kept + 1, Len(ids)),
                  !.last_block_seen = IF kept = 0 THEN @ ELSE ids[kept]]

(* A further list replaces the end of the old one from the id they share;  *)
(* when they share none, its first id is one the chain has.                *)
ExtendList(p, ids) ==
    LET old  == p.ids_of_items_to_get
        same == {k \in DOMAIN old : old[k] = ids[1]}
    IN  IF same = {}
        THEN [p EXCEPT !.ids_of_items_to_get = Tail(ids), !.last_block_seen = ids[1]]
        ELSE [p EXCEPT !.ids_of_items_to_get = SubSeq(old, 1, Max(same) - 1) \o ids]

on_blockchain_item_ids_inventory_message(s, m, ids, remaining) ==
    LET p      == s.peer[m]
        reset  == [p EXCEPT !.item_ids_requested = NotAsked]
        uptodate == /\ remaining = 0
                    /\ ids = << >> \/ (Len(ids) = 1 /\ has_item(s, ids[1]))
                    /\ p.ids_of_items_to_get = << >>
                    /\ p.number_of_unfetched = 0
        merged == IF ids = << >> THEN reset
                  ELSE IF p.ids_of_items_to_get = << >> THEN FlushKnown(s, m, reset, ids)
                  ELSE ExtendList(reset, ids)
        listed == [merged EXCEPT !.number_of_unfetched = remaining]
        enough == IF remaining # 0 THEN Len(listed.ids_of_items_to_get) > MinIdsToPrefetch
                  ELSE listed.ids_of_items_to_get # << >>
    IN  IF p.item_ids_requested = NotAsked THEN s
        ELSE IF ~ValidAnswer(p, ids)
        THEN WithPeer(s, m, disconnect_from_peer([p EXCEPT !.misjudged = TRUE]))
        ELSE IF uptodate
        THEN WithPeer(s, m, [reset EXCEPT !.we_need_sync_items = FALSE])
        ELSE IF enough THEN Trigger(WithPeer(s, m, listed), "fetch_sync_items")
        ELSE WithPeer(s, m, fetch_next_batch_of_item_ids_from_peer(s, listed))

(* A request for a block the chain does not have stays unanswered:         *)
(* get_item fails an assertion, which the handler does not catch.          *)
on_fetch_items_message(s, m, items) ==
    LET sent == [k \in DOMAIN items |-> [type |-> "block", block |-> items[k]]]
        p    == s.peer[m]
    IN  IF \E b \in Range(items) : ~has_item(s, b) THEN s
        ELSE WithPeer(s, m, [p EXCEPT !.out = @ \o sent, !.last_block_seen = Last(items)])

(* Every peer whose inventory held the block has it as its last block, and *)
(* the block is announced to the others.                                   *)
BlockAccepted(s, b) ==
    broadcast([s EXCEPT !.peer =
                 [m \in DOMAIN s.peer |-> IF m \in Active(s) /\ b \in s.peer[m].advertised_to_us
                                  THEN [s.peer[m] EXCEPT !.last_block_seen = b]
                                  ELSE s.peer[m]]], b)

(* After an item of normal operation. *)
FetchMore(s, m) == IF idle(s.peer[m]) THEN Trigger(s, "fetch_items") ELSE s

process_block_during_sync(s, b) ==
    Trigger([s EXCEPT !.new_received = <<b>> \o @], "backlog")

(* A block that was asked for as an item of an inventory goes to the chain *)
(* at once, one asked for as a sync item to the backlog.                   *)
process_block_message(s, m, b) ==
    LET p      == s.peer[m]
        asItem == [s EXCEPT !.peer[m].items_requested = @ \ {b}]
        asSync == process_block_during_sync([s EXCEPT !.peer[m].sync_items_requested = @ \ {b},
                                                      !.active_sync = @ \ {b}], b)
        q      == asSync.peer[m]
    IN  IF b \in p.items_requested
        THEN IF b \in s.recent THEN FetchMore(BlockAccepted(asItem, b), m)
             ELSE [asItem EXCEPT !.peer[m].pushing = TRUE,
                                 !.calls = Append(@, [kind |-> "normal", from |-> m,
                                                       block |-> b, result |-> "none"])]
        ELSE IF b \in p.sync_items_requested
        THEN IF ~idle(q) THEN asSync
             ELSE IF q.number_of_unfetched > 0 /\ Len(q.ids_of_items_to_get) < MinIdsToPrefetch
             THEN WithPeer(asSync, m, fetch_next_batch_of_item_ids_from_peer(asSync, q))
             ELSE Trigger(asSync, "fetch_sync_items")
        ELSE WithPeer(s, m, disconnect_from_peer([p EXCEPT !.misjudged = TRUE]))

(* An announced item is fetched unless we announced it ourselves, asked    *)
(* for it or mean to already.                                              *)
on_item_ids_inventory_message(s, m, items) ==
    LET announced == UNION {s.peer[o].advertised_to_peer : o \in Active(s)}
        requested == UNION {s.peer[o].items_requested : o \in Active(s)}
        new       == items \ announced
        fetch     == new \ (requested \cup s.items_to_fetch)
        t == [s EXCEPT !.peer[m].advertised_to_us = @ \cup new,
                       !.items_to_fetch = @ \cup fetch]
    IN  IF fetch = {} THEN t ELSE Trigger(t, "fetch_items")

on_closing_connection_message(s, m) ==
    LET p == s.peer[m]
    IN  WithPeer(s, m, [p EXCEPT !.they_requested_close = TRUE,
                                 !.shut = @ \/ p.state = "closing"])

(* The next message of m reaches n, whose fiber for m is not waiting. *)
Receive(n, m) ==
    /\ Up(n, m)
    /\ node[n].peer[m].state # "closed" /\ ~node[n].peer[m].pushing
    /\ node[m].peer[n].out # << >>
    /\ connects' = connects
    /\ LET msg == Head(node[m].peer[n].out)
           s   == node[n]
           t   == CASE msg.type = "fetch_blockchain_item_ids" ->
                         on_fetch_blockchain_item_ids_message(s, m, msg.synopsis)
                    [] msg.type = "blockchain_item_ids_inventory" ->
                         on_blockchain_item_ids_inventory_message(s, m, msg.ids, msg.remaining)
                    [] msg.type = "fetch_items" -> on_fetch_items_message(s, m, msg.items)
                    [] msg.type = "block" -> process_block_message(s, m, msg.block)
                    [] msg.type = "item_ids_inventory" ->
                         on_item_ids_inventory_message(s, m, msg.items)
                    [] msg.type = "closing_connection" -> on_closing_connection_message(s, m)
       IN  node' = [node EXCEPT ![n] = t, ![m].peer[n].out = Tail(@)]

-----------------------------------------------------------------------------
(* The chain's thread takes the next call of handle_block. *)
handle_block(n) ==
    LET s == node[n]
        c == Head(s.calls)
    IN  /\ s.calls # << >>
        /\ node' = [node EXCEPT ![n] =
                      [Pushed(s, c.block) EXCEPT
                         !.calls = Tail(@),
                         !.handled = Append(@, [c EXCEPT !.result = PushResult(s, c.block)])]]
        /\ connects' = connects

(* generate_block of the miner plugin; the block is broadcast when the     *)
(* node's thread gets to it.                                               *)
generate_block(n, b) ==
    LET s == node[n]
    IN  /\ n \in Miners
        /\ Parent[b] = s.head
        /\ \A m \in Nodes : b \notin node[m].known
        /\ node' = [node EXCEPT ![n] =
                      [s EXCEPT !.known = @ \cup {b}, !.head = b,
                                !.handled = Append(@, [kind |-> "own", from |-> n,
                                                       block |-> b, result |-> "accepted"])]]
        /\ connects' = connects

(* An accepted sync block is no longer being processed for its peers, a    *)
(* peer whose list ran empty is asked for more, and one in sync both ways  *)
(* and without lists is told by a new synchronisation.                     *)
(* Mutation: the last block of a list ends it without a request.           *)
AcceptedFrom_silent(s, p, b) ==
    IF p.ids_of_items_to_get = << >> /\ p.ids_being_processed = {}
    THEN IF ~p.peer_needs_sync_items /\ ~p.we_need_sync_items
         THEN start_synchronizing_with_peer(s, p) ELSE p
    ELSE [p EXCEPT !.last_block_seen = b, !.ids_being_processed = @ \ {b}]
AcceptedFrom(s, p, b) ==
    LET q == [p EXCEPT !.last_block_seen = b, !.ids_being_processed = @ \ {b}]
    IN  IF p.ids_of_items_to_get = << >> /\ p.ids_being_processed = {}
        THEN IF ~p.peer_needs_sync_items /\ ~p.we_need_sync_items
             THEN start_synchronizing_with_peer(s, p) ELSE p
        ELSE IF b \notin p.ids_being_processed THEN p
        ELSE IF /\ q.ids_of_items_to_get = << >> /\ q.number_of_unfetched = 0
                /\ q.ids_being_processed = {}
        THEN fetch_next_batch_of_item_ids_from_peer(s, q)
        ELSE q

(* The peers that offered a block that failed are disconnected. *)
RejectedFrom(p, b) ==
    IF b \in p.ids_being_processed
    THEN disconnect_from_peer([p EXCEPT !.misjudged = TRUE]) ELSE p

(* After handle_block in send_sync_block_to_node_delegate. *)
SyncBlockHandled(s, b, result) ==
    LET t == IF result = "accepted" THEN [s EXCEPT !.recent = @ \cup {b}] ELSE s
        After(p) == IF p.state # "active" THEN p
                    ELSE IF result = "accepted" THEN AcceptedFrom(t, p, b)
                    ELSE RejectedFrom(p, b)
    IN  Trigger([t EXCEPT !.peer = [m \in DOMAIN s.peer |-> After(t.peer[m])]], "backlog")

(* After handle_block in process_block_during_normal_operation. *)
NormalBlockHandled(s, m, b, result) ==
    LET t == [s EXCEPT !.peer[m].pushing = FALSE]
        offers(o) == \/ o = m
                     \/ /\ o \in Active(t)
                        /\ t.peer[o].ids_of_items_to_get # << >>
                        /\ t.peer[o].ids_of_items_to_get[1] = b
    IN  FetchMore(
          CASE result = "accepted"   -> BlockAccepted(t, b)
            [] result = "unlinkable" -> WithPeer(t, m, start_synchronizing_with_peer(t, t.peer[m]))
            [] OTHER -> [t EXCEPT !.peer =
                 [o \in DOMAIN s.peer |-> IF offers(o)
                                  THEN disconnect_from_peer([t.peer[o] EXCEPT !.misjudged = TRUE])
                                  ELSE t.peer[o]]],
          m)

(* The fiber that called handle_block resumes. *)
BlockHandled(n) ==
    LET c == Head(node[n].handled)
        s == [node[n] EXCEPT !.handled = Tail(@)]
    IN  /\ node[n].handled # << >>
        /\ node' = [node EXCEPT ![n] =
                      CASE c.kind = "sync"   -> SyncBlockHandled(s, c.block, c.result)
                        [] c.kind = "normal" -> NormalBlockHandled(s, c.from, c.block, c.result)
                        [] c.kind = "own"    -> broadcast(s, c.block)]
        /\ connects' = connects

-----------------------------------------------------------------------------
InProgress(s) == Len(SelectSeq(s.calls \o s.handled, LAMBDA c : c.kind = "sync"))

(* Mutation: anywhere in the list. *)
AtFrontAnywhere(s, b) == {m \in Active(s) : b \in Range(s.peer[m].ids_of_items_to_get)}
(* The peers whose list a received block is at the front of. *)
AtFront(s, b) == {m \in Active(s) : /\ s.peer[m].ids_of_items_to_get # << >>
                                  /\ s.peer[m].ids_of_items_to_get[1] = b}

(* One round: the first received block that is at the front of a list      *)
(* leaves these lists and goes to the chain.  A block that was accepted in *)
(* the meantime leaves them too, but stays received, and ends the rounds.  *)
BacklogRound(s) ==
    LET ready == {k \in DOMAIN s.received : AtFront(s, s.received[k]) # {}}
        k     == Min(ready)
        b     == s.received[k]
        popped == [m \in DOMAIN s.peer |->
                     IF m \in AtFront(s, b)
                     THEN [s.peer[m] EXCEPT !.ids_of_items_to_get = Tail(@),
                                            !.ids_being_processed = @ \cup {b}]
                     ELSE s.peer[m]]
    IN  IF ready = {} THEN [state |-> s, more |-> FALSE]
        ELSE IF b \in s.recent THEN [state |-> [s EXCEPT !.peer = popped], more |-> FALSE]
        ELSE [state |-> [s EXCEPT !.peer = popped,
                                  !.received = RemoveAt(@, k),
                                  !.calls = Append(@, [kind |-> "sync", from |-> None,
                                                       block |-> b, result |-> "none"])],
              more |-> TRUE]

(* The new blocks are pushed one by one to the front of the older ones,    *)
(* the last one first: they come to stand in the order of their arrival.   *)
Collected(s) ==
    [s EXCEPT !.received = Reverse(s.new_received) \o @,
              !.new_received = << >>,
              !.suspended = FALSE]

BacklogRounds(s) ==
    LET c == Collected(s)
        r[k \in 0 .. Len(c.received)] ==
          IF k = 0 THEN [state |-> c, more |-> TRUE]
          ELSE IF ~r[k - 1].more \/ InProgress(r[k - 1].state) >= MaxBlocksToHandle THEN r[k - 1]
          ELSE BacklogRound(r[k - 1].state)
    IN  r[Len(c.received)].state

process_backlog_of_sync_blocks(n) ==
    LET s    == [node[n] EXCEPT !.due = @ \ {"backlog"}]
        t    == BacklogRounds(s)
        full == InProgress(t) >= MaxBlocksToHandle /\ Len(t.received) >= MaxBlocksToPrefetch
    IN  /\ "backlog" \in node[n].due
        /\ node' = [node EXCEPT ![n] =
                      IF InProgress(s) >= MaxBlocksToHandle THEN s
                      ELSE IF full THEN [t EXCEPT !.suspended = TRUE]
                      ELSE Trigger(t, "fetch_sync_items")]
        /\ connects' = connects

CanBeAsked(p) == p.we_need_sync_items /\ idle(p)

(* have_already_received_sync_item *)
Held(s) == Range(s.received) \cup Range(s.new_received)

(* The ids a peer is asked for: those neither received nor asked for, of   *)
(* the peers before it in the same round included.                         *)
(* Mutation: ids asked of another peer are asked for again. *)
WantedAgain(s, m) ==
    LET ids == KeepIn(s.peer[m].ids_of_items_to_get, Blocks \ Held(s))
    IN  SubSeq(ids, 1, Smaller(Len(ids), MaxBlocksPerPeer))
Wanted(s, m) ==
    LET ids == KeepIn(s.peer[m].ids_of_items_to_get,
                      Blocks \ (s.active_sync \cup Held(s)))
    IN  SubSeq(ids, 1, Smaller(Len(ids), MaxBlocksPerPeer))

request_sync_items_from_peer(s, m, ids) ==
    LET p == [s.peer[m] EXCEPT !.sync_items_requested = @ \cup Range(ids)]
    IN  IF ids = << >> THEN s
        ELSE [s EXCEPT !.active_sync = @ \cup Range(ids),
                       !.peer[m] = Send(p, [type |-> "fetch_items", items |-> ids])]

RequestRounds(s, order) ==
    LET r[k \in 0 .. Len(order)] ==
          IF k = 0 THEN s
          ELSE request_sync_items_from_peer(r[k - 1], order[k], Wanted(r[k - 1], order[k]))
    IN  r[Len(order)]

(* The order of the peers is that of their addresses in memory. *)
fetch_sync_items_loop(n) ==
    LET s == [node[n] EXCEPT !.due = @ \ {"fetch_sync_items"}]
    IN  /\ "fetch_sync_items" \in node[n].due
        /\ \E order \in SetToSeqs({m \in Active(s) : CanBeAsked(s.peer[m])}) :
             node' = [node EXCEPT ![n] =
                        IF s.suspended THEN s ELSE RequestRounds(s, order)]
        /\ connects' = connects

(* Each item goes to an idle peer that announced it; the others wait.  The *)
(* peer with the fewest requests is any of them.                           *)
fetch_items_loop(n) ==
    LET s == [node[n] EXCEPT !.due = @ \ {"fetch_items"}]
        from(b) == {m \in Active(s) : idle(s.peer[m]) /\ b \in s.peer[m].advertised_to_us}
        items == {b \in s.items_to_fetch : from(b) # {}}
    IN  /\ "fetch_items" \in node[n].due
        /\ \E choice \in [items -> Active(s)] :
             /\ \A b \in items : choice[b] \in from(b)
             /\ node' = [node EXCEPT ![n] =
                  [s EXCEPT
                     !.items_to_fetch = @ \ items,
                     !.peer = [m \in DOMAIN s.peer |->
                        LET mine == {b \in items : choice[b] = m}
                        IN  IF mine = {} THEN s.peer[m]
                            ELSE Send([s.peer[m] EXCEPT !.items_requested = @ \cup mine],
                                      [type |-> "fetch_items", items |-> SetToSeq(mine)])]]]
        /\ connects' = connects

(* New inventory is announced once, to the peers that are in sync. *)
advertise_inventory_loop(n) ==
    LET s == node[n]
        Told(p) == LET new == s.new_inventory \ (p.advertised_to_peer \cup p.advertised_to_us)
                   IN  IF p.state # "active" \/ p.peer_needs_sync_items \/ new = {} THEN p
                       ELSE Send([p EXCEPT !.advertised_to_peer = @ \cup new],
                                 [type |-> "item_ids_inventory", items |-> new])
    IN  /\ s.new_inventory # {}
        /\ node' = [node EXCEPT ![n] = [s EXCEPT !.new_inventory = {},
                                                 !.peer = [m \in DOMAIN s.peer |-> Told(s.peer[m])]]]
        /\ connects' = connects

-----------------------------------------------------------------------------
(* n connects to m.  The handshake up to the address message, which ends   *)
(* it for n, is one step; for m it ends with n's first request for ids.    *)
Connect(l) ==
    LET n == l[1]
        m == l[2]
        open == [Closed EXCEPT !.state = "handshaking", !.shut = FALSE]
    IN  /\ node[n].peer[m].state = "closed" /\ node[m].peer[n].state = "closed"
        /\ connects[l] < MaxConnects[l]
        /\ connects' = [connects EXCEPT ![l] = @ + 1]
        /\ node' = [node EXCEPT ![n].peer[m] = new_peer_just_added(node[n], open),
                                ![m].peer[n] = open]

(* A peer that did not answer a request within a second, and one that did  *)
(* not close when asked to, are cut off.  bound: no request times out on   *)
(* the last connection of a link.                                          *)
terminate_inactive_connections_loop(n, m) ==
    LET p == node[n].peer[m]
    IN  /\ \/ p.state = "closing" /\ ~p.shut
           \/ /\ p.state = "active" /\ ~idle(p)
              /\ \A l \in Links : {l[1], l[2]} = {n, m} => connects[l] < MaxConnects[l]
        /\ node' = [node EXCEPT ![n].peer[m].state = "terminating",
                                ![n].peer[m].shut = TRUE]
        /\ connects' = connects

(* The read loop of a closed connection ends: what was asked of the peer   *)
(* can be asked of another one.                                            *)
on_connection_closed(n, m) ==
    LET s == node[n]
        p == s.peer[m]
        t == WithPeer(s, m, [Closed EXCEPT !.misjudged = p.misjudged])
        again == {b \in p.items_requested : \E o \in Active(t) : b \in t.peer[o].advertised_to_us}
    IN  /\ p.state # "closed" /\ ~p.pushing
        /\ ~Up(n, m)
        /\ node' = [node EXCEPT ![n] =
                      [t EXCEPT !.active_sync = @ \ p.sync_items_requested,
                                !.items_to_fetch = @ \cup again,
                                !.due = @ \cup {l \in {"fetch_sync_items"} : p.sync_items_requested # {}}
                                          \cup {l \in {"fetch_items"} : p.items_requested # {}}]]
        /\ connects' = connects

-----------------------------------------------------------------------------
Handlers(n) ==
    \/ \E m \in Neighbours(n) : Receive(n, m)
    \/ handle_block(n)
    \/ BlockHandled(n)
    \/ process_backlog_of_sync_blocks(n)
    \/ fetch_sync_items_loop(n)
    \/ fetch_items_loop(n)
    \/ advertise_inventory_loop(n)
    \/ \E m \in Neighbours(n) : on_connection_closed(n, m)

Next == \/ \E n \in Nodes : Handlers(n)
        \/ \E n \in Nodes, b \in Blocks : generate_block(n, b)
        \/ \E n \in Nodes : \E m \in Neighbours(n) : terminate_inactive_connections_loop(n, m)
        \/ \E l \in Links : Connect(l)

(* The fibers and the chain's thread run, peers are connected again and a  *)
(* peer that does not close is cut off; mining and time-outs of requests   *)
(* may never happen.                                                       *)
Fairness ==
    /\ \A n \in Nodes :
         /\ \A m \in Neighbours(n) :
              /\ WF_vars(Receive(n, m))
              /\ WF_vars(on_connection_closed(n, m))
              /\ WF_vars(node[n].peer[m].state = "closing" /\ terminate_inactive_connections_loop(n, m))
         /\ WF_vars(handle_block(n))
         /\ WF_vars(BlockHandled(n))
         /\ WF_vars(process_backlog_of_sync_blocks(n))
         /\ WF_vars(fetch_sync_items_loop(n))
         /\ WF_vars(fetch_items_loop(n))
         /\ WF_vars(advertise_inventory_loop(n))
    /\ \A l \in Links : WF_vars(Connect(l))

Spec == Init /\ [][Next]_vars
FairSpec == Spec /\ Fairness

-----------------------------------------------------------------------------
(* No fork leaves a chain at or below its last irreversible block, which   *)
(* the miners' confirmations are for.                                      *)
FinalTree == \A b, c \in Blocks : Num[b] <= Lib[c] => b \in OnPath(c)

(* A sync block is asked of one peer at a time, and _active_sync_requests  *)
(* holds exactly the blocks some peer still owes us: no block is asked for *)
(* twice, and none is waited for that nobody will send, over every order   *)
(* of answers, time-outs and lost connections.                             *)
RequestsTracked ==
    \A n \in Nodes :
      /\ node[n].active_sync = UNION {node[n].peer[m].sync_items_requested : m \in Neighbours(n)}
      /\ \A m, o \in Neighbours(n) : m # o =>
           node[n].peer[m].sync_items_requested \cap node[n].peer[o].sync_items_requested = {}

(* The backlog hands the chain every sync block after its parent, however  *)
(* the blocks of several peers arrive: the chain, which discards a block   *)
(* it cannot link, never gets one from the synchronisation.                *)
SyncInOrder ==
    \A n \in Nodes : \A k \in DOMAIN node[n].handled :
      node[n].handled[k].kind = "sync" => node[n].handled[k].result # "unlinkable"

(* A peer that runs this code is never disconnected for a list of ids that *)
(* does not follow our synopsis, for a block we did not ask for or for a   *)
(* block we reject, even when requests and answers cross.                  *)
HonestTrusted == \A n \in Nodes : \A m \in Neighbours(n) : ~node[n].peer[m].misjudged

(* The synopsis of a request, put together from the chain and from the     *)
(* peer's list, is in the order of the block numbers and ends with the     *)
(* last id the peer told us, as the assertion in                           *)
(* create_blockchain_synopsis_for_peer says.                               *)
SynopsisOrdered ==
    \A n \in Nodes : \A m \in Neighbours(n) :
      LET ids == node[n].peer[m].ids_of_items_to_get
          synopsis == node[n].peer[m].item_ids_requested
      IN  synopsis # NotAsked =>
            /\ \A i, j \in DOMAIN synopsis : i < j => Num[synopsis[i]] <= Num[synopsis[j]]
            /\ ids # << >> => synopsis # << >> /\ Last(synopsis) = Last(ids)

(* No message is under way and no task is due. *)
Quiet ==
    \A n \in Nodes :
      /\ node[n].due = {} /\ node[n].calls = << >> /\ node[n].handled = << >>
      /\ node[n].new_inventory = {}
      /\ \A m \in Neighbours(n) : /\ node[n].peer[m].out = << >>
                                  /\ node[n].peer[m].state = "active"

(* When nothing is left to do, every synchronisation has ended: no list of *)
(* ids waits for a wake-up that will not come.                             *)
SyncFinishes ==
    Quiet => \A n \in Nodes : \A m \in Neighbours(n) : ~node[n].peer[m].we_need_sync_items

(* Two connected nodes end on chains of the same length, whatever they     *)
(* mine and announce while they synchronise.                               *)
CatchesUp ==
    \A l \in Links : <>[](Num[node[l[1]].head] = Num[node[l[2]].head])
=============================================================================
