--------------------------- MODULE ContentTrading ---------------------------
(***************************************************************************)
(* The life of content and of its purchases on the chain: submission,      *)
(* resubmission and cancellation by the author, purchase, delivery of the  *)
(* key particles by the seeders, proofs of custody, rating, and the        *)
(* housekeeping of the maintenance block that expires content and          *)
(* purchases and returns what is left in escrow.                           *)
(*                                                                         *)
(* Operations are evaluated at the time of the last block (now); a block   *)
(* then moves the time forward and may be a maintenance block.             *)
(*                                                                         *)
(* Abstracted: one asset, so no conversion of prices; operation fees; the  *)
(* cryptographic proofs, which are assumed to verify; upload statistics;   *)
(* the block heights of past hard forks (the code after them is modelled). *)
(***************************************************************************)
EXTENDS Integers, FiniteSets, FiniteSetsExt

CONSTANTS Accounts,         \* account ids
          Authors,          \* the accounts that submit content,
          Consumers,        \* ... that buy it
          Seeders,          \* ... and that store it
          Subscribers,      \* consumers with a running subscription
          URIs,             \* content
          None,
          CoAuthorMaps,     \* possible co_authors: account -> basis points
          Prices,           \* prices of content
          KeyPartSets,      \* possible sets of seeders of one content
          Quorum,           \* key particles that make a delivery
          Fees,             \* publishing fees
          Lifetimes,        \* times from submission to expiration
          SeederPrices,     \* price of one day of storage, the size included
          Spaces,           \* free space a seeder announces, in contents
          Ratings,
          Balance0,         \* every account's balance at the start
          Day,              \* 24 hours
          BlockInterval,
          MaintenanceInterval,
          SkipSlots,        \* slots left out after a maintenance block
          MaxSlots,         \* bound: slots until the next block
          MaxTime,          \* bound: the last block's time
          Word              \* the range of an unsigned counter (2^32 in the code)

ASSUME TradingAssumption ==
    /\ Authors \subseteq Accounts /\ Consumers \subseteq Accounts
    /\ Seeders \subseteq Accounts /\ Subscribers \subseteq Consumers
    /\ KeyPartSets \subseteq SUBSET Seeders
    /\ Prices \subseteq Nat /\ Fees \subseteq Nat /\ SeederPrices \subseteq Nat
    /\ Lifetimes \subseteq Nat /\ Spaces \subseteq Nat /\ Ratings \subseteq Nat
    /\ IsFiniteSet(Accounts) /\ IsFiniteSet(URIs)
    /\ \A co \in CoAuthorMaps :
         DOMAIN co \subseteq Accounts /\ \A a \in DOMAIN co : co[a] \in Nat
    /\ Quorum \in Nat \ {0} /\ Balance0 \in Nat
    /\ {Day, BlockInterval, MaintenanceInterval, MaxSlots} \subseteq Nat \ {0}
    /\ SkipSlots \in Nat /\ MaxTime \in Nat /\ Word \in Nat \ {0}

VARIABLES now,              \* head_block_time()
          last_budget_time, \* time of the last maintenance block
          next_maintenance_time,
          balance,          \* account -> balance
          seeder,           \* account -> seeder_object or None
          content,          \* URI -> content_object or None
          buying,           \* consumer, URI -> buying_object or None
          stats,            \* seeder -> seeding_statistics_object
          maintained        \* auxiliary: the times of all maintenance blocks

vars == <<now, last_budget_time, next_maintenance_time, balance, seeder,
          content, buying, stats, maintained>>
clock == <<now, last_budget_time, next_maintenance_time, maintained>>

Purchases == Consumers \X URIs

(* What a seeder's rating counts; key_delivery_ratio is the share of keys  *)
(* delivered that the last maintenance used for it.                        *)
NoStats == [missed |-> 0, delivered |-> 0, requested |-> 0, seeded |-> 0,
            key_delivery_ratio |-> 0]

IsContent(u) == content[u] # None
IsBuying(p) == buying[p] # None
Lesser(m, n) == IF m < n THEN m ELSE n
Bump(n) == (n + 1) % Word
Drop(n) == (n - 1) % Word

-----------------------------------------------------------------------------
(* content_payout: the co-authors' shares are rounded down and the rest is *)
(* the author's.                                                           *)
Share(amount, points) == (amount * points) \div 10000
Shared(amount, co) ==
    SumFunctionOnSet([a \in DOMAIN co |-> Share(amount, co[a])], DOMAIN co)

(* Mutation: the author is paid the whole price besides the shares. *)
PayoutWhole(bal, amount, c) ==
    [a \in Accounts |->
        bal[a] + (IF a \in DOMAIN c.co_authors THEN Share(amount, c.co_authors[a]) ELSE 0)
               + (IF a = c.author THEN amount ELSE 0)]

Payout(bal, amount, c) ==
    [a \in Accounts |->
        bal[a] + (IF a \in DOMAIN c.co_authors THEN Share(amount, c.co_authors[a]) ELSE 0)
               + (IF a = c.author THEN amount - Shared(amount, c.co_authors) ELSE 0)]

(* The splits leave something for the author, or name the author too. *)
SplitsValid(author, co) ==
    LET sum == SumFunctionOnSet(co, DOMAIN co)
    IN  \/ DOMAIN co = {}
        \/ author \notin DOMAIN co /\ sum < 10000
        \/ author \in DOMAIN co /\ sum = 10000

-----------------------------------------------------------------------------
(* ready_to_publish: a seeder announces itself, or announces itself again. *)
ReadyToPublish(s, space, price) ==
    /\ seeder' = [seeder EXCEPT ![s] = [free_space |-> space, price |-> price]]
    /\ UNCHANGED <<clock, balance, content, buying, stats>>

(* What the seeders of a content ask for a day. *)
PricePerDay(keys) == SumFunctionOnSet([s \in keys |-> seeder[s].price], keys)

(* content_submit of a new URI.  Without key parts the content is a        *)
(* simplified one that needs no seeders.                                   *)
Submit(author, u, co, price, keys, fee, life) ==
    /\ ~IsContent(u)
    /\ SplitsValid(author, co)
    /\ life \div Day # 0
    /\ \A s \in keys : seeder[s] # None /\ seeder[s].free_space > 1
    /\ (life \div Day) * PricePerDay(keys) <= fee
    /\ balance[author] >= fee
    /\ content' = [content EXCEPT ![u] =
         [author |-> author, co_authors |-> co, price |-> price, key_parts |-> keys,
          seeder_price |-> [s \in keys |-> seeder[s].price],
          publishing_fee_escrow |-> fee, created |-> now, expiration |-> now + life,
          is_blocked |-> FALSE,
          last_proof |-> [s \in Seeders |-> None],
          times_bought |-> 0, num_of_ratings |-> 0, AVG_rating |-> 0]]
    /\ balance' = [balance EXCEPT ![author] = @ - fee]
    /\ seeder' = [s \in Seeders |->
         IF s \in keys THEN [seeder[s] EXCEPT !.free_space = @ - 1] ELSE seeder[s]]
    /\ stats' = [s \in Seeders |->
         IF s \in keys THEN [stats[s] EXCEPT !.requested = Bump(@)] ELSE stats[s]]
    /\ UNCHANGED <<clock, buying>>

(* content_submit of a known URI by its author changes the price and the   *)
(* co-authors, of the open purchases too; no fee is taken.                 *)
Resubmit(u, co, price) ==
    /\ IsContent(u)
    /\ SplitsValid(content[u].author, co)
    /\ (content[u].expiration - now) \div Day > 0
    /\ content' = [content EXCEPT ![u] = [@ EXCEPT !.co_authors = co, !.price = price]]
    /\ UNCHANGED <<clock, balance, seeder, buying, stats>>

Cancel(u) ==
    /\ IsContent(u)
    /\ content[u].expiration > now
    /\ ~content[u].is_blocked
    /\ content' = [content EXCEPT ![u] =
         [@ EXCEPT !.is_blocked = TRUE,
                   !.expiration = Lesser(content[u].expiration, now + Day)]]
    /\ UNCHANGED <<clock, balance, seeder, buying, stats>>

(* A purchase of u is delivered. *)
Sold(u) == [content[u] EXCEPT !.times_bought = @ + 1]

(* request_to_buy: the price goes to escrow until the keys are delivered;  *)
(* simplified content is paid at once.  A subscriber pays nothing.         *)
Buy(consumer, u, price) ==
    LET c == content[u]
        paid == IF consumer \in Subscribers THEN 0 ELSE price
        simple == c.key_parts = {}
        debited == [balance EXCEPT ![consumer] = @ - paid]
    IN  /\ IsContent(u)
        /\ ~IsBuying(<<consumer, u>>)
        /\ price <= balance[consumer]
        /\ c.expiration > now
        /\ ~c.is_blocked
        /\ consumer \in Subscribers \/ price >= c.price
        /\ buying' = [buying EXCEPT ![<<consumer, u>>] =
             [price |-> IF simple THEN 0 ELSE paid, paid_price |-> paid,
              expiration_time |-> now + Day, seeders_answered |-> {},
              delivered |-> simple, expired |-> FALSE, rated |-> FALSE]]
        /\ balance' = IF simple THEN Payout(debited, paid, c) ELSE debited
        /\ content' = IF simple THEN [content EXCEPT ![u] = Sold(u)] ELSE content
        /\ stats' = [s \in Seeders |->
             IF s \in c.key_parts THEN [stats[s] EXCEPT !.missed = Bump(@)] ELSE stats[s]]
        /\ UNCHANGED <<clock, seeder>>

(* The answer of seeder s is noted, whatever became of the purchase. *)
Answered(p, s) == buying[p].seeders_answered \cup {s}

(* Mutation: a purchase that is over is settled again. *)
StillOpenAlways(p) == TRUE
StillOpen(p) == ~buying[p].delivered /\ ~buying[p].expired

(* deliver_keys: the purchase is paid when the quorum is reached, even     *)
(* after its expiration time, or else expired when that time is past.      *)
DeliverKeys(s, p) ==
    LET b == buying[p]
        u == p[2]
        noted == [b EXCEPT !.seeders_answered = Answered(p, s)]
        complete == Cardinality(Answered(p, s)) >= Quorum
        first == s \notin b.seeders_answered
    IN  /\ IsBuying(p)
        /\ s \in content[u].key_parts
        /\ stats' = IF first THEN [stats EXCEPT ![s].missed = Drop(@), ![s].delivered = Bump(@)]
                    ELSE stats
        /\ \/ /\ ~StillOpen(p)
              /\ buying' = [buying EXCEPT ![p] = noted]
              /\ UNCHANGED <<balance, content>>
           \/ /\ StillOpen(p) /\ complete
              /\ buying' = [buying EXCEPT ![p] = [noted EXCEPT !.price = 0, !.delivered = TRUE]]
              /\ balance' = Payout(balance, b.paid_price, content[u])
              /\ content' = [content EXCEPT ![u] = Sold(u)]
           \/ /\ StillOpen(p) /\ ~complete /\ b.expiration_time < now
              /\ buying' = [buying EXCEPT ![p] = [noted EXCEPT !.price = 0, !.expired = TRUE]]
              /\ balance' = [balance EXCEPT ![p[1]] = @ + b.price]
              /\ UNCHANGED content
           \/ /\ StillOpen(p) /\ ~complete /\ b.expiration_time >= now
              /\ buying' = [buying EXCEPT ![p] = noted]
              /\ UNCHANGED <<balance, content>>
        /\ UNCHANGED <<clock, seeder>>

(* The reward of a proof: the share of a day since the last proof, less a  *)
(* quarter of what is missing to a whole day, and never more than what is  *)
(* left in escrow.                                                         *)
RewardRatio(diff) ==
    LET ratio == (10000 * Lesser(diff, Day)) \div Day
        loss == (10000 - ratio) \div 4
    IN  (ratio * (10000 - loss)) \div 10000

(* Mutation: the reward is not limited by the escrow. *)
RewardUncapped(c, s) ==
    (c.seeder_price[s] * RewardRatio(now - c.last_proof[s])) \div 10000

Reward(c, s) ==
    Lesser((c.seeder_price[s] * RewardRatio(now - c.last_proof[s])) \div 10000,
           c.publishing_fee_escrow)

(* The proof is noted. *)
(* Mutation: a seeder's time of last proof stays that of its first proof. *)
ProvedFirstOnly(c, s) == [c EXCEPT !.last_proof[s] = IF @ = None THEN now ELSE @]
Proved(c, s) == [c EXCEPT !.last_proof[s] = now]

(* proof_of_custody: the first one of a seeder counts the content as       *)
(* seeded, the later ones are paid.                                        *)
ProofOfCustody(s, u) ==
    LET c == content[u]
    IN  /\ IsContent(u)
        /\ c.key_parts # {}
        /\ c.expiration > now
        /\ seeder[s] # None
        /\ \/ /\ c.last_proof[s] = None
              /\ content' = [content EXCEPT ![u] = Proved(c, s)]
              /\ stats' = [stats EXCEPT ![s].seeded = Bump(@),
                                        ![s].requested = IF @ > 0 THEN Drop(@) ELSE @]
              /\ UNCHANGED balance
           \/ /\ c.last_proof[s] # None
              /\ s \in DOMAIN c.seeder_price
              /\ content' = [content EXCEPT ![u] =
                   [Proved(c, s) EXCEPT !.publishing_fee_escrow = @ - Reward(c, s)]]
              /\ balance' = [balance EXCEPT ![s] = @ + Reward(c, s)]
              /\ UNCHANGED stats
        /\ UNCHANGED <<clock, seeder, buying>>

(* leave_rating_and_comment: once per delivered purchase. *)
LeaveRating(p, rating) ==
    LET c == content[p[2]]
    IN  /\ IsBuying(p)
        /\ buying[p].delivered
        /\ ~buying[p].rated
        /\ buying' = [buying EXCEPT ![p] = [@ EXCEPT !.rated = TRUE]]
        /\ content' = [content EXCEPT ![p[2]] =
             [c EXCEPT !.num_of_ratings = c.num_of_ratings + 1,
                       !.AVG_rating = (c.AVG_rating * c.num_of_ratings + rating * 1000)
                                        \div (c.num_of_ratings + 1)]]
        /\ UNCHANGED <<clock, balance, seeder, stats>>

-----------------------------------------------------------------------------
(* The maintenance block at time t.                                        *)

(* decent_housekeeping walks the expirations from one block interval after *)
(* the last maintenance on.                                                *)
(* Mutation: only what expired before the maintenance block is walked. *)
DueStrictly(expiration, t) ==
    last_budget_time + BlockInterval <= expiration /\ expiration < t
Due(expiration, t) ==
    last_budget_time + BlockInterval <= expiration /\ expiration <= t

DueContent(t) == {u \in URIs : IsContent(u) /\ Due(content[u].expiration, t)}
DueBuying(t) ==
    {p \in Purchases : /\ IsBuying(p)
                       /\ Due(buying[p].expiration_time, t)
                       /\ ~buying[p].delivered}

(* set_and_reset_seeding_stats, for the share of delivered keys. *)
KeyDeliveryRatio(st) ==
    LET requests == (st.delivered + st.missed) % Word
    IN  IF requests > 0 THEN (st.delivered * 10000) \div requests ELSE 0

ResetStats(s) ==
    IF seeder[s] = None THEN stats[s]
    ELSE [stats[s] EXCEPT !.key_delivery_ratio = KeyDeliveryRatio(stats[s]),
                          !.missed = 0, !.delivered = 0, !.requested = 0]

(* content_expire takes the content off its seeders' counts (their requests *)
(* to seed have just been reset and stay zero).                             *)
(* Mutation: ... of those too that never had a proof from the seeder. *)
SeededByAll(s, us) == {u \in us : s \in content[u].key_parts}
SeededBy(s, us) ==
    {u \in us : s \in content[u].key_parts /\ content[u].last_proof[s] # None}

(* content_expire and buying_expire return what is in escrow. *)
Returned(a, t) ==
    SumFunctionOnSet([u \in DueContent(t) |->
                        IF content[u].author = a THEN content[u].publishing_fee_escrow ELSE 0],
                     DueContent(t))
      + SumFunctionOnSet([p \in DueBuying(t) |-> IF p[1] = a THEN buying[p].price ELSE 0],
                         DueBuying(t))

Housekeeping(t) ==
    /\ stats' = [s \in Seeders |->
         [ResetStats(s) EXCEPT !.seeded = (@ - Cardinality(SeededBy(s, DueContent(t)))) % Word]]
    /\ balance' = [a \in Accounts |-> balance[a] + Returned(a, t)]
    /\ content' = [u \in URIs |-> IF u \in DueContent(t)
         THEN [content[u] EXCEPT !.publishing_fee_escrow = 0] ELSE content[u]]
    /\ buying' = [p \in Purchases |-> IF p \in DueBuying(t)
         THEN [buying[p] EXCEPT !.price = 0, !.expired = TRUE] ELSE buying[p]]

(* The first maintenance time after t. *)
NextMaintenance(t) ==
    next_maintenance_time
      + ((t - next_maintenance_time) \div MaintenanceInterval + 1) * MaintenanceInterval

(* get_slot_time skips slots while the maintenance flag is set. *)
SkippedSlots == IF now = last_budget_time THEN SkipSlots ELSE 0

(* A block, some slots after the last one; the first one that reaches the  *)
(* maintenance time does the maintenance.                                  *)
Block(slots) ==
    LET t == now + (slots + SkippedSlots) * BlockInterval
    IN  /\ t <= MaxTime
        /\ now' = t
        /\ \/ /\ t < next_maintenance_time
              /\ UNCHANGED <<last_budget_time, next_maintenance_time, maintained>>
              /\ UNCHANGED <<balance, content, buying, stats>>
           \/ /\ next_maintenance_time <= t
              /\ Housekeeping(t)
              /\ last_budget_time' = t
              /\ next_maintenance_time' = NextMaintenance(t)
              /\ maintained' = maintained \cup {t}
        /\ UNCHANGED seeder

-----------------------------------------------------------------------------
(* Block 1 is a maintenance block; time is counted from it. *)
Init ==
    /\ now = 0
    /\ last_budget_time = 0
    /\ next_maintenance_time = MaintenanceInterval
    /\ maintained = {0}
    /\ balance = [a \in Accounts |-> Balance0]
    /\ seeder = [s \in Seeders |-> None]
    /\ content = [u \in URIs |-> None]
    /\ buying = [p \in Purchases |-> None]
    /\ stats = [s \in Seeders |-> NoStats]

Next ==
    \/ \E s \in Seeders, space \in Spaces, price \in SeederPrices :
         ReadyToPublish(s, space, price)
    \/ \E a \in Authors, u \in URIs, co \in CoAuthorMaps, price \in Prices,
          keys \in KeyPartSets, fee \in Fees, life \in Lifetimes :
         Submit(a, u, co, price, keys, fee, life)
    \/ \E u \in URIs, co \in CoAuthorMaps, price \in Prices : Resubmit(u, co, price)
    \/ \E u \in URIs : Cancel(u)
    \/ \E c \in Consumers, u \in URIs, price \in Prices : Buy(c, u, price)
    \/ \E s \in Seeders, p \in Purchases : DeliverKeys(s, p)
    \/ \E s \in Seeders, u \in URIs : ProofOfCustody(s, u)
    \/ \E p \in Purchases, r \in Ratings : LeaveRating(p, r)
    \/ \E slots \in 1 .. MaxSlots : Block(slots)

Spec == Init /\ [][Next]_vars

-----------------------------------------------------------------------------
SeederObjects == [free_space : Int, price : SeederPrices]

ContentObjects ==
    [author : Authors, co_authors : CoAuthorMaps, price : Prices,
     key_parts : KeyPartSets,
     seeder_price : UNION {[keys -> SeederPrices] : keys \in KeyPartSets},
     publishing_fee_escrow : Int, created : Nat, expiration : Nat,
     is_blocked : BOOLEAN, last_proof : [Seeders -> Nat \cup {None}],
     times_bought : Nat, num_of_ratings : Nat, AVG_rating : Int]

BuyingObjects ==
    [price : Nat, paid_price : Nat, expiration_time : Nat,
     seeders_answered : SUBSET Seeders,
     delivered : BOOLEAN, expired : BOOLEAN, rated : BOOLEAN]

ASSUME NoneAssumption ==
    None \notin ContentObjects /\ None \notin BuyingObjects /\ None \notin Nat

ObjectsOK ==
    /\ now \in Nat
    /\ last_budget_time \in Nat
    /\ last_budget_time <= now
    /\ seeder \in [Seeders -> SeederObjects \cup {None}]
    /\ content \in [URIs -> ContentObjects \cup {None}]
    /\ buying \in [Purchases -> BuyingObjects \cup {None}]

(* Objects have their types and refer to objects that exist, balances are  *)
(* never overdrawn, a proof is dated after its content and before the      *)
(* head, counters stay in their words, and the next maintenance is ahead   *)
(* of the head (the assertion of process_budget).                          *)
TypeOK ==
    /\ ObjectsOK
    /\ next_maintenance_time > now
    /\ balance \in [Accounts -> Nat]
    /\ \A u \in URIs : IsContent(u) =>
         /\ DOMAIN content[u].seeder_price = content[u].key_parts
         /\ \A s \in Seeders : content[u].last_proof[s] # None =>
              content[u].last_proof[s] \in content[u].created .. now
    /\ \A p \in Purchases : IsBuying(p) =>
         IsContent(p[2]) /\ buying[p].seeders_answered \subseteq content[p[2]].key_parts
    /\ \A s \in Seeders :
         \A f \in {"missed", "delivered", "requested", "seeded"} : stats[s][f] \in 0 .. Word - 1

(* What content and purchases hold in escrow. *)
FeesHeld == [u \in URIs |-> IF IsContent(u) THEN content[u].publishing_fee_escrow ELSE 0]
PricesHeld == [p \in Purchases |-> IF IsBuying(p) THEN buying[p].price ELSE 0]

(* No money is made or lost: what the accounts hold and what content and   *)
(* purchases hold in escrow always add up to the supply.  process_budget   *)
(* asserts this of get_real_supply at every maintenance.                   *)
Conserved ==
    SumFunctionOnSet(balance, Accounts) + SumFunctionOnSet(FeesHeld, URIs)
      + SumFunctionOnSet(PricesHeld, Purchases)
      = Balance0 * Cardinality(Accounts)

(* A purchase is settled exactly once: while it is open its whole price is *)
(* in escrow, afterwards none of it, and it was either delivered or        *)
(* expired, never both, however late keys and maintenance blocks come.     *)
SettledOnce ==
    \A p \in Purchases : IsBuying(p) =>
        LET b == buying[p]
        IN  /\ b.price = (IF b.delivered \/ b.expired THEN 0 ELSE b.paid_price)
            /\ ~(b.delivered /\ b.expired)

(* Proofs of custody never take more out of a content's escrow than there  *)
(* is in it (the block halt that proof_of_custody and content_expire work  *)
(* around).                                                                *)
EscrowNotOverdrawn ==
    \A u \in URIs : IsContent(u) => content[u].publishing_fee_escrow >= 0

(* The days of storage c was submitted for, or is left with after its      *)
(* cancellation.                                                           *)
PaidDays(c) == (c.expiration - c.created) \div Day
ProvedUntil(c, s) == IF c.last_proof[s] = None THEN c.created ELSE c.last_proof[s]

(* What seeder s can still earn, in price times time. *)
StillOwed(c, s) ==
    c.seeder_price[s] * (PaidDays(c) * Day - (ProvedUntil(c, s) - c.created))

(* Until content expires, its escrow covers every seeder's price for the   *)
(* time that it has not yet proved: however often the others prove their   *)
(* custody, they cannot take a seeder's pay.  Stated for content that      *)
(* lives a whole number of days, the time its publishing fee is charged    *)
(* for.                                                                    *)
SeedersFunded ==
    \A u \in URIs : IsContent(u) =>
        LET c == content[u]
        IN  c.expiration > now /\ (c.expiration - c.created) % Day = 0 =>
              Day * c.publishing_fee_escrow >=
                SumFunctionOnSet([s \in c.key_parts |-> StillOwed(c, s)], c.key_parts)

(* An expiration that no window of decent_housekeeping holds: it is inside *)
(* the block interval after a maintenance block, which the next window     *)
(* leaves out.  Content may expire at any second, so this happens.         *)
Skipped(expiration) ==
    \E m \in maintained : m < expiration /\ expiration < m + BlockInterval
Walked(expiration) == expiration <= last_budget_time /\ ~Skipped(expiration)

(* Whatever expired up to the last maintenance block has returned its      *)
(* escrow, and purchases are closed, however late the maintenance blocks   *)
(* come; but for what expired within a block interval after one of them,   *)
(* which decent_housekeeping passes over for ever.                         *)
ExpiredReturned ==
    /\ \A u \in URIs : IsContent(u) /\ Walked(content[u].expiration) =>
         content[u].publishing_fee_escrow = 0
    /\ \A p \in Purchases : IsBuying(p) /\ Walked(buying[p].expiration_time) =>
         buying[p].delivered \/ buying[p].expired

(* times_bought and num_of_ratings are the numbers of delivered and of     *)
(* rated purchases, and the average rating is within the ratings given.    *)
CountsMatchPurchases ==
    \A u \in URIs : IsContent(u) =>
        LET c == content[u]
            of == {p \in Purchases : p[2] = u /\ IsBuying(p)}
        IN  /\ c.times_bought = Cardinality({p \in of : buying[p].delivered})
            /\ c.num_of_ratings = Cardinality({p \in of : buying[p].rated})
            /\ c.num_of_ratings <= c.times_bought
            /\ c.num_of_ratings > 0 =>
                 \E lo, hi \in Ratings : 1000 * lo - c.num_of_ratings < c.AVG_rating
                                        /\ c.AVG_rating <= 1000 * hi

(* num_of_content_seeded is "increased with every initial PoR operation,   *)
(* decreased inside maint for every expired content": it counts the        *)
(* content a seeder has proved, each once and until housekeeping has       *)
(* walked its expiration.  It stays counted for ever when housekeeping     *)
(* skips it, and when the seeder is none of those the author chose, whose  *)
(* proofs are taken too but who are not visited by content_expire.         *)
SeededCounted ==
    \A s \in Seeders : stats[s].seeded =
        Cardinality({u \in URIs :
          /\ IsContent(u)
          /\ content[u].last_proof[s] # None
          /\ ~(s \in content[u].key_parts /\ Walked(content[u].expiration))})
=============================================================================
