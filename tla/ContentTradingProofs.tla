------------------------ MODULE ContentTradingProofs ------------------------
(***************************************************************************)
(* Proofs about ContentTrading, for all accounts, contents, prices, fees   *)
(* and times.                                                              *)
(*                                                                         *)
(* That a purchase is settled once and that proofs of custody cannot       *)
(* overdraw an escrow are inductive together with the types of objects.    *)
(* That maintenance returns what has expired, except what the windows of   *)
(* housekeeping skip, needs to know how one window continues the other.    *)
(* Then come the sums: the money there is, what is owed to seeders, the    *)
(* counters of purchases and of seeders' content; they use the theorems on *)
(* finite sums of SumTheorems.  The type invariant comes last, because a   *)
(* balance is never negative only as long as what is paid out was held.    *)
(***************************************************************************)
EXTENDS ContentTrading, SumTheorems, TLAPS

(* A purchase is of a content. *)
PurchasesOfContent == \A p \in Purchases : IsBuying(p) => IsContent(p[2])

Inv ==
    /\ ObjectsOK
    /\ PurchasesOfContent
    /\ SettledOnce
    /\ EscrowNotOverdrawn

(* What housekeeping has walked is returned or closed, and the last        *)
(* maintenance is the latest of all.                                       *)
ContentTimes(c) == Walked(c.expiration) => c.publishing_fee_escrow = 0
BuyingTimes(b) == Walked(b.expiration_time) => b.delivered \/ b.expired

MaintainedOK ==
    /\ maintained \subseteq Nat
    /\ last_budget_time \in maintained
    /\ \A m \in maintained : m <= last_budget_time

TimesOK ==
    /\ MaintainedOK
    /\ \A u \in URIs : IsContent(u) => ContentTimes(content[u])
    /\ \A p \in Purchases : IsBuying(p) => BuyingTimes(buying[p])

-----------------------------------------------------------------------------
(* The reward of a proof is at most what is left in the content's escrow.  *)
LEMMA RewardBounded ==
    ASSUME NEW c \in ContentObjects, NEW s \in DOMAIN c.seeder_price, s \in Seeders,
           c.last_proof[s] # None, now \in Nat, c.publishing_fee_escrow >= 0
    PROVE  Reward(c, s) \in Int /\ Reward(c, s) <= c.publishing_fee_escrow
<1>1. PICK keys \in KeyPartSets : c.seeder_price \in [keys -> SeederPrices]
  BY DEF ContentObjects
<1>2. c.seeder_price[s] \in Nat
  BY <1>1, TradingAssumption
<1>3. c.last_proof[s] \in Nat
  BY DEF ContentObjects
<1>4. RewardRatio(now - c.last_proof[s]) \in Int
  BY <1>3, TradingAssumption DEF RewardRatio, Lesser
<1>5. (c.seeder_price[s] * RewardRatio(now - c.last_proof[s])) \div 10000 \in Int
  BY <1>2, <1>4
<1> QED
  BY <1>5 DEF Reward, Lesser, ContentObjects

-----------------------------------------------------------------------------
(* When one content changes, the invariant asks only that its new value is *)
(* one of a content and that its escrow is not negative.                   *)
LEMMA ContentChange ==
    ASSUME Inv, NEW u \in URIs, NEW c \in ContentObjects, c.publishing_fee_escrow >= 0,
           content' = [content EXCEPT ![u] = c],
           seeder' \in [Seeders -> SeederObjects \cup {None}],
           UNCHANGED <<clock, buying>>
    PROVE  Inv'
<1>1. content' \in [URIs -> ContentObjects \cup {None}]
  BY DEF Inv, ObjectsOK
<1>2. ObjectsOK'
  BY <1>1 DEF Inv, ObjectsOK, clock
<1>3. SettledOnce'
  BY DEF Inv, SettledOnce, IsBuying
<1>4. EscrowNotOverdrawn'
  BY DEF Inv, ObjectsOK, EscrowNotOverdrawn, IsContent
<1>5. PurchasesOfContent'
  BY NoneAssumption DEF Inv, ObjectsOK, PurchasesOfContent, IsBuying, IsContent
<1> QED
  BY <1>2, <1>3, <1>4, <1>5 DEF Inv

(* When one purchase changes, the invariant asks only that it is one of a  *)
(* content and settled or open.                                            *)
BuyingOK(b) ==
    /\ b \in BuyingObjects
    /\ b.price = (IF b.delivered \/ b.expired THEN 0 ELSE b.paid_price)
    /\ ~(b.delivered /\ b.expired)

(* A purchase that changes to another valid one keeps the invariant.       *)
LEMMA BuyingChange ==
    ASSUME Inv, NEW p \in Purchases, NEW b, BuyingOK(b), IsContent(p[2]),
           buying' = [buying EXCEPT ![p] = b],
           UNCHANGED <<clock, seeder, content>>
    PROVE  Inv'
<1>1. ObjectsOK'
  BY DEF Inv, ObjectsOK, clock, BuyingOK
<1>2. SettledOnce'
  BY DEF Inv, ObjectsOK, SettledOnce, IsBuying, BuyingOK
<1>3. EscrowNotOverdrawn'
  BY DEF Inv, EscrowNotOverdrawn, IsContent
<1>4. PurchasesOfContent'
  BY DEF Inv, ObjectsOK, PurchasesOfContent, IsBuying, IsContent
<1> QED
  BY <1>1, <1>2, <1>3, <1>4 DEF Inv

(* The same, when the content changes with it, but not its escrow.         *)
LEMMA BothChange ==
    ASSUME Inv, NEW p \in Purchases, NEW b, BuyingOK(b), IsContent(p[2]),
           buying' = [buying EXCEPT ![p] = b],
           NEW c \in ContentObjects, c.publishing_fee_escrow >= 0,
           content' = [content EXCEPT ![p[2]] = c],
           UNCHANGED <<clock, seeder>>
    PROVE  Inv'
<1>0. p[2] \in URIs
  BY DEF Purchases
<1>1. ObjectsOK'
  BY <1>0 DEF Inv, ObjectsOK, clock, BuyingOK
<1>2. SettledOnce'
  BY DEF Inv, ObjectsOK, SettledOnce, IsBuying, BuyingOK
<1>3. EscrowNotOverdrawn'
  BY <1>0 DEF Inv, ObjectsOK, EscrowNotOverdrawn, IsContent
<1>4. PurchasesOfContent'
  BY <1>0, NoneAssumption DEF Inv, ObjectsOK, PurchasesOfContent, IsBuying, IsContent
<1> QED
  BY <1>1, <1>2, <1>3, <1>4 DEF Inv

(* A content that exists has the type and the escrow of one.               *)
LEMMA ContentOK ==
    ASSUME Inv, NEW u \in URIs, IsContent(u)
    PROVE  content[u] \in ContentObjects /\ content[u].publishing_fee_escrow >= 0
BY DEF Inv, ObjectsOK, IsContent, EscrowNotOverdrawn

-----------------------------------------------------------------------------
(* A new content has its fee in escrow.                                    *)
LEMMA SubmitInv ==
    ASSUME Inv, NEW author \in Authors, NEW u \in URIs, NEW co \in CoAuthorMaps,
           NEW price \in Prices, NEW keys \in KeyPartSets, NEW fee \in Fees,
           NEW life \in Lifetimes, Submit(author, u, co, price, keys, fee, life)
    PROVE  Inv'
<1> DEFINE new == content'[u]
<1>1. [s \in keys |-> seeder[s].price] \in [keys -> SeederPrices]
  BY TradingAssumption DEF Inv, ObjectsOK, Submit, SeederObjects
<1>2. /\ content' = [content EXCEPT ![u] = new]
      /\ new \in ContentObjects
      /\ new.publishing_fee_escrow = fee
  BY <1>1, TradingAssumption DEF Inv, ObjectsOK, Submit, ContentObjects
<1>3. seeder' \in [Seeders -> SeederObjects \cup {None}]
  BY TradingAssumption DEF Inv, ObjectsOK, Submit, SeederObjects
<1> HIDE DEF new
<1>4. UNCHANGED <<clock, buying>> /\ fee >= 0
  BY TradingAssumption DEF Submit
<1> QED
  BY <1>2, <1>3, <1>4, ContentChange

(* A resubmission leaves the escrow and the purchases alone.               *)
LEMMA ResubmitInv ==
    ASSUME Inv, NEW u \in URIs, NEW co \in CoAuthorMaps, NEW price \in Prices,
           Resubmit(u, co, price)
    PROVE  Inv'
<1> DEFINE c == [content[u] EXCEPT !.co_authors = co, !.price = price]
<1>1. content' = [content EXCEPT ![u] = c] /\ UNCHANGED <<clock, seeder, buying>>
  BY DEF Resubmit
<1>2. content[u] \in ContentObjects /\ content[u].publishing_fee_escrow >= 0
  BY ContentOK DEF Resubmit
<1>3. c \in ContentObjects /\ c.publishing_fee_escrow = content[u].publishing_fee_escrow
  BY <1>2 DEF ContentObjects
<1>4. seeder' \in [Seeders -> SeederObjects \cup {None}]
  BY <1>1 DEF Inv, ObjectsOK
<1> HIDE DEF c
<1> QED
  BY <1>1, <1>2, <1>3, <1>4, ContentChange

(* Cancellation changes the expiration only, not the escrow.               *)
LEMMA CancelInv ==
    ASSUME Inv, NEW u \in URIs, Cancel(u)
    PROVE  Inv'
<1> DEFINE e == Lesser(content[u].expiration, now + Day)
           c == [content[u] EXCEPT !.is_blocked = TRUE, !.expiration = e]
<1>1. content' = [content EXCEPT ![u] = c] /\ UNCHANGED <<clock, seeder, buying>>
  BY DEF Cancel
<1>2. content[u] \in ContentObjects /\ content[u].publishing_fee_escrow >= 0
  BY ContentOK DEF Cancel
<1>3. e \in Nat
  BY <1>2, TradingAssumption DEF Inv, ObjectsOK, ContentObjects, Lesser
<1> HIDE DEF e
<1>4. c \in ContentObjects /\ c.publishing_fee_escrow = content[u].publishing_fee_escrow
  BY <1>2, <1>3 DEF ContentObjects
<1>5. seeder' \in [Seeders -> SeederObjects \cup {None}]
  BY <1>1 DEF Inv, ObjectsOK
<1> HIDE DEF c
<1> QED
  BY <1>1, <1>2, <1>4, <1>5, ContentChange

(* A sale changes neither the type nor the escrow of a content.            *)
LEMMA SoldOK ==
    ASSUME Inv, NEW u \in URIs, IsContent(u)
    PROVE  Sold(u) \in ContentObjects /\ Sold(u).publishing_fee_escrow >= 0
<1>1. content[u] \in ContentObjects /\ content[u].publishing_fee_escrow >= 0
  BY ContentOK
<1> QED
  BY <1>1 DEF Sold, ContentObjects

(* A new purchase is open with its price in escrow, or settled.            *)
LEMMA BuyInv ==
    ASSUME Inv, NEW consumer \in Consumers, NEW u \in URIs, NEW price \in Prices,
           Buy(consumer, u, price)
    PROVE  Inv'
<1> DEFINE p == <<consumer, u>>
           paid == IF consumer \in Subscribers THEN 0 ELSE price
           simple == content[u].key_parts = {}
           b == [price |-> IF simple THEN 0 ELSE paid, paid_price |-> paid,
                 expiration_time |-> now + Day, seeders_answered |-> {},
                 delivered |-> simple, expired |-> FALSE, rated |-> FALSE]
<1>1. p \in Purchases /\ p[2] = u
  BY DEF Purchases
<1>2. /\ IsContent(u)
      /\ buying' = [buying EXCEPT ![p] = b]
      /\ content' = IF simple THEN [content EXCEPT ![u] = Sold(u)] ELSE content
      /\ UNCHANGED <<clock, seeder>>
  BY DEF Buy
<1>3. paid \in Nat /\ now + Day \in Nat
  BY TradingAssumption DEF Inv, ObjectsOK
<1>4. BuyingOK(b)
  BY <1>3 DEF BuyingOK, BuyingObjects
<1> HIDE DEF p, paid, b
<1>5. CASE simple
  BY <1>1, <1>2, <1>4, <1>5, SoldOK, BothChange
<1>6. CASE ~simple
  BY <1>1, <1>2, <1>4, <1>6, BuyingChange
<1> QED
  BY <1>5, <1>6

(* Keys settle an open purchase and leave a settled one settled.           *)
LEMMA DeliverKeysInv ==
    ASSUME Inv, NEW s \in Seeders, NEW p \in Purchases, DeliverKeys(s, p)
    PROVE  Inv'
<1> DEFINE b == buying[p]
           noted == [b EXCEPT !.seeders_answered = Answered(p, s)]
           paid == [noted EXCEPT !.price = 0, !.delivered = TRUE]
           closed == [noted EXCEPT !.price = 0, !.expired = TRUE]
<1>1. IsBuying(p) /\ p[2] \in URIs /\ IsContent(p[2]) /\ UNCHANGED <<clock, seeder>>
  BY DEF DeliverKeys, Inv, PurchasesOfContent, Purchases
<1>2. BuyingOK(b)
  BY <1>1 DEF Inv, ObjectsOK, SettledOnce, IsBuying, BuyingOK
<1>3. BuyingOK(noted)
  BY <1>2 DEF BuyingOK, BuyingObjects, Answered
<1>4. StillOpen(p) => BuyingOK(paid) /\ BuyingOK(closed)
  BY <1>2 DEF BuyingOK, BuyingObjects, Answered, StillOpen
<1>5. \/ buying' = [buying EXCEPT ![p] = noted] /\ UNCHANGED content
      \/ StillOpen(p) /\ buying' = [buying EXCEPT ![p] = closed] /\ UNCHANGED content
      \/ /\ StillOpen(p) /\ buying' = [buying EXCEPT ![p] = paid]
         /\ content' = [content EXCEPT ![p[2]] = Sold(p[2])]
  BY DEF DeliverKeys
<1>6. Sold(p[2]) \in ContentObjects /\ Sold(p[2]).publishing_fee_escrow >= 0
  BY <1>1, SoldOK
<1> HIDE DEF b, noted, paid, closed
<1> QED
  BY <1>1, <1>3, <1>4, <1>5, <1>6, BuyingChange, BothChange

(* A proof of custody takes at most the escrow.                            *)
LEMMA ProofOfCustodyInv ==
    ASSUME Inv, NEW s \in Seeders, NEW u \in URIs, ProofOfCustody(s, u)
    PROVE  Inv'
<1> DEFINE c == content[u]
           paid == [Proved(c, s) EXCEPT !.publishing_fee_escrow = @ - Reward(c, s)]
<1>1. /\ c \in ContentObjects /\ c.publishing_fee_escrow >= 0
      /\ now \in Nat
      /\ UNCHANGED <<clock, buying>>
      /\ seeder' \in [Seeders -> SeederObjects \cup {None}]
  BY ContentOK DEF ProofOfCustody, Inv, ObjectsOK
<1>2. /\ Proved(c, s) \in ContentObjects
      /\ Proved(c, s).publishing_fee_escrow = c.publishing_fee_escrow
  BY <1>1 DEF Proved, ContentObjects
<1>3. CASE content' = [content EXCEPT ![u] = Proved(c, s)]
  BY <1>1, <1>2, <1>3, ContentChange
<1>4. CASE /\ c.last_proof[s] # None
           /\ s \in DOMAIN c.seeder_price
           /\ content' = [content EXCEPT ![u] = paid]
  <2>1. Reward(c, s) \in Int /\ Reward(c, s) <= c.publishing_fee_escrow
    BY <1>1, <1>4, RewardBounded
  <2>2. paid \in ContentObjects /\ paid.publishing_fee_escrow >= 0
    BY <1>1, <1>2, <2>1 DEF ContentObjects
  <2> HIDE DEF paid
  <2> QED
    BY <1>1, <1>4, <2>2, ContentChange
<1> QED
  BY <1>3, <1>4 DEF ProofOfCustody

(* Ratings are no part of the escrow.                                      *)
LEMMA RatedOK ==
    ASSUME NEW c \in ContentObjects, NEW n \in Nat, NEW avg \in Int
    PROVE  LET rated == [c EXCEPT !.num_of_ratings = n, !.AVG_rating = avg]
           IN  rated \in ContentObjects /\ rated.publishing_fee_escrow = c.publishing_fee_escrow
BY DEF ContentObjects

(* A rating changes neither escrows nor prices.                            *)
LEMMA LeaveRatingInv ==
    ASSUME Inv, NEW p \in Purchases, NEW r \in Ratings, LeaveRating(p, r)
    PROVE  Inv'
<1> DEFINE u == p[2]
           avg == (content[u].AVG_rating * content[u].num_of_ratings + r * 1000)
                    \div (content[u].num_of_ratings + 1)
           c == [content[u] EXCEPT !.num_of_ratings = content[u].num_of_ratings + 1,
                                   !.AVG_rating = avg]
           b == [buying[p] EXCEPT !.rated = TRUE]
<1>0. /\ buying' = [buying EXCEPT ![p] = b]
      /\ content' = [content EXCEPT ![u] = c]
      /\ IsBuying(p) /\ UNCHANGED <<clock, seeder>>
  BY DEF LeaveRating
<1>1. u \in URIs /\ IsContent(u)
  BY <1>0 DEF Inv, PurchasesOfContent, Purchases
<1>2. content[u] \in ContentObjects /\ content[u].publishing_fee_escrow >= 0
  BY <1>1, ContentOK
<1>3. BuyingOK(buying[p])
  BY <1>0 DEF Inv, ObjectsOK, SettledOnce, IsBuying, BuyingOK
<1>4. avg \in Int
  <2>1. content[u].AVG_rating \in Int /\ content[u].num_of_ratings \in Nat /\ r \in Nat
    BY <1>2, TradingAssumption DEF ContentObjects
  <2> QED
    BY <2>1
<1> HIDE DEF avg
<1>5. c \in ContentObjects /\ c.publishing_fee_escrow >= 0
  <2>1. content[u].num_of_ratings + 1 \in Nat
    BY <1>2 DEF ContentObjects
  <2> QED
    BY <1>2, <1>4, <2>1, RatedOK
<1>6. BuyingOK(b)
  BY <1>3 DEF BuyingOK, BuyingObjects
<1> HIDE DEF c, b
<1> QED
  BY <1>0, <1>1, <1>5, <1>6, BothChange

(* Blocks come later than the head, by slots.                              *)
LEMMA BlockTime ==
    ASSUME ObjectsOK, NEW slots \in 1 .. MaxSlots
    PROVE  /\ (slots + SkippedSlots) \in Nat \ {0}
           /\ (slots + SkippedSlots) * BlockInterval \in Nat \ {0}
<1>1. (slots + SkippedSlots) \in Nat \ {0} /\ BlockInterval \in Nat \ {0}
  BY TradingAssumption DEF SkippedSlots
<1> QED
  BY <1>1

(* What housekeeping leaves of a content and of a purchase.                *)
LEMMA HousekeepingEffect ==
    ASSUME Inv, NEW t \in Nat, Housekeeping(t)
    PROVE  /\ \A u \in URIs :
                content'[u] = IF u \in DueContent(t)
                                THEN [content[u] EXCEPT !.publishing_fee_escrow = 0]
                                ELSE content[u]
           /\ \A p \in Purchases :
                buying'[p] = IF p \in DueBuying(t)
                               THEN [buying[p] EXCEPT !.price = 0, !.expired = TRUE]
                               ELSE buying[p]
           /\ DOMAIN content' = URIs /\ DOMAIN buying' = Purchases
           /\ content' = [u \in URIs |-> content'[u]]
           /\ buying' = [p \in Purchases |-> buying'[p]]
BY DEF Housekeeping

(* The purchases that housekeeping closes were not delivered.              *)
LEMMA HousekeepingInv ==
    ASSUME Inv, NEW t \in Nat, Housekeeping(t),
           now' = t, last_budget_time' = t, UNCHANGED seeder
    PROVE  Inv'
<1>1. ASSUME NEW u \in URIs, IsContent(u)
      PROVE  /\ content'[u] \in ContentObjects
             /\ content'[u].publishing_fee_escrow >= 0
  <2>1. content[u] \in ContentObjects /\ content[u].publishing_fee_escrow >= 0
    BY <1>1, ContentOK
  <2>2. /\ [content[u] EXCEPT !.publishing_fee_escrow = 0] \in ContentObjects
        /\ [content[u] EXCEPT !.publishing_fee_escrow = 0].publishing_fee_escrow = 0
    BY <2>1 DEF ContentObjects
  <2>3. content'[u] = content[u]
          \/ content'[u] = [content[u] EXCEPT !.publishing_fee_escrow = 0]
    BY HousekeepingEffect
  <2>4. CASE content'[u] = content[u]
    BY <2>1, <2>4
  <2>5. CASE content'[u] = [content[u] EXCEPT !.publishing_fee_escrow = 0]
    <3>1. content'[u] \in ContentObjects /\ content'[u].publishing_fee_escrow = 0
      BY <2>2, <2>5, Zenon
    <3> QED
      BY <3>1
  <2> QED
    BY <2>3, <2>4, <2>5
<1>2. \A u \in URIs : ~IsContent(u) => content'[u] = None
  BY HousekeepingEffect DEF DueContent, IsContent
<1>3. ASSUME NEW p \in Purchases, IsBuying(p)
      PROVE  BuyingOK(buying'[p])
  <2>1. BuyingOK(buying[p])
    BY <1>3 DEF Inv, ObjectsOK, SettledOnce, IsBuying, BuyingOK
  <2>2. ~buying[p].delivered => BuyingOK([buying[p] EXCEPT !.price = 0, !.expired = TRUE])
    BY <2>1 DEF BuyingOK, BuyingObjects
  <2>3. \/ buying'[p] = buying[p]
        \/ /\ ~buying[p].delivered
           /\ buying'[p] = [buying[p] EXCEPT !.price = 0, !.expired = TRUE]
    BY HousekeepingEffect DEF DueBuying
  <2> QED
    BY <2>1, <2>2, <2>3
<1>4. \A p \in Purchases : ~IsBuying(p) => buying'[p] = None
  BY HousekeepingEffect DEF DueBuying, IsBuying
<1>5. content' \in [URIs -> ContentObjects \cup {None}]
  BY <1>1, <1>2, HousekeepingEffect
<1>6. buying' \in [Purchases -> BuyingObjects \cup {None}]
  BY <1>3, <1>4, HousekeepingEffect DEF BuyingOK
<1>7. ObjectsOK'
  BY <1>5, <1>6 DEF Inv, ObjectsOK
<1>8. SettledOnce'
  BY <1>3, <1>4 DEF SettledOnce, IsBuying, BuyingOK
<1>9. EscrowNotOverdrawn'
  BY <1>1, <1>2 DEF EscrowNotOverdrawn, IsContent
<1>10. PurchasesOfContent'
  <2>1. ASSUME NEW p \in Purchases, IsBuying(p)'
        PROVE  IsContent(p[2])'
    <3>1. p[2] \in URIs /\ IsContent(p[2])
      BY <2>1, <1>4 DEF Inv, PurchasesOfContent, Purchases, IsBuying
    <3> QED
      BY <3>1, <1>1, NoneAssumption DEF IsContent
  <2> QED
    BY <2>1 DEF PurchasesOfContent
<1> QED
  BY <1>7, <1>8, <1>9, <1>10 DEF Inv

(* A block keeps the invariant, a maintenance block too.                   *)
LEMMA BlockInv ==
    ASSUME Inv, NEW slots \in 1 .. MaxSlots, Block(slots)
    PROVE  Inv'
<1> DEFINE t == now + (slots + SkippedSlots) * BlockInterval
<1>1. t \in Nat /\ t > now
  BY BlockTime DEF Inv, ObjectsOK
<1>2. now' = t /\ UNCHANGED seeder
  BY DEF Block
<1>3. CASE UNCHANGED <<last_budget_time, content, buying>>
  <2>1. ObjectsOK'
    BY <1>1, <1>2, <1>3 DEF Inv, ObjectsOK
  <2>2. SettledOnce' /\ EscrowNotOverdrawn' /\ PurchasesOfContent'
    BY <1>3 DEF Inv, SettledOnce, EscrowNotOverdrawn, PurchasesOfContent, IsContent, IsBuying
  <2> QED
    BY <2>1, <2>2 DEF Inv
<1>4. CASE Housekeeping(t) /\ last_budget_time' = t
  BY <1>1, <1>2, <1>4, HousekeepingInv
<1> QED
  BY <1>3, <1>4 DEF Block

(* A seeder's announcement changes only the seeder.                        *)
LEMMA ReadyToPublishInv ==
    ASSUME Inv, NEW s \in Seeders, NEW space \in Spaces, NEW price \in SeederPrices,
           ReadyToPublish(s, space, price)
    PROVE  Inv'
<1>1. ObjectsOK'
  BY TradingAssumption DEF Inv, ObjectsOK, ReadyToPublish, SeederObjects, clock
<1>2. SettledOnce' /\ EscrowNotOverdrawn' /\ PurchasesOfContent'
  BY DEF Inv, ReadyToPublish, SettledOnce, EscrowNotOverdrawn, PurchasesOfContent,
         IsContent, IsBuying
<1> QED
  BY <1>1, <1>2 DEF Inv

-----------------------------------------------------------------------------
(* Inv is an invariant of every execution of the operations and blocks.    *)
THEOREM Invariance == Spec => []Inv
<1>1. Init => Inv
  BY DEF Init, Inv, ObjectsOK, SettledOnce, EscrowNotOverdrawn, PurchasesOfContent,
         IsContent, IsBuying
<1>2. Inv /\ [Next]_vars => Inv'
  <2> SUFFICES ASSUME Inv, [Next]_vars PROVE Inv'
    OBVIOUS
  <2>1. CASE UNCHANGED vars
    BY <2>1 DEF Inv, ObjectsOK, SettledOnce, EscrowNotOverdrawn, PurchasesOfContent,
                IsContent, IsBuying, vars
  <2>2. CASE Next
    BY <2>2, ReadyToPublishInv, SubmitInv, ResubmitInv, CancelInv, BuyInv, DeliverKeysInv,
       ProofOfCustodyInv, LeaveRatingInv, BlockInv DEF Next
  <2> QED
    BY <2>1, <2>2
<1> QED
  BY <1>1, <1>2, PTL DEF Spec

(* Every purchase is settled exactly once.                                 *)
THEOREM PurchasesSettledOnce == Spec => []SettledOnce
<1>1. Inv => SettledOnce
  BY DEF Inv
<1> QED
  BY <1>1, Invariance, PTL

(* Proofs of custody never overdraw the escrow of a content.               *)
THEOREM EscrowsCovered == Spec => []EscrowNotOverdrawn
<1>1. Inv => EscrowNotOverdrawn
  BY DEF Inv
<1> QED
  BY <1>1, Invariance, PTL

-----------------------------------------------------------------------------
(* What expires after the last maintenance is not walked yet, and the      *)
(* window of the next maintenance is what it adds to what is walked.       *)
LEMMA NotYetWalked ==
    ASSUME NEW e \in Nat, last_budget_time \in Nat, e > last_budget_time
    PROVE  ~Walked(e)
BY DEF Walked

LEMMA WindowWalked ==
    ASSUME MaintainedOK, last_budget_time \in Nat, NEW t \in Nat, last_budget_time <= t,
           last_budget_time' = t, maintained' = maintained \cup {t}, NEW e \in Nat
    PROVE  /\ Walked(e)' <=> Walked(e) \/ Due(e, t)
           /\ ~(Walked(e) /\ Due(e, t))
<1>1. BlockInterval \in Nat \ {0}
  BY TradingAssumption
<1>2. Walked(e)' <=> e <= t /\ \A m \in maintained \cup {t} : ~(m < e /\ e < m + BlockInterval)
  BY DEF Walked, Skipped
<1>3. Walked(e) <=> /\ e <= last_budget_time
                    /\ \A m \in maintained : ~(m < e /\ e < m + BlockInterval)
  BY DEF Walked, Skipped
<1>4. Due(e, t) <=> last_budget_time + BlockInterval <= e /\ e <= t
  BY DEF Due
<1>5. ASSUME Due(e, t), NEW m \in maintained
      PROVE  ~(m < e /\ e < m + BlockInterval)
  BY <1>1, <1>4, <1>5 DEF MaintainedOK
<1>6. ASSUME Walked(e)', ~Walked(e) PROVE Due(e, t)
  <2>1. e > last_budget_time
    BY <1>2, <1>3, <1>6
  <2>2. ~(last_budget_time < e /\ e < last_budget_time + BlockInterval)
    BY <1>2, <1>6 DEF MaintainedOK
  <2> QED
    BY <1>1, <1>2, <1>4, <1>6, <2>1, <2>2
<1>7. ASSUME Due(e, t) PROVE Walked(e)'
  BY <1>1, <1>2, <1>4, <1>5, <1>7
<1>8. ASSUME Walked(e) PROVE Walked(e)'
  BY <1>1, <1>2, <1>3, <1>8
<1> QED
  BY <1>1, <1>3, <1>4, <1>6, <1>7, <1>8

(* An operation keeps TimesOK when it does for the objects it changes.     *)
LEMMA TimesChange ==
    ASSUME TimesOK, UNCHANGED clock,
           \A u \in URIs : content'[u] = content[u] \/ ContentTimes(content'[u]),
           \A p \in Purchases : buying'[p] = buying[p] \/ BuyingTimes(buying'[p])
    PROVE  TimesOK'
<1>1. last_budget_time' = last_budget_time /\ maintained' = maintained
  BY DEF clock
<1>2. ASSUME NEW u \in URIs, IsContent(u)'
      PROVE  ContentTimes(content[u])'
  <2>1. ContentTimes(content'[u])
    BY <1>2 DEF TimesOK, IsContent
  <2> QED
    BY <1>1, <2>1 DEF ContentTimes, Walked, Skipped
<1>3. ASSUME NEW p \in Purchases, IsBuying(p)'
      PROVE  BuyingTimes(buying[p])'
  <2>1. BuyingTimes(buying'[p])
    BY <1>3 DEF TimesOK, IsBuying
  <2> QED
    BY <1>1, <2>1 DEF BuyingTimes, Walked, Skipped
<1>4. MaintainedOK'
  BY <1>1 DEF TimesOK, MaintainedOK
<1> QED
  BY <1>2, <1>3, <1>4 DEF TimesOK

(* What expires after the head expires after the last maintenance.         *)
LEMMA LaterContent ==
    ASSUME Inv, NEW c \in ContentObjects, c.expiration > now
    PROVE  ContentTimes(c)
BY NotYetWalked DEF Inv, ObjectsOK, ContentObjects, ContentTimes

(* A content whose expiration and escrow stay keeps its times.             *)
LEMMA SameContent ==
    ASSUME TimesOK, NEW u \in URIs, IsContent(u), NEW c,
           c.expiration = content[u].expiration,
           c.publishing_fee_escrow = content[u].publishing_fee_escrow
    PROVE  ContentTimes(c)
BY DEF TimesOK, ContentTimes

(* A new content expires after the head.                                   *)
LEMMA SubmitTimes ==
    ASSUME Inv, TimesOK,
           NEW author \in Authors, NEW u \in URIs, NEW co \in CoAuthorMaps,
           NEW price \in Prices, NEW keys \in KeyPartSets, NEW fee \in Fees,
           NEW life \in Lifetimes, Submit(author, u, co, price, keys, fee, life)
    PROVE  TimesOK'
<1>2. life \in Nat /\ life # 0
  <2>1. life \in Nat /\ Day \in Nat \ {0} /\ life \div Day # 0
    BY TradingAssumption DEF Submit
  <2>2. 0 \div Day = 0
    BY <2>1
  <2> QED
    BY <2>1, <2>2
<1>3. content'[u].expiration = now + life
  BY DEF Submit, Inv, ObjectsOK
<1>4. now + life > last_budget_time /\ now + life \in Nat
  BY <1>2 DEF Inv, ObjectsOK
<1>5. ContentTimes(content'[u])
  BY <1>3, <1>4, NotYetWalked DEF ContentTimes, Inv, ObjectsOK
<1>6. /\ \A v \in URIs : v # u => content'[v] = content[v]
      /\ UNCHANGED <<clock, buying>>
  BY DEF Submit, Inv, ObjectsOK
<1> QED
  BY <1>5, <1>6, TimesChange

(* A resubmission changes no time.                                         *)
LEMMA ResubmitTimes ==
    ASSUME Inv, TimesOK, NEW u \in URIs, NEW co \in CoAuthorMaps, NEW price \in Prices,
           Resubmit(u, co, price)
    PROVE  TimesOK'
<1> DEFINE c == [content[u] EXCEPT !.co_authors = co, !.price = price]
<1>1. content' = [content EXCEPT ![u] = c] /\ UNCHANGED <<clock, seeder, buying>>
  BY DEF Resubmit
<1>2. IsContent(u) /\ content[u] \in ContentObjects
  BY ContentOK DEF Resubmit
<1>3. /\ c.expiration = content[u].expiration
      /\ c.publishing_fee_escrow = content[u].publishing_fee_escrow
  BY <1>2 DEF ContentObjects
<1>4. content'[u] = c /\ \A v \in URIs : v # u => content'[v] = content[v]
  BY <1>1 DEF Inv, ObjectsOK
<1> HIDE DEF c
<1>5. ContentTimes(c)
  BY <1>2, <1>3, SameContent
<1> QED
  BY <1>1, <1>4, <1>5, TimesChange

(* A cancelled content still expires after the head.                       *)
LEMMA CancelTimes ==
    ASSUME Inv, TimesOK, NEW u \in URIs, Cancel(u)
    PROVE  TimesOK'
<1> DEFINE e == Lesser(content[u].expiration, now + Day)
           c == [content[u] EXCEPT !.is_blocked = TRUE, !.expiration = e]
<1>1. content' = [content EXCEPT ![u] = c] /\ UNCHANGED <<clock, seeder, buying>>
  BY DEF Cancel
<1>2. IsContent(u) /\ content[u] \in ContentObjects /\ content[u].expiration > now
  BY ContentOK DEF Cancel
<1>5. e \in Nat /\ e > now
  BY <1>2, TradingAssumption DEF Inv, ObjectsOK, ContentObjects, Lesser
<1> HIDE DEF e
<1>6. c \in ContentObjects /\ c.expiration = e
  BY <1>2, <1>5 DEF ContentObjects
<1>7. content'[u] = c /\ \A v \in URIs : v # u => content'[v] = content[v]
  BY <1>1 DEF Inv, ObjectsOK
<1> HIDE DEF c
<1>8. ContentTimes(c)
  BY <1>5, <1>6, LaterContent
<1> QED
  BY <1>1, <1>7, <1>8, TimesChange

(* A sale changes no time of the content.                                  *)
LEMMA SoldTimes ==
    ASSUME Inv, TimesOK, NEW u \in URIs, IsContent(u)
    PROVE  ContentTimes(Sold(u))
<1>1. content[u] \in ContentObjects
  BY ContentOK
<1>2. /\ Sold(u).expiration = content[u].expiration
      /\ Sold(u).publishing_fee_escrow = content[u].publishing_fee_escrow
  BY <1>1 DEF Sold, ContentObjects
<1> QED
  BY <1>2, SameContent

(* A new purchase expires after the head.                                  *)
LEMMA BuyTimes ==
    ASSUME Inv, TimesOK,
           NEW consumer \in Consumers, NEW u \in URIs, NEW price \in Prices,
           Buy(consumer, u, price)
    PROVE  TimesOK'
<1> DEFINE p == <<consumer, u>>
<1>1. p \in Purchases /\ IsContent(u)
  BY DEF Purchases, Buy
<1>2. buying'[p].expiration_time = now + Day
  BY <1>1 DEF Buy, Inv, ObjectsOK
<1>3. now + Day \in Nat /\ now + Day > last_budget_time
  BY TradingAssumption DEF Inv, ObjectsOK
<1>4. BuyingTimes(buying'[p])
  BY <1>2, <1>3, NotYetWalked DEF BuyingTimes, Inv, ObjectsOK
<1>5. \A q \in Purchases : q # p => buying'[q] = buying[q]
  BY DEF Buy, Inv, ObjectsOK
<1>6. \A v \in URIs : content'[v] = content[v] \/ content'[v] = Sold(u)
  BY <1>1 DEF Buy, Inv, ObjectsOK
<1>7. ContentTimes(Sold(u))
  BY <1>1, SoldTimes
<1>8. UNCHANGED clock
  BY DEF Buy
<1> HIDE DEF p
<1>9. \A q \in Purchases : buying'[q] = buying[q] \/ BuyingTimes(buying'[q])
  BY <1>4, <1>5
<1>10. \A v \in URIs : content'[v] = content[v] \/ ContentTimes(content'[v])
  BY <1>6, <1>7
<1> QED
  BY <1>8, <1>9, <1>10, TimesChange

(* Keys change no time and reopen no purchase.                             *)
LEMMA DeliverKeysTimes ==
    ASSUME Inv, TimesOK, NEW s \in Seeders, NEW p \in Purchases, DeliverKeys(s, p)
    PROVE  TimesOK'
<1> DEFINE noted == [buying[p] EXCEPT !.seeders_answered = Answered(p, s)]
           paid == [noted EXCEPT !.price = 0, !.delivered = TRUE]
           closed == [noted EXCEPT !.price = 0, !.expired = TRUE]
<1>1. IsBuying(p) /\ p[2] \in URIs /\ IsContent(p[2]) /\ UNCHANGED clock
  BY DEF DeliverKeys, Inv, PurchasesOfContent, Purchases
<1>2. buying[p] \in BuyingObjects /\ BuyingTimes(buying[p])
  BY <1>1 DEF Inv, ObjectsOK, IsBuying, TimesOK
<1>3. /\ buying'[p].expiration_time = buying[p].expiration_time
      /\ buying[p].delivered \/ buying[p].expired
           => buying'[p].delivered \/ buying'[p].expired
  <2>1. buying'[p] \in {noted, paid, closed}
    BY DEF DeliverKeys, Inv, ObjectsOK
  <2>2. \A b \in {noted, paid, closed} :
          /\ b.expiration_time = buying[p].expiration_time
          /\ buying[p].delivered \/ buying[p].expired => b.delivered \/ b.expired
    BY <1>2 DEF BuyingObjects
  <2> HIDE DEF noted, paid, closed
  <2> QED
    BY <2>1, <2>2
<1>4. BuyingTimes(buying'[p])
  BY <1>2, <1>3 DEF BuyingTimes
<1>5. \A q \in Purchases : q # p => buying'[q] = buying[q]
  BY DEF DeliverKeys, Inv, ObjectsOK
<1>6. \A v \in URIs : content'[v] = content[v] \/ content'[v] = Sold(p[2])
  BY <1>1 DEF DeliverKeys, Inv, ObjectsOK
<1>7. ContentTimes(Sold(p[2]))
  BY <1>1, SoldTimes
<1>8. \A v \in URIs : content'[v] = content[v] \/ ContentTimes(content'[v])
  BY <1>6, <1>7
<1> QED
  BY <1>1, <1>4, <1>5, <1>8, TimesChange

(* A proof is of content that expires after the head.                      *)
LEMMA ProofOfCustodyTimes ==
    ASSUME Inv, TimesOK, NEW s \in Seeders, NEW u \in URIs, ProofOfCustody(s, u)
    PROVE  TimesOK'
<1> DEFINE c == content[u]
           paid == [Proved(c, s) EXCEPT !.publishing_fee_escrow = @ - Reward(c, s)]
<1>1. /\ IsContent(u) /\ c \in ContentObjects /\ c.expiration > now
      /\ UNCHANGED <<clock, buying>>
  BY ContentOK DEF ProofOfCustody
<1>2. Proved(c, s).expiration = c.expiration /\ paid.expiration = c.expiration
  BY <1>1 DEF Proved, ContentObjects
<1>3. content'[u] = Proved(c, s) \/ content'[u] = paid
  BY DEF ProofOfCustody, Inv, ObjectsOK
<1>4. \A v \in URIs : v # u => content'[v] = content[v]
  BY DEF ProofOfCustody, Inv, ObjectsOK
<1>5. ~Walked(c.expiration)
  BY <1>1, NotYetWalked DEF Inv, ObjectsOK, ContentObjects
<1>6. content'[u].expiration = c.expiration
  BY <1>2, <1>3
<1>7. ContentTimes(content'[u])
  BY <1>5, <1>6 DEF ContentTimes
<1> QED
  BY <1>1, <1>4, <1>7, TimesChange

(* A rating changes no time.                                               *)
LEMMA LeaveRatingTimes ==
    ASSUME Inv, TimesOK, NEW p \in Purchases, NEW r \in Ratings, LeaveRating(p, r)
    PROVE  TimesOK'
<1> DEFINE u == p[2]
           avg == (content[u].AVG_rating * content[u].num_of_ratings + r * 1000)
                    \div (content[u].num_of_ratings + 1)
           c == [content[u] EXCEPT !.num_of_ratings = content[u].num_of_ratings + 1,
                                   !.AVG_rating = avg]
           b == [buying[p] EXCEPT !.rated = TRUE]
<1>0. /\ buying' = [buying EXCEPT ![p] = b]
      /\ content' = [content EXCEPT ![u] = c]
      /\ IsBuying(p) /\ UNCHANGED <<clock, seeder>>
  BY DEF LeaveRating
<1>1. u \in URIs /\ IsContent(u)
  BY <1>0 DEF Inv, PurchasesOfContent, Purchases
<1>2. content[u] \in ContentObjects /\ buying[p] \in BuyingObjects
  BY <1>0, <1>1, ContentOK DEF Inv, ObjectsOK, IsBuying
<1> HIDE DEF avg
<1>3. /\ c.expiration = content[u].expiration
      /\ c.publishing_fee_escrow = content[u].publishing_fee_escrow
  BY <1>2 DEF ContentObjects
<1>4. /\ b.expiration_time = buying[p].expiration_time
      /\ b.delivered = buying[p].delivered /\ b.expired = buying[p].expired
  BY <1>2 DEF BuyingObjects
<1> HIDE DEF c, b, u
<1>5. ContentTimes(c)
  BY <1>1, <1>3, SameContent
<1>6. BuyingTimes(b)
  BY <1>0, <1>4 DEF TimesOK, BuyingTimes
<1>7. \A v \in URIs : content'[v] = content[v] \/ content'[v] = c
  BY <1>0 DEF Inv, ObjectsOK
<1>8. \A q \in Purchases : buying'[q] = buying[q] \/ buying'[q] = b
  BY <1>0 DEF Inv, ObjectsOK
<1> QED
  BY <1>0, <1>5, <1>6, <1>7, <1>8, TimesChange

(* What a maintenance adds to what is walked is what it returns or closes. *)
LEMMA BlockTimes ==
    ASSUME Inv, TimesOK, NEW slots \in 1 .. MaxSlots, Block(slots)
    PROVE  TimesOK'
<1> DEFINE t == now + (slots + SkippedSlots) * BlockInterval
<1>1. t \in Nat /\ last_budget_time \in Nat /\ last_budget_time <= t
  BY BlockTime DEF Inv, ObjectsOK
<1> HIDE DEF t
<1>3. CASE UNCHANGED <<last_budget_time, maintained, content, buying>>
  BY <1>3 DEF TimesOK, MaintainedOK, ContentTimes, BuyingTimes, IsContent, IsBuying, Walked, Skipped
<1>4. CASE Housekeeping(t) /\ last_budget_time' = t /\ maintained' = maintained \cup {t}
  <2>0. ASSUME NEW e \in Nat PROVE Walked(e)' <=> Walked(e) \/ Due(e, t)
    BY <1>1, <1>4, WindowWalked DEF TimesOK
  <2>1. ASSUME NEW u \in URIs, IsContent(u)'
        PROVE  ContentTimes(content[u])'
    <3>1. IsContent(u)
      BY <1>1, <1>4, <2>1, HousekeepingEffect DEF DueContent, IsContent
    <3>2. content[u] \in ContentObjects /\ ContentTimes(content[u])
      BY <3>1, ContentOK DEF TimesOK
    <3>3. CASE u \in DueContent(t)
      <4>1. content'[u] = [content[u] EXCEPT !.publishing_fee_escrow = 0]
        BY <1>1, <1>4, <3>3, HousekeepingEffect
      <4>2. content'[u].expiration = content[u].expiration
              /\ content'[u].publishing_fee_escrow = 0
        BY <3>2, <4>1 DEF ContentObjects
      <4> QED
        BY <3>2, <4>2 DEF ContentTimes
    <3>4. CASE u \notin DueContent(t)
      <4>1. content'[u] = content[u]
        BY <1>1, <1>4, <3>4, HousekeepingEffect
      <4>2. ~Due(content[u].expiration, t) /\ content[u].expiration \in Nat
        BY <3>1, <3>2, <3>4 DEF DueContent, ContentObjects
      <4>3. Walked(content[u].expiration)' => Walked(content[u].expiration)
        BY <2>0, <4>1, <4>2
      <4> QED
        BY <3>2, <4>1, <4>3 DEF ContentTimes
    <3> QED
      BY <3>3, <3>4
  <2>2. ASSUME NEW p \in Purchases, IsBuying(p)'
        PROVE  BuyingTimes(buying[p])'
    <3>1. IsBuying(p)
      BY <1>1, <1>4, <2>2, HousekeepingEffect DEF DueBuying, IsBuying
    <3>2. buying[p] \in BuyingObjects /\ BuyingTimes(buying[p])
      BY <3>1 DEF TimesOK, Inv, ObjectsOK, IsBuying
    <3>3. CASE p \in DueBuying(t)
      <4>1. buying'[p] = [buying[p] EXCEPT !.price = 0, !.expired = TRUE]
        BY <1>1, <1>4, <3>3, HousekeepingEffect
      <4>2. buying'[p].expiration_time = buying[p].expiration_time /\ buying'[p].expired
        BY <3>2, <4>1 DEF BuyingObjects
      <4> QED
        BY <3>2, <4>2 DEF BuyingTimes
    <3>4. CASE p \notin DueBuying(t)
      <4>1. buying'[p] = buying[p]
        BY <1>1, <1>4, <3>4, HousekeepingEffect
      <4>2. /\ buying[p].delivered \/ ~Due(buying[p].expiration_time, t)
            /\ buying[p].expiration_time \in Nat
        BY <3>1, <3>2, <3>4 DEF DueBuying, BuyingObjects
      <4>3. Walked(buying[p].expiration_time)'
              => buying[p].delivered \/ Walked(buying[p].expiration_time)
        BY <2>0, <4>1, <4>2
      <4> QED
        BY <3>2, <4>1, <4>3 DEF BuyingTimes
    <3> QED
      BY <3>3, <3>4
  <2>3. MaintainedOK'
    BY <1>1, <1>4 DEF TimesOK, MaintainedOK
  <2> QED
    BY <2>1, <2>2, <2>3 DEF TimesOK
<1> QED
  BY <1>3, <1>4 DEF Block, t

(* The windows of housekeeping continue each other at every maintenance.   *)
THEOREM TimesInvariance == Spec => []TimesOK
<1>1. Init => TimesOK
  BY DEF Init, TimesOK, MaintainedOK, IsContent, IsBuying
<1>2. Inv /\ TimesOK /\ [Next]_vars => TimesOK'
  <2> SUFFICES ASSUME Inv, TimesOK, [Next]_vars PROVE TimesOK'
    OBVIOUS
  <2>1. CASE UNCHANGED vars
    BY <2>1 DEF TimesOK, MaintainedOK, ContentTimes, BuyingTimes, IsContent, IsBuying,
                Walked, Skipped, vars
  <2>2. ASSUME NEW s \in Seeders, NEW space \in Spaces, NEW price \in SeederPrices,
               ReadyToPublish(s, space, price)
        PROVE  TimesOK'
    BY <2>2, TimesChange DEF ReadyToPublish
  <2>3. CASE Next
    BY <2>2, <2>3, SubmitTimes, ResubmitTimes, CancelTimes, BuyTimes,
       DeliverKeysTimes, ProofOfCustodyTimes, LeaveRatingTimes, BlockTimes DEF Next
  <2> QED
    BY <2>1, <2>3
<1> QED
  BY <1>1, <1>2, Invariance, PTL DEF Spec

(* Maintenance blocks return all that has expired up to them, at whatever  *)
(* second and however late they come, except what expires less than one    *)
(* block interval after one of them, where the next walk of                *)
(* decent_housekeeping has not begun.                                      *)
THEOREM MaintenanceReturns == Spec => []ExpiredReturned
<1>1. TimesOK => ExpiredReturned
  BY DEF TimesOK, ContentTimes, BuyingTimes, ExpiredReturned
<1> QED
  BY <1>1, TimesInvariance, PTL

-----------------------------------------------------------------------------
(* Sums of money.  balance stays a function to integers; each operation    *)
(* moves what it takes from one of the three sums to another.              *)
IntBalances == balance \in [Accounts -> Int]

(* What is held is an integer for each of finitely many holders.           *)
LEMMA HeldInts ==
    ASSUME Inv
    PROVE  /\ IsFiniteSet(Accounts) /\ IsFiniteSet(URIs) /\ IsFiniteSet(Purchases)
           /\ IntValued(FeesHeld, URIs) /\ IntValued(PricesHeld, Purchases)
<1>1. IsFiniteSet(Accounts) /\ IsFiniteSet(URIs) /\ IsFiniteSet(Consumers)
  BY TradingAssumption, FS_Subset
<1>2. IsFiniteSet(Purchases)
  BY <1>1, FS_Product DEF Purchases
<1>3. IntValued(FeesHeld, URIs)
  BY DEF Inv, ObjectsOK, IntValued, FeesHeld, IsContent, ContentObjects
<1>4. IntValued(PricesHeld, Purchases)
  BY DEF Inv, ObjectsOK, IntValued, PricesHeld, IsBuying, BuyingObjects
<1> QED
  BY <1>1, <1>2, <1>3, <1>4

(* An account is credited or debited.                                      *)
LEMMA BalanceChange ==
    ASSUME IntBalances, NEW a \in Accounts, NEW n \in Int,
           balance' = [balance EXCEPT ![a] = @ + n]
    PROVE  /\ IntBalances'
           /\ SumFunctionOnSet(balance', Accounts) = SumFunctionOnSet(balance, Accounts) + n
<1> DEFINE after == balance'
<1>1. IsFiniteSet(Accounts) /\ IntValued(balance, Accounts)
  BY TradingAssumption DEF IntBalances, IntValued
<1>2. /\ after[a] = balance[a] + n /\ after[a] \in Int /\ balance[a] \in Int
      /\ \A b \in Accounts : b # a => after[b] = balance[b]
  BY DEF IntBalances
<1>3. IntBalances'
  BY DEF IntBalances
<1> HIDE DEF after
<1>4. SumFunctionOnSet(after, Accounts) =
        SumFunctionOnSet(balance, Accounts) + (after[a] - balance[a])
  BY <1>1, <1>2, SumUpdate
<1>5. SumFunctionOnSet(after, Accounts) = SumFunctionOnSet(balance, Accounts) + n
  BY <1>1, <1>2, <1>4, SumType
<1> QED
  BY <1>3, <1>5 DEF after

(* One content changes.                                                    *)
LEMMA FeeChange ==
    ASSUME Inv, NEW u \in URIs, NEW c \in ContentObjects,
           content' = [content EXCEPT ![u] = c]
    PROVE  SumFunctionOnSet(FeesHeld', URIs) =
             SumFunctionOnSet(FeesHeld, URIs) + (c.publishing_fee_escrow - FeesHeld[u])
<1>1. FeesHeld'[u] = c.publishing_fee_escrow /\ c.publishing_fee_escrow \in Int
  BY NoneAssumption DEF FeesHeld, IsContent, Inv, ObjectsOK, ContentObjects
<1>2. \A v \in URIs : v # u => FeesHeld'[v] = FeesHeld[v]
  BY DEF FeesHeld, IsContent, Inv, ObjectsOK
<1> QED
  BY <1>1, <1>2, HeldInts, SumUpdate

(* One purchase changes.                                                   *)
LEMMA PriceChange ==
    ASSUME Inv, NEW p \in Purchases, NEW b \in BuyingObjects,
           buying' = [buying EXCEPT ![p] = b]
    PROVE  SumFunctionOnSet(PricesHeld', Purchases) =
             SumFunctionOnSet(PricesHeld, Purchases) + (b.price - PricesHeld[p])
<1>1. PricesHeld'[p] = b.price /\ b.price \in Int
  BY NoneAssumption DEF PricesHeld, IsBuying, Inv, ObjectsOK, BuyingObjects
<1>2. \A q \in Purchases : q # p => PricesHeld'[q] = PricesHeld[q]
  BY DEF PricesHeld, IsBuying, Inv, ObjectsOK
<1> QED
  BY <1>1, <1>2, HeldInts, SumUpdate

(* What stays the same.                                                    *)
LEMMA SameHeld ==
    /\ UNCHANGED content => FeesHeld' = FeesHeld
    /\ UNCHANGED buying => PricesHeld' = PricesHeld
BY DEF FeesHeld, PricesHeld, IsContent, IsBuying

(* A payout distributes the whole amount: what rounding leaves of the      *)
(* co-authors' shares is the author's.                                     *)
LEMMA PayoutSum ==
    ASSUME NEW bal \in [Accounts -> Int], NEW amount \in Nat, NEW c \in ContentObjects
    PROVE  /\ Payout(bal, amount, c) \in [Accounts -> Int]
           /\ SumFunctionOnSet(Payout(bal, amount, c), Accounts) =
                SumFunctionOnSet(bal, Accounts) + amount
<1> DEFINE co == c.co_authors
           share == [a \in DOMAIN co |-> Share(amount, co[a])]
           given == [a \in Accounts |-> IF a \in DOMAIN co THEN share[a] ELSE 0]
           both == [a \in Accounts |-> bal[a] + given[a]]
           pay == Payout(bal, amount, c)
           rest == amount - Shared(amount, co)
<1>1. /\ DOMAIN co \in SUBSET Accounts /\ c.author \in Accounts /\ IsFiniteSet(Accounts)
      /\ \A a \in DOMAIN co : co[a] \in Nat
  BY TradingAssumption DEF ContentObjects
<1>2. IsFiniteSet(DOMAIN co)
  BY <1>1, FS_Subset
<1>3. IntValued(share, DOMAIN co)
  BY <1>1 DEF IntValued, Share
<1>4. Shared(amount, co) = SumFunctionOnSet(share, DOMAIN co)
  BY DEF Shared
<1>5. Shared(amount, co) \in Int
  BY <1>2, <1>3, <1>4, SumType
<1>6. SumFunctionOnSet(given, Accounts) = Shared(amount, co)
  <2>1. \A a \in Accounts : given[a] = IF a \in DOMAIN co THEN share[a] ELSE 0
    OBVIOUS
  <2> HIDE DEF given, share
  <2> QED
    BY <1>1, <1>3, <1>4, <2>1, SumFilter
<1>7. IntValued(given, Accounts) /\ IntValued(bal, Accounts)
  BY <1>3 DEF IntValued
<1>8. SumFunctionOnSet(both, Accounts) =
        SumFunctionOnSet(bal, Accounts) + Shared(amount, co)
  <2>1. \A a \in Accounts : both[a] = bal[a] + given[a]
    OBVIOUS
  <2> HIDE DEF both, given
  <2> QED
    BY <1>1, <1>6, <1>7, <2>1, SumPlus
<1>9. pay = [a \in Accounts |-> both[a] + (IF a = c.author THEN rest ELSE 0)]
  BY DEF Payout
<1>10. /\ pay[c.author] = both[c.author] + rest
       /\ \A a \in Accounts : a # c.author => pay[a] = both[a]
       /\ IntValued(both, Accounts) /\ pay \in [Accounts -> Int]
  <2>1. \A a \in Accounts : both[a] \in Int
    BY <1>7 DEF IntValued
  <2> HIDE DEF both, pay
  <2> QED
    BY <1>1, <1>5, <1>9, <2>1 DEF IntValued
<1> HIDE DEF both, pay
<1>11. SumFunctionOnSet(pay, Accounts) = SumFunctionOnSet(both, Accounts) + rest
  <2>1. pay[c.author] \in Int /\ both[c.author] \in Int
    BY <1>1, <1>10 DEF IntValued
  <2>2. SumFunctionOnSet(pay, Accounts) =
          SumFunctionOnSet(both, Accounts) + (pay[c.author] - both[c.author])
    BY <1>1, <1>10, <2>1, SumUpdate
  <2> QED
    BY <1>5, <1>10, <2>1, <2>2
<1>12. SumFunctionOnSet(bal, Accounts) \in Int
  BY <1>1, <1>7, SumType
<1> QED
  BY <1>5, <1>8, <1>10, <1>11, <1>12 DEF pay

(* The three sums move together.                                           *)
Held == SumFunctionOnSet(balance, Accounts) + SumFunctionOnSet(FeesHeld, URIs)
          + SumFunctionOnSet(PricesHeld, Purchases)

(* The sums before and after, when they change by x, y and z.              *)
LEMMA HeldChange ==
    ASSUME Inv, IntBalances, NEW x \in Int, NEW y \in Int, NEW z \in Int, x + y + z = 0,
           SumFunctionOnSet(balance', Accounts) = SumFunctionOnSet(balance, Accounts) + x,
           SumFunctionOnSet(FeesHeld', URIs) = SumFunctionOnSet(FeesHeld, URIs) + y,
           SumFunctionOnSet(PricesHeld', Purchases) = SumFunctionOnSet(PricesHeld, Purchases) + z
    PROVE  Held' = Held
<1>1. IntValued(balance, Accounts)
  BY DEF IntBalances, IntValued
<1>2. /\ SumFunctionOnSet(balance, Accounts) \in Int
      /\ SumFunctionOnSet(FeesHeld, URIs) \in Int
      /\ SumFunctionOnSet(PricesHeld, Purchases) \in Int
  BY <1>1, HeldInts, SumType
<1>3. Held' = SumFunctionOnSet(balance', Accounts) + SumFunctionOnSet(FeesHeld', URIs)
                + SumFunctionOnSet(PricesHeld', Purchases)
  BY DEF Held
<1>4. \A b, f, p \in Int : (b + x) + (f + y) + (p + z) = b + f + p
  OBVIOUS
<1> DEFINE b == SumFunctionOnSet(balance, Accounts)
           f == SumFunctionOnSet(FeesHeld, URIs)
           p == SumFunctionOnSet(PricesHeld, Purchases)
<1>5. Held' = (b + x) + (f + y) + (p + z)
  BY <1>3
<1>6. Held = b + f + p
  BY Zenon DEF Held
<1>7. b \in Int /\ f \in Int /\ p \in Int
  BY <1>2
<1> HIDE DEF b, f, p
<1>8. (b + x) + (f + y) + (p + z) = b + f + p
  BY <1>7
<1> QED
  BY <1>5, <1>6, <1>8

(* The publishing fee goes to escrow.                                      *)
LEMMA SubmitHeld ==
    ASSUME Inv, IntBalances, NEW author \in Authors, NEW u \in URIs, NEW co \in CoAuthorMaps,
           NEW price \in Prices, NEW keys \in KeyPartSets, NEW fee \in Fees,
           NEW life \in Lifetimes, Submit(author, u, co, price, keys, fee, life)
    PROVE  IntBalances' /\ Held' = Held
<1> DEFINE new == content'[u]
<1>1. [s \in keys |-> seeder[s].price] \in [keys -> SeederPrices]
  BY TradingAssumption DEF Inv, ObjectsOK, Submit, SeederObjects
<1>2. /\ content' = [content EXCEPT ![u] = new]
      /\ new \in ContentObjects
      /\ new.publishing_fee_escrow = fee
  BY <1>1, TradingAssumption DEF Inv, ObjectsOK, Submit, ContentObjects
<1> HIDE DEF new
<1>3. fee \in Int /\ author \in Accounts /\ -fee \in Int
  BY TradingAssumption
<1>4. balance' = [balance EXCEPT ![author] = @ + (-fee)]
  BY <1>3 DEF Submit, IntBalances
<1>5. /\ IntBalances'
      /\ SumFunctionOnSet(balance', Accounts) = SumFunctionOnSet(balance, Accounts) + (-fee)
  BY <1>3, <1>4, BalanceChange
<1>6. FeesHeld[u] = 0
  BY DEF FeesHeld, Submit
<1>7. SumFunctionOnSet(FeesHeld', URIs) = SumFunctionOnSet(FeesHeld, URIs) + fee
  <2>1. SumFunctionOnSet(FeesHeld', URIs) = SumFunctionOnSet(FeesHeld, URIs) + (fee - 0)
    BY <1>2, <1>6, FeeChange
  <2> QED
    BY <1>3, <2>1
<1>8. PricesHeld' = PricesHeld /\ SumFunctionOnSet(PricesHeld, Purchases) \in Int
  BY SameHeld, HeldInts, SumType DEF Submit
<1>9. SumFunctionOnSet(PricesHeld', Purchases) = SumFunctionOnSet(PricesHeld, Purchases) + 0
  BY <1>8
<1> QED
  BY <1>3, <1>5, <1>7, <1>9, HeldChange

(* What a content holds stays with it when its escrow does.                *)
LEMMA SameFee ==
    ASSUME Inv, NEW u \in URIs, IsContent(u), NEW c \in ContentObjects,
           c.publishing_fee_escrow = content[u].publishing_fee_escrow,
           content' = [content EXCEPT ![u] = c]
    PROVE  SumFunctionOnSet(FeesHeld', URIs) = SumFunctionOnSet(FeesHeld, URIs) + 0
<1>1. FeesHeld[u] = content[u].publishing_fee_escrow /\ content[u].publishing_fee_escrow \in Int
  BY DEF FeesHeld, Inv, ObjectsOK, IsContent, ContentObjects
<1>2. c.publishing_fee_escrow - FeesHeld[u] = 0
  BY <1>1
<1> QED
  BY <1>2, FeeChange

(* What does not change.                                                   *)
LEMMA SameSums ==
    ASSUME Inv, IntBalances
    PROVE  /\ UNCHANGED balance => IntBalances'
                /\ SumFunctionOnSet(balance', Accounts) = SumFunctionOnSet(balance, Accounts) + 0
           /\ UNCHANGED content =>
                SumFunctionOnSet(FeesHeld', URIs) = SumFunctionOnSet(FeesHeld, URIs) + 0
           /\ UNCHANGED buying =>
                SumFunctionOnSet(PricesHeld', Purchases) = SumFunctionOnSet(PricesHeld, Purchases) + 0
<1>1. IntValued(balance, Accounts)
  BY DEF IntBalances, IntValued
<1>2. /\ SumFunctionOnSet(balance, Accounts) \in Int
      /\ SumFunctionOnSet(FeesHeld, URIs) \in Int
      /\ SumFunctionOnSet(PricesHeld, Purchases) \in Int
  BY <1>1, HeldInts, SumType
<1>3. UNCHANGED balance => SumFunctionOnSet(balance', Accounts) = SumFunctionOnSet(balance, Accounts)
  OBVIOUS
<1>4. UNCHANGED content => SumFunctionOnSet(FeesHeld', URIs) = SumFunctionOnSet(FeesHeld, URIs)
  BY SameHeld
<1>5. UNCHANGED buying =>
        SumFunctionOnSet(PricesHeld', Purchases) = SumFunctionOnSet(PricesHeld, Purchases)
  BY SameHeld
<1>6. UNCHANGED balance => IntBalances'
  BY DEF IntBalances
<1> QED
  BY <1>2, <1>3, <1>4, <1>5, <1>6

(* Neither a resubmission nor a cancellation moves money.                  *)
LEMMA ResubmitHeld ==
    ASSUME Inv, IntBalances, NEW u \in URIs, NEW co \in CoAuthorMaps, NEW price \in Prices,
           Resubmit(u, co, price)
    PROVE  IntBalances' /\ Held' = Held
<1> DEFINE c == [content[u] EXCEPT !.co_authors = co, !.price = price]
<1>1. IsContent(u) /\ content' = [content EXCEPT ![u] = c] /\ UNCHANGED <<balance, buying>>
  BY DEF Resubmit
<1>2. content[u] \in ContentObjects
  BY <1>1, ContentOK
<1>3. c \in ContentObjects /\ c.publishing_fee_escrow = content[u].publishing_fee_escrow
  BY <1>2 DEF ContentObjects
<1> HIDE DEF c
<1>4. SumFunctionOnSet(FeesHeld', URIs) = SumFunctionOnSet(FeesHeld, URIs) + 0
  BY <1>1, <1>3, SameFee
<1>5. 0 \in Int /\ 0 + 0 + 0 = 0
  OBVIOUS
<1> QED
  BY <1>1, <1>4, <1>5, SameSums, HeldChange

(* A cancellation moves no money either; the escrow stays for the seeders. *)
LEMMA CancelHeld ==
    ASSUME Inv, IntBalances, NEW u \in URIs, Cancel(u)
    PROVE  IntBalances' /\ Held' = Held
<1> DEFINE e == Lesser(content[u].expiration, now + Day)
           c == [content[u] EXCEPT !.is_blocked = TRUE, !.expiration = e]
<1>1. IsContent(u) /\ content' = [content EXCEPT ![u] = c] /\ UNCHANGED <<balance, buying>>
  BY DEF Cancel
<1>2. content[u] \in ContentObjects
  BY <1>1, ContentOK
<1>3. e \in Nat
  BY <1>2, TradingAssumption DEF Inv, ObjectsOK, ContentObjects, Lesser
<1> HIDE DEF e
<1>4. c \in ContentObjects /\ c.publishing_fee_escrow = content[u].publishing_fee_escrow
  BY <1>2, <1>3 DEF ContentObjects
<1> HIDE DEF c
<1>5. SumFunctionOnSet(FeesHeld', URIs) = SumFunctionOnSet(FeesHeld, URIs) + 0
  BY <1>1, <1>4, SameFee
<1>6. 0 \in Int /\ 0 + 0 + 0 = 0
  OBVIOUS
<1> QED
  BY <1>1, <1>5, <1>6, SameSums, HeldChange

(* The price of a purchase goes to escrow, or to the authors at once.      *)
LEMMA BuyHeld ==
    ASSUME Inv, IntBalances, NEW consumer \in Consumers, NEW u \in URIs, NEW price \in Prices,
           Buy(consumer, u, price)
    PROVE  IntBalances' /\ Held' = Held
<1> DEFINE p == <<consumer, u>>
           c == content[u]
           paid == IF consumer \in Subscribers THEN 0 ELSE price
           simple == c.key_parts = {}
           debited == [balance EXCEPT ![consumer] = @ - paid]
           b == [price |-> IF simple THEN 0 ELSE paid, paid_price |-> paid,
                 expiration_time |-> now + Day, seeders_answered |-> {},
                 delivered |-> simple, expired |-> FALSE, rated |-> FALSE]
<1>1. /\ IsContent(u) /\ ~IsBuying(p) /\ p \in Purchases
      /\ buying' = [buying EXCEPT ![p] = b]
      /\ balance' = IF simple THEN Payout(debited, paid, c) ELSE debited
      /\ content' = IF simple THEN [content EXCEPT ![u] = Sold(u)] ELSE content
  BY DEF Buy, Purchases
<1>2. paid \in Nat /\ now + Day \in Nat /\ consumer \in Accounts
  BY TradingAssumption DEF Inv, ObjectsOK
<1>3. b \in BuyingObjects /\ b.price = IF simple THEN 0 ELSE paid
  BY <1>2 DEF BuyingObjects
<1>4. PricesHeld[p] = 0
  BY <1>1 DEF PricesHeld
<1>5. /\ debited \in [Accounts -> Int]
      /\ SumFunctionOnSet(debited, Accounts) = SumFunctionOnSet(balance, Accounts) + (-paid)
  <2>1. IsFiniteSet(Accounts) /\ IntValued(balance, Accounts)
    BY TradingAssumption DEF IntBalances, IntValued
  <2>2. /\ debited[consumer] = balance[consumer] - paid
        /\ \A a \in Accounts : a # consumer => debited[a] = balance[a]
        /\ debited \in [Accounts -> Int] /\ balance[consumer] \in Int
    BY <1>2 DEF IntBalances
  <2> HIDE DEF debited, paid
  <2>3. debited[consumer] \in Int
    BY <1>2, <2>2
  <2>4. SumFunctionOnSet(debited, Accounts) =
          SumFunctionOnSet(balance, Accounts) + (debited[consumer] - balance[consumer])
    BY <1>2, <2>1, <2>2, <2>3, SumUpdate
  <2>5. debited[consumer] - balance[consumer] = -paid
    BY <1>2, <2>2
  <2> QED
    BY <2>2, <2>4, <2>5
<1>6. c \in ContentObjects
  BY <1>1, ContentOK
<1>7. SumFunctionOnSet(balance, Accounts) \in Int
  BY TradingAssumption, SumType DEF IntBalances, IntValued
<1> HIDE DEF p, b, debited, paid
<1>8. SumFunctionOnSet(PricesHeld', Purchases) =
        SumFunctionOnSet(PricesHeld, Purchases) + (b.price - 0)
  BY <1>1, <1>3, <1>4, PriceChange
<1>9. CASE simple
  <2>1. balance' = Payout(debited, paid, c)
    BY <1>1, <1>9
  <2>2. /\ Payout(debited, paid, c) \in [Accounts -> Int]
        /\ SumFunctionOnSet(Payout(debited, paid, c), Accounts) =
             SumFunctionOnSet(debited, Accounts) + paid
    BY <1>2, <1>5, <1>6, PayoutSum
  <2>3. IntBalances' /\ SumFunctionOnSet(balance', Accounts) = SumFunctionOnSet(balance, Accounts) + 0
    <3>1. SumFunctionOnSet(balance', Accounts) = (SumFunctionOnSet(balance, Accounts) + (-paid)) + paid
      BY <1>5, <2>1, <2>2
    <3> QED
      BY <1>2, <1>7, <2>1, <2>2, <3>1 DEF IntBalances
  <2>4. Sold(u) \in ContentObjects /\ Sold(u).publishing_fee_escrow = content[u].publishing_fee_escrow
    BY <1>6 DEF Sold, ContentObjects
  <2>5. SumFunctionOnSet(FeesHeld', URIs) = SumFunctionOnSet(FeesHeld, URIs) + 0
    BY <1>1, <1>9, <2>4, SameFee
  <2>6. b.price - 0 = 0 /\ 0 \in Int /\ 0 + 0 + 0 = 0
    BY <1>3, <1>9
  <2> QED
    BY <1>8, <2>3, <2>5, <2>6, HeldChange
<1>10. CASE ~simple
  <2>1. balance' = debited /\ content' = content
    BY <1>1, <1>10
  <2>2. IntBalances' /\ SumFunctionOnSet(balance', Accounts) = SumFunctionOnSet(balance, Accounts) + (-paid)
    BY <1>5, <2>1 DEF IntBalances
  <2>3. SumFunctionOnSet(FeesHeld', URIs) = SumFunctionOnSet(FeesHeld, URIs) + 0
    BY <2>1, SameSums
  <2>4. /\ b.price - 0 = paid /\ paid \in Int /\ -paid \in Int /\ 0 \in Int
        /\ (-paid) + 0 + paid = 0
    BY <1>2, <1>3, <1>10
  <2> QED
    BY <1>8, <2>2, <2>3, <2>4, HeldChange
<1> QED
  BY <1>9, <1>10

(* Keys settle a purchase: its whole price goes to the authors or back.    *)
LEMMA DeliverKeysHeld ==
    ASSUME Inv, IntBalances, NEW s \in Seeders, NEW p \in Purchases, DeliverKeys(s, p)
    PROVE  IntBalances' /\ Held' = Held
<1> DEFINE b == buying[p]
           u == p[2]
           noted == [b EXCEPT !.seeders_answered = Answered(p, s)]
           paid == [noted EXCEPT !.price = 0, !.delivered = TRUE]
           closed == [noted EXCEPT !.price = 0, !.expired = TRUE]
<1>1. IsBuying(p) /\ u \in URIs /\ IsContent(u) /\ p[1] \in Accounts
  BY TradingAssumption DEF DeliverKeys, Inv, PurchasesOfContent, Purchases
<1>2. BuyingOK(b)
  BY <1>1 DEF Inv, ObjectsOK, SettledOnce, IsBuying, BuyingOK
<1>3. /\ noted \in BuyingObjects /\ noted.price = b.price
      /\ paid \in BuyingObjects /\ paid.price = 0
      /\ closed \in BuyingObjects /\ closed.price = 0
  BY <1>2 DEF BuyingOK, BuyingObjects, Answered
<1>4. PricesHeld[p] = b.price /\ b.price \in Nat /\ b.paid_price \in Nat
  BY <1>1, <1>2 DEF PricesHeld, BuyingOK, BuyingObjects
<1>5. content[u] \in ContentObjects
  BY <1>1, ContentOK
<1>6. \/ buying' = [buying EXCEPT ![p] = noted] /\ UNCHANGED <<balance, content>>
      \/ /\ StillOpen(p) /\ buying' = [buying EXCEPT ![p] = closed] /\ UNCHANGED content
         /\ balance' = [balance EXCEPT ![p[1]] = @ + b.price]
      \/ /\ StillOpen(p) /\ buying' = [buying EXCEPT ![p] = paid]
         /\ content' = [content EXCEPT ![u] = Sold(u)]
         /\ balance' = Payout(balance, b.paid_price, content[u])
  BY DEF DeliverKeys
<1>7. StillOpen(p) => b.paid_price = b.price
  BY <1>2 DEF StillOpen, BuyingOK
<1> HIDE DEF b, u, noted, paid, closed
<1>8. CASE buying' = [buying EXCEPT ![p] = noted] /\ UNCHANGED <<balance, content>>
  <2>1. SumFunctionOnSet(PricesHeld', Purchases) =
          SumFunctionOnSet(PricesHeld, Purchases) + (noted.price - PricesHeld[p])
    BY <1>3, <1>8, PriceChange
  <2>2. noted.price - PricesHeld[p] = 0 /\ 0 \in Int /\ 0 + 0 + 0 = 0
    BY <1>3, <1>4
  <2> QED
    BY <1>8, <2>1, <2>2, SameSums, HeldChange
<1>9. CASE /\ buying' = [buying EXCEPT ![p] = closed] /\ UNCHANGED content
           /\ balance' = [balance EXCEPT ![p[1]] = @ + b.price]
  <2>1. SumFunctionOnSet(PricesHeld', Purchases) =
          SumFunctionOnSet(PricesHeld, Purchases) + (closed.price - PricesHeld[p])
    BY <1>3, <1>9, PriceChange
  <2>2. /\ IntBalances'
        /\ SumFunctionOnSet(balance', Accounts) = SumFunctionOnSet(balance, Accounts) + b.price
    <3> DEFINE a == p[1]
               n == b.price
    <3>1. a \in Accounts /\ n \in Int
      BY <1>1, <1>4
    <3>2. balance' = [balance EXCEPT ![a] = @ + n]
      BY <1>9
    <3> HIDE DEF a, n
    <3>3. IntBalances' /\ SumFunctionOnSet(balance', Accounts) = SumFunctionOnSet(balance, Accounts) + n
      BY <3>1, <3>2, BalanceChange
    <3> QED
      BY <3>3 DEF n
  <2>3. /\ closed.price - PricesHeld[p] = -b.price /\ -b.price \in Int /\ b.price \in Int /\ 0 \in Int
        /\ b.price + 0 + (-b.price) = 0
    BY <1>3, <1>4
  <2> QED
    BY <1>9, <2>1, <2>2, <2>3, SameSums, HeldChange
<1>10. CASE /\ StillOpen(p) /\ buying' = [buying EXCEPT ![p] = paid]
            /\ content' = [content EXCEPT ![u] = Sold(u)]
            /\ balance' = Payout(balance, b.paid_price, content[u])
  <2>1. SumFunctionOnSet(PricesHeld', Purchases) =
          SumFunctionOnSet(PricesHeld, Purchases) + (paid.price - PricesHeld[p])
    BY <1>3, <1>10, PriceChange
  <2>2. /\ Payout(balance, b.paid_price, content[u]) \in [Accounts -> Int]
        /\ SumFunctionOnSet(Payout(balance, b.paid_price, content[u]), Accounts) =
             SumFunctionOnSet(balance, Accounts) + b.paid_price
    BY <1>4, <1>5, PayoutSum DEF IntBalances
  <2>3. /\ IntBalances'
        /\ SumFunctionOnSet(balance', Accounts) = SumFunctionOnSet(balance, Accounts) + b.price
    BY <1>7, <1>10, <2>2 DEF IntBalances
  <2>4. Sold(u) \in ContentObjects /\ Sold(u).publishing_fee_escrow = content[u].publishing_fee_escrow
    BY <1>5 DEF Sold, ContentObjects
  <2>5. SumFunctionOnSet(FeesHeld', URIs) = SumFunctionOnSet(FeesHeld, URIs) + 0
    BY <1>1, <1>10, <2>4, SameFee
  <2>6. /\ paid.price - PricesHeld[p] = -b.price /\ -b.price \in Int /\ b.price \in Int /\ 0 \in Int
        /\ b.price + 0 + (-b.price) = 0
    BY <1>3, <1>4
  <2> QED
    BY <2>1, <2>3, <2>5, <2>6, HeldChange
<1> QED
  BY <1>6, <1>8, <1>9, <1>10

(* A proof is paid out of the content's escrow.                            *)
LEMMA ProofOfCustodyHeld ==
    ASSUME Inv, IntBalances, NEW s \in Seeders, NEW u \in URIs, ProofOfCustody(s, u)
    PROVE  IntBalances' /\ Held' = Held
<1> DEFINE c == content[u]
           proved == Proved(c, s)
           n == Reward(c, s)
           paid == [proved EXCEPT !.publishing_fee_escrow = @ - n]
<1>1. /\ IsContent(u) /\ c \in ContentObjects /\ c.publishing_fee_escrow >= 0
      /\ now \in Nat /\ s \in Accounts
  BY ContentOK, TradingAssumption DEF ProofOfCustody, Inv, ObjectsOK
<1>2. /\ proved \in ContentObjects
      /\ proved.publishing_fee_escrow = c.publishing_fee_escrow
  BY <1>1 DEF Proved, ContentObjects
<1>3. /\ UNCHANGED buying
      /\ \/ content' = [content EXCEPT ![u] = proved] /\ UNCHANGED balance
         \/ /\ c.last_proof[s] # None /\ s \in DOMAIN c.seeder_price
            /\ content' = [content EXCEPT ![u] = paid]
            /\ balance' = [balance EXCEPT ![s] = @ + n]
  BY DEF ProofOfCustody
<1>4. CASE content' = [content EXCEPT ![u] = proved] /\ UNCHANGED balance
  <2> HIDE DEF proved
  <2>1. SumFunctionOnSet(FeesHeld', URIs) = SumFunctionOnSet(FeesHeld, URIs) + 0
    BY <1>1, <1>2, <1>4, SameFee
  <2>2. 0 \in Int /\ 0 + 0 + 0 = 0
    OBVIOUS
  <2> QED
    BY <1>3, <1>4, <2>1, <2>2, SameSums, HeldChange
<1>5. CASE /\ c.last_proof[s] # None /\ s \in DOMAIN c.seeder_price
           /\ content' = [content EXCEPT ![u] = paid]
           /\ balance' = [balance EXCEPT ![s] = @ + n]
  <2>1. n \in Int
    BY <1>1, <1>5, RewardBounded
  <2> HIDE DEF proved, n
  <2>2. /\ paid \in ContentObjects
        /\ paid.publishing_fee_escrow = c.publishing_fee_escrow - n
        /\ c.publishing_fee_escrow \in Int
    BY <1>1, <1>2, <2>1 DEF ContentObjects
  <2>3. FeesHeld[u] = c.publishing_fee_escrow
    BY <1>1 DEF FeesHeld
  <2> HIDE DEF paid, c
  <2>4. SumFunctionOnSet(FeesHeld', URIs) =
          SumFunctionOnSet(FeesHeld, URIs) + (paid.publishing_fee_escrow - FeesHeld[u])
    BY <1>5, <2>2, FeeChange
  <2>5. /\ paid.publishing_fee_escrow - FeesHeld[u] = -n /\ -n \in Int /\ 0 \in Int
        /\ n + (-n) + 0 = 0
    BY <2>1, <2>2, <2>3
  <2>6. IntBalances' /\ SumFunctionOnSet(balance', Accounts) = SumFunctionOnSet(balance, Accounts) + n
    BY <1>1, <1>5, <2>1, BalanceChange
  <2> QED
    BY <1>3, <2>1, <2>4, <2>5, <2>6, SameSums, HeldChange
<1> QED
  BY <1>3, <1>4, <1>5

(* Ratings cost nothing.                                                   *)
LEMMA LeaveRatingHeld ==
    ASSUME Inv, IntBalances, NEW p \in Purchases, NEW r \in Ratings, LeaveRating(p, r)
    PROVE  IntBalances' /\ Held' = Held
<1> DEFINE u == p[2]
           n == content[u].num_of_ratings + 1
           avg == (content[u].AVG_rating * content[u].num_of_ratings + r * 1000)
                    \div (content[u].num_of_ratings + 1)
           c == [content[u] EXCEPT !.num_of_ratings = n, !.AVG_rating = avg]
           b == [buying[p] EXCEPT !.rated = TRUE]
<1>0. /\ buying' = [buying EXCEPT ![p] = b]
      /\ content' = [content EXCEPT ![u] = c]
      /\ IsBuying(p) /\ UNCHANGED balance
  BY DEF LeaveRating
<1>1. u \in URIs /\ IsContent(u)
  BY <1>0 DEF Inv, PurchasesOfContent, Purchases
<1>2. content[u] \in ContentObjects
  BY <1>1, ContentOK
<1>3. n \in Nat /\ avg \in Int
  <2>1. content[u].AVG_rating \in Int /\ content[u].num_of_ratings \in Nat /\ r \in Nat
    BY <1>2, TradingAssumption DEF ContentObjects
  <2> QED
    BY <2>1
<1> HIDE DEF avg, n
<1>4. c \in ContentObjects /\ c.publishing_fee_escrow = content[u].publishing_fee_escrow
  BY <1>2, <1>3, RatedOK
<1>5. /\ b \in BuyingObjects /\ b.price = buying[p].price /\ buying[p].price \in Int
      /\ PricesHeld[p] = buying[p].price
  <2>1. buying[p] \in BuyingObjects
    BY <1>0 DEF Inv, ObjectsOK, IsBuying
  <2>2. PricesHeld[p] = buying[p].price
    BY <1>0 DEF PricesHeld
  <2>3. b \in BuyingObjects /\ b.price = buying[p].price
    BY <2>1 DEF BuyingObjects
  <2>4. buying[p].price \in Int
    BY <2>1 DEF BuyingObjects
  <2> QED
    BY <2>2, <2>3, <2>4
<1> HIDE DEF c, b, u
<1>6. SumFunctionOnSet(FeesHeld', URIs) = SumFunctionOnSet(FeesHeld, URIs) + 0
  BY <1>0, <1>1, <1>4, SameFee
<1>7. SumFunctionOnSet(PricesHeld', Purchases) =
        SumFunctionOnSet(PricesHeld, Purchases) + (b.price - PricesHeld[p])
  BY <1>0, <1>5, PriceChange
<1>8. b.price - PricesHeld[p] = 0 /\ 0 \in Int /\ 0 + 0 + 0 = 0
  BY <1>5
<1> QED
  BY <1>0, <1>6, <1>7, <1>8, SameSums, HeldChange

(* Housekeeping returns to their owners what it takes out of escrow.       *)
LEMMA HousekeepingHeld ==
    ASSUME Inv, IntBalances, NEW t \in Nat, Housekeeping(t)
    PROVE  IntBalances' /\ Held' = Held
<1> DEFINE D == DueContent(t)
           E == DueBuying(t)
           fee == [u \in D |-> content[u].publishing_fee_escrow]
           author == [u \in D |-> content[u].author]
           price == [p \in E |-> buying[p].price]
           buyer == [p \in E |-> p[1]]
           fees(a) == SumFunctionOnSet(OwnedBy(fee, author, D, a), D)
           prices(a) == SumFunctionOnSet(OwnedBy(price, buyer, E, a), E)
           F == [a \in Accounts |-> fees(a)]
           P == [a \in Accounts |-> prices(a)]
           back == [a \in Accounts |-> F[a] + P[a]]
           after == [a \in Accounts |-> balance[a] + back[a]]
           dueFees == [u \in URIs |-> IF u \in D THEN fee[u] ELSE 0]
           duePrices == [p \in Purchases |-> IF p \in E THEN price[p] ELSE 0]
<1>1. D \in SUBSET URIs /\ E \in SUBSET Purchases
  BY DEF DueContent, DueBuying
<1>2. IsFiniteSet(D) /\ IsFiniteSet(E)
  BY <1>1, HeldInts, FS_Subset
<1>3. /\ \A u \in D : content[u].author \in Accounts /\ content[u].publishing_fee_escrow \in Int
      /\ \A u \in D : FeesHeld[u] = content[u].publishing_fee_escrow
  <2> SUFFICES ASSUME NEW u \in D
               PROVE  /\ content[u].author \in Accounts /\ content[u].publishing_fee_escrow \in Int
                      /\ FeesHeld[u] = content[u].publishing_fee_escrow
    OBVIOUS
  <2>1. u \in URIs /\ IsContent(u)
    BY DEF DueContent
  <2>2. content[u] \in ContentObjects
    BY <2>1, ContentOK
  <2> QED
    BY <2>1, <2>2, TradingAssumption DEF ContentObjects, FeesHeld
<1>4. /\ \A p \in E : p[1] \in Accounts /\ buying[p].price \in Int
      /\ \A p \in E : PricesHeld[p] = buying[p].price
  <2> SUFFICES ASSUME NEW p \in E
               PROVE  /\ p[1] \in Accounts /\ buying[p].price \in Int
                      /\ PricesHeld[p] = buying[p].price
    OBVIOUS
  <2>1. p \in Purchases /\ IsBuying(p)
    BY DEF DueBuying
  <2>2. buying[p] \in BuyingObjects
    BY <2>1 DEF Inv, ObjectsOK, IsBuying
  <2>3. p[1] \in Consumers
    BY <2>1 DEF Purchases
  <2> QED
    BY <2>1, <2>2, <2>3, TradingAssumption DEF BuyingObjects, PricesHeld
<1>5. /\ IntValued(fee, D) /\ \A u \in D : author[u] \in Accounts
      /\ IntValued(price, E) /\ \A p \in E : buyer[p] \in Accounts
  BY <1>3, <1>4 DEF IntValued
<1>6. \A a \in Accounts : Returned(a, t) = fees(a) + prices(a)
  <2> TAKE a \in Accounts
  <2>1. [u \in D |-> IF content[u].author = a THEN content[u].publishing_fee_escrow ELSE 0]
          = OwnedBy(fee, author, D, a)
    BY DEF OwnedBy
  <2>2. [p \in E |-> IF p[1] = a THEN buying[p].price ELSE 0] = OwnedBy(price, buyer, E, a)
    BY DEF OwnedBy
  <2> QED
    BY <2>1, <2>2, Zenon DEF Returned
<1>7. balance' = after
  BY <1>6 DEF Housekeeping
<1>8. \A a \in Accounts : F[a] = fees(a) /\ P[a] = prices(a)
  OBVIOUS
<1>9. \A a \in Accounts : fees(a) \in Int /\ prices(a) \in Int
  <2> TAKE a \in Accounts
  <2>1. IntValued(OwnedBy(fee, author, D, a), D) /\ IntValued(OwnedBy(price, buyer, E, a), E)
    BY <1>5 DEF IntValued, OwnedBy
  <2> HIDE DEF D, E, fee, author, price, buyer
  <2> QED
    BY <1>2, <2>1, SumType
<1>10. /\ SumFunctionOnSet(F, Accounts) = SumFunctionOnSet(fee, D)
       /\ SumFunctionOnSet(P, Accounts) = SumFunctionOnSet(price, E)
  <2> HIDE DEF D, E, fee, author, price, buyer, F, P
  <2>1. IsFiniteSet(Accounts)
    BY HeldInts
  <2>2. SumFunctionOnSet(F, Accounts) = SumFunctionOnSet(fee, D)
    BY <1>2, <1>5, <1>8, <2>1, SumByOwner
  <2>3. SumFunctionOnSet(P, Accounts) = SumFunctionOnSet(price, E)
    BY <1>2, <1>5, <1>8, <2>1, SumByOwner
  <2> QED
    BY <2>2, <2>3
<1>11. /\ SumFunctionOnSet(dueFees, URIs) = SumFunctionOnSet(fee, D)
       /\ SumFunctionOnSet(duePrices, Purchases) = SumFunctionOnSet(price, E)
  <2>1. /\ \A u \in URIs : dueFees[u] = IF u \in D THEN fee[u] ELSE 0
        /\ \A p \in Purchases : duePrices[p] = IF p \in E THEN price[p] ELSE 0
    OBVIOUS
  <2> HIDE DEF D, E, fee, price, dueFees, duePrices
  <2> QED
    BY <1>1, <1>5, <2>1, HeldInts, SumFilter
<1>12. /\ SumFunctionOnSet(FeesHeld, URIs) =
            SumFunctionOnSet(FeesHeld', URIs) + SumFunctionOnSet(dueFees, URIs)
       /\ SumFunctionOnSet(FeesHeld', URIs) \in Int
       /\ SumFunctionOnSet(dueFees, URIs) \in Int
  <2> DEFINE later == FeesHeld'
  <2>1. \A u \in URIs : /\ later[u] = IF u \in D THEN 0 ELSE FeesHeld[u]
                        /\ dueFees[u] = IF u \in D THEN FeesHeld[u] ELSE 0
    <3> TAKE u \in URIs
    <3>1. CASE u \in D
      <4>1. content'[u] = [content[u] EXCEPT !.publishing_fee_escrow = 0]
        BY <3>1, HousekeepingEffect
      <4>2. IsContent(u)
        BY <3>1 DEF DueContent
      <4>3. content[u] \in ContentObjects
        BY <4>2, ContentOK
      <4>4. [content[u] EXCEPT !.publishing_fee_escrow = 0] \in ContentObjects
            /\ [content[u] EXCEPT !.publishing_fee_escrow = 0].publishing_fee_escrow = 0
        BY <4>3 DEF ContentObjects
      <4>5. content'[u] # None /\ content'[u].publishing_fee_escrow = 0
        BY <4>1, <4>4, NoneAssumption, Zenon
      <4> QED
        BY <3>1, <4>5, <1>3 DEF FeesHeld, IsContent
    <3>2. CASE u \notin D
      BY <3>2, HousekeepingEffect DEF FeesHeld, IsContent
    <3> QED
      BY <3>1, <3>2
  <2>2. \A u \in URIs : FeesHeld[u] \in Int
    BY HeldInts DEF IntValued
  <2> HIDE DEF later, dueFees, D
  <2>3. /\ IntValued(later, URIs) /\ IntValued(dueFees, URIs)
        /\ \A u \in URIs : FeesHeld[u] = later[u] + dueFees[u]
    BY <2>1, <2>2 DEF IntValued
  <2>4. SumFunctionOnSet(FeesHeld, URIs) =
          SumFunctionOnSet(later, URIs) + SumFunctionOnSet(dueFees, URIs)
    BY <2>3, HeldInts, SumPlus
  <2>5. SumFunctionOnSet(later, URIs) \in Int /\ SumFunctionOnSet(dueFees, URIs) \in Int
    BY <2>3, HeldInts, SumType
  <2> QED
    BY <2>4, <2>5 DEF later
<1>13. /\ SumFunctionOnSet(PricesHeld, Purchases) =
            SumFunctionOnSet(PricesHeld', Purchases) + SumFunctionOnSet(duePrices, Purchases)
       /\ SumFunctionOnSet(PricesHeld', Purchases) \in Int
       /\ SumFunctionOnSet(duePrices, Purchases) \in Int
  <2> DEFINE later == PricesHeld'
  <2>1. \A p \in Purchases : /\ later[p] = IF p \in E THEN 0 ELSE PricesHeld[p]
                             /\ duePrices[p] = IF p \in E THEN PricesHeld[p] ELSE 0
    <3> TAKE p \in Purchases
    <3>1. CASE p \in E
      <4>1. buying'[p] = [buying[p] EXCEPT !.price = 0, !.expired = TRUE]
        BY <3>1, HousekeepingEffect
      <4>2. IsBuying(p)
        BY <3>1 DEF DueBuying
      <4>3. buying[p] \in BuyingObjects
        BY <4>2 DEF Inv, ObjectsOK, IsBuying
      <4>4. [buying[p] EXCEPT !.price = 0, !.expired = TRUE] \in BuyingObjects
            /\ [buying[p] EXCEPT !.price = 0, !.expired = TRUE].price = 0
        BY <4>3 DEF BuyingObjects
      <4>5. buying'[p] # None /\ buying'[p].price = 0
        BY <4>1, <4>4, NoneAssumption, Zenon
      <4> QED
        BY <3>1, <4>5, <1>4 DEF PricesHeld, IsBuying
    <3>2. CASE p \notin E
      BY <3>2, HousekeepingEffect DEF PricesHeld, IsBuying
    <3> QED
      BY <3>1, <3>2
  <2>2. \A p \in Purchases : PricesHeld[p] \in Int
    BY HeldInts DEF IntValued
  <2> HIDE DEF later, duePrices, E
  <2>3. /\ IntValued(later, Purchases) /\ IntValued(duePrices, Purchases)
        /\ \A p \in Purchases : PricesHeld[p] = later[p] + duePrices[p]
    BY <2>1, <2>2 DEF IntValued
  <2>4. SumFunctionOnSet(PricesHeld, Purchases) =
          SumFunctionOnSet(later, Purchases) + SumFunctionOnSet(duePrices, Purchases)
    BY <2>3, HeldInts, SumPlus
  <2>5. SumFunctionOnSet(later, Purchases) \in Int /\ SumFunctionOnSet(duePrices, Purchases) \in Int
    BY <2>3, HeldInts, SumType
  <2> QED
    BY <2>4, <2>5 DEF later
<1>14. /\ SumFunctionOnSet(after, Accounts) =
            SumFunctionOnSet(balance, Accounts)
              + (SumFunctionOnSet(F, Accounts) + SumFunctionOnSet(P, Accounts))
       /\ SumFunctionOnSet(balance, Accounts) \in Int
       /\ after \in [Accounts -> Int]
  <2>1. \A a \in Accounts : back[a] = F[a] + P[a] /\ after[a] = balance[a] + back[a]
    OBVIOUS
  <2>2. after = [a \in Accounts |-> after[a]]
    OBVIOUS
  <2> HIDE DEF F, P, back, after, fees, prices
  <2>3. IntValued(F, Accounts) /\ IntValued(P, Accounts) /\ IntValued(balance, Accounts)
    BY <1>8, <1>9 DEF IntValued, IntBalances
  <2>4. IntValued(back, Accounts)
    BY <2>1, <2>3 DEF IntValued
  <2>5. SumFunctionOnSet(back, Accounts) = SumFunctionOnSet(F, Accounts) + SumFunctionOnSet(P, Accounts)
    BY <2>1, <2>3, HeldInts, SumPlus
  <2>6. SumFunctionOnSet(after, Accounts) = SumFunctionOnSet(balance, Accounts) + SumFunctionOnSet(back, Accounts)
    BY <2>1, <2>3, <2>4, HeldInts, SumPlus
  <2>7. SumFunctionOnSet(balance, Accounts) \in Int
    BY <2>3, HeldInts, SumType
  <2>8. \A a \in Accounts : after[a] \in Int
    BY <2>1, <2>3, <2>4 DEF IntValued
  <2>9. after \in [Accounts -> Int]
    BY <2>2, <2>8
  <2> QED
    BY <2>5, <2>6, <2>7, <2>9
<1> HIDE DEF D, E, fee, price, F, P, after, dueFees, duePrices
<1>15. \A b, f, p, x, y \in Int : (b + (x + y)) + f + p = b + (f + x) + (p + y)
  OBVIOUS
<1>16. Held' = SumFunctionOnSet(balance', Accounts) + SumFunctionOnSet(FeesHeld', URIs)
                 + SumFunctionOnSet(PricesHeld', Purchases)
  BY DEF Held
<1>17. Held' = (SumFunctionOnSet(balance, Accounts)
                 + (SumFunctionOnSet(dueFees, URIs) + SumFunctionOnSet(duePrices, Purchases)))
               + SumFunctionOnSet(FeesHeld', URIs) + SumFunctionOnSet(PricesHeld', Purchases)
  BY <1>7, <1>10, <1>11, <1>14, <1>16
<1>18. Held = SumFunctionOnSet(balance, Accounts)
              + (SumFunctionOnSet(FeesHeld', URIs) + SumFunctionOnSet(dueFees, URIs))
              + (SumFunctionOnSet(PricesHeld', Purchases) + SumFunctionOnSet(duePrices, Purchases))
  BY <1>12, <1>13 DEF Held
<1>19. Held' = Held
  BY <1>12, <1>13, <1>14, <1>15, <1>17, <1>18
<1> QED
  BY <1>7, <1>14, <1>19 DEF IntBalances

(* A block moves money in the maintenance only.                            *)
LEMMA BlockHeld ==
    ASSUME Inv, IntBalances, NEW slots \in 1 .. MaxSlots, Block(slots)
    PROVE  IntBalances' /\ Held' = Held
<1> DEFINE t == now + (slots + SkippedSlots) * BlockInterval
<1>1. t \in Nat
  BY BlockTime DEF Inv, ObjectsOK
<1>2. CASE UNCHANGED <<balance, content, buying>>
  BY <1>2, SameHeld DEF Held, IntBalances
<1>3. CASE Housekeeping(t)
  BY <1>1, <1>3, HousekeepingHeld
<1> QED
  BY <1>2, <1>3 DEF Block

(* At the start the accounts hold everything.                              *)
LEMMA InitHeld ==
    ASSUME Init
    PROVE  IntBalances /\ Held = Balance0 * Cardinality(Accounts)
<1>1. IsFiniteSet(Accounts) /\ IsFiniteSet(URIs) /\ IsFiniteSet(Consumers) /\ Balance0 \in Int
  BY TradingAssumption, FS_Subset
<1>2. IsFiniteSet(Purchases)
  BY <1>1, FS_Product DEF Purchases
<1>3. /\ \A a \in Accounts : balance[a] = Balance0
      /\ \A u \in URIs : FeesHeld[u] = 0
      /\ \A p \in Purchases : PricesHeld[p] = 0
  BY DEF Init, FeesHeld, PricesHeld, IsContent, IsBuying
<1>4. SumFunctionOnSet(balance, Accounts) = Balance0 * Cardinality(Accounts)
  BY <1>1, <1>3, SumConst
<1>5. SumFunctionOnSet(FeesHeld, URIs) = 0 /\ SumFunctionOnSet(PricesHeld, Purchases) = 0
  BY <1>1, <1>2, <1>3, SumZero
<1>6. Balance0 * Cardinality(Accounts) \in Int
  BY <1>1, FS_CardinalityType
<1>7. Held = Balance0 * Cardinality(Accounts) + 0 + 0
  BY <1>4, <1>5 DEF Held
<1>8. IntBalances
  BY <1>1 DEF Init, IntBalances
<1> QED
  BY <1>6, <1>7, <1>8

(* No money is made or lost: no operation and no maintenance block changes *)
(* what accounts and escrows hold together.                                *)
THEOREM MoneyConserved == Spec => []Conserved
<1> DEFINE Kept == IntBalances /\ Held = Balance0 * Cardinality(Accounts)
<1>1. Init => Kept
  BY InitHeld
<1>2. Inv /\ Kept /\ [Next]_vars => Kept'
  <2> SUFFICES ASSUME Inv, Kept, [Next]_vars PROVE IntBalances' /\ Held' = Held
    OBVIOUS
  <2>1. CASE UNCHANGED vars
    BY <2>1, SameHeld DEF vars, Held, IntBalances
  <2>2. CASE \E s \in Seeders, space \in Spaces, price \in SeederPrices :
               ReadyToPublish(s, space, price)
    BY <2>2, SameHeld DEF ReadyToPublish, Held, IntBalances
  <2>3. CASE Next /\ ~\E s \in Seeders, space \in Spaces, price \in SeederPrices :
                        ReadyToPublish(s, space, price)
    BY <2>3, SubmitHeld, ResubmitHeld, CancelHeld, BuyHeld, DeliverKeysHeld,
       ProofOfCustodyHeld, LeaveRatingHeld, BlockHeld DEF Next
  <2> QED
    BY <2>1, <2>2, <2>3 DEF Next
<1>3. Kept => Conserved
  BY DEF Conserved, Held
<1> QED
  BY <1>1, <1>2, <1>3, Invariance, PTL DEF Spec

-----------------------------------------------------------------------------
(* Pay for storage, and who is paid.  A proof earns at most the price of   *)
(* the time since the last one, so what the escrow still owes falls with   *)
(* it; the splits give the co-authors no more than there is.               *)

(* What a content's seeders can still earn together, in price times time.  *)
Owed(c) == SumFunctionOnSet([s \in c.key_parts |-> StillOwed(c, s)], c.key_parts)

(* What holds of a content at time n.                                      *)
ContentSound(c, n) ==
    /\ c.created <= n
    /\ DOMAIN c.seeder_price = c.key_parts
    /\ \A s \in Seeders : c.last_proof[s] # None => c.last_proof[s] \in c.created .. n
    /\ SplitsValid(c.author, c.co_authors)
    /\ c.expiration > n => Day * c.publishing_fee_escrow >= Owed(c)

ContentsSound == \A u \in URIs : IsContent(u) => ContentSound(content[u], now)

(* A product is monotonic.                                                 *)
LEMMA TimesMonotone ==
    ASSUME NEW k \in Nat, NEW m \in Int, NEW n \in Int, m <= n
    PROVE  k * m <= k * n /\ k * m \in Int
OBVIOUS

(* A quotient times its divisor is at most the dividend.                   *)
LEMMA QuotientBound ==
    ASSUME NEW m \in Nat, NEW d \in Nat \ {0}
    PROVE  m \div d \in Nat /\ d * (m \div d) <= m
OBVIOUS

(* The reward of a proof pays at most the time since the last proof.       *)
LEMMA RatioBound ==
    ASSUME NEW diff \in Nat
    PROVE  RewardRatio(diff) \in Nat /\ Day * RewardRatio(diff) <= 10000 * diff
<1> DEFINE l == Lesser(diff, Day)
           ratio == (10000 * l) \div Day
           loss == (10000 - ratio) \div 4
<1>1. Day \in Nat \ {0} /\ l \in Nat /\ l <= Day /\ l <= diff
  BY TradingAssumption DEF Lesser
<1> HIDE DEF l
<1>2. ratio \in Nat /\ Day * ratio <= 10000 * l
  BY <1>1, QuotientBound
<1>3. ratio <= 10000
  BY <1>1, <1>2
<1> HIDE DEF ratio
<1>4. loss \in 0 .. 2500
  BY <1>2, <1>3
<1> HIDE DEF loss
<1>5. ratio * (10000 - loss) \in Nat /\ ratio * (10000 - loss) <= ratio * 10000
  <2>1. 10000 - loss \in Nat /\ 10000 - loss <= 10000
    BY <1>4
  <2> QED
    BY <1>2, <2>1
<1>6. RewardRatio(diff) = (ratio * (10000 - loss)) \div 10000
  BY DEF RewardRatio, ratio, loss, l
<1>7. RewardRatio(diff) \in Nat /\ RewardRatio(diff) <= ratio
  BY <1>2, <1>5, <1>6
<1>8. Day * RewardRatio(diff) <= Day * ratio
  BY <1>1, <1>2, <1>7, TimesMonotone
<1> QED
  BY <1>1, <1>2, <1>7, <1>8

(* ... in terms of the reward.                                             *)
LEMMA RewardPays ==
    ASSUME NEW c \in ContentObjects, NEW s \in DOMAIN c.seeder_price, s \in Seeders,
           c.last_proof[s] # None, now \in Nat, c.publishing_fee_escrow >= 0,
           c.last_proof[s] <= now
    PROVE  /\ Reward(c, s) \in Nat /\ c.seeder_price[s] \in Nat
           /\ Day * Reward(c, s) <= c.seeder_price[s] * (now - c.last_proof[s])
<1> DEFINE price == c.seeder_price[s]
           diff == now - c.last_proof[s]
           ratio == RewardRatio(diff)
           full == (price * ratio) \div 10000
<1>1. /\ price \in Nat /\ diff \in Nat /\ Day \in Nat \ {0}
      /\ c.publishing_fee_escrow \in Nat
  BY TradingAssumption DEF ContentObjects
<1> HIDE DEF price, diff
<1>2. ratio \in Nat /\ Day * ratio <= 10000 * diff
  BY <1>1, RatioBound
<1> HIDE DEF ratio
<1>3. full \in Nat /\ 10000 * full <= price * ratio
  BY <1>1, <1>2, QuotientBound
<1> HIDE DEF full
<1>4. Reward(c, s) = Lesser(full, c.publishing_fee_escrow)
  BY DEF Reward, full, ratio, price, diff
<1>5. Reward(c, s) \in Nat /\ Reward(c, s) <= full
  BY <1>1, <1>3, <1>4 DEF Lesser
<1>6. Day * Reward(c, s) <= Day * full
  BY <1>1, <1>3, <1>5, TimesMonotone
<1>7. Day * (10000 * full) <= Day * (price * ratio)
  BY <1>1, <1>2, <1>3, TimesMonotone
<1>8. price * (Day * ratio) <= price * (10000 * diff)
  BY <1>1, <1>2, TimesMonotone
<1>9. Day * full <= price * diff
  <2>1. Day * (price * ratio) = price * (Day * ratio)
    BY <1>1, <1>2
  <2>2. price * (10000 * diff) = 10000 * (price * diff)
    BY <1>1
  <2>3. Day * (10000 * full) = 10000 * (Day * full)
    BY <1>1, <1>3
  <2>4. Day * full \in Int /\ price * diff \in Int
    BY <1>1, <1>3
  <2>5. 10000 * (Day * full) <= 10000 * (price * diff)
    BY <1>1, <1>2, <1>3, <1>7, <1>8, <2>1, <2>2, <2>3
  <2> QED
    BY <2>4, <2>5
<1> QED
  BY <1>1, <1>3, <1>5, <1>6, <1>9 DEF price, diff

(* What a seeder can still earn is an integer.                             *)
LEMMA OwedInts ==
    ASSUME NEW c \in ContentObjects, NEW n \in Nat, ContentSound(c, n)
    PROVE  /\ IsFiniteSet(c.key_parts) /\ c.key_parts \subseteq Seeders
           /\ PaidDays(c) \in Int
           /\ \A s \in c.key_parts : /\ c.seeder_price[s] \in Nat
                                     /\ ProvedUntil(c, s) \in c.created .. n
                                     /\ StillOwed(c, s) \in Int
           /\ IntValued([s \in c.key_parts |-> StillOwed(c, s)], c.key_parts)
           /\ Owed(c) \in Int
<1> DEFINE f == [s \in c.key_parts |-> StillOwed(c, s)]
<1>1. c.key_parts \subseteq Seeders /\ c.key_parts \subseteq Accounts
  BY TradingAssumption DEF ContentObjects
<1>2. IsFiniteSet(c.key_parts)
  BY <1>1, TradingAssumption, FS_Subset
<1>3. PaidDays(c) \in Int /\ c.created \in Nat /\ Day \in Nat
  BY TradingAssumption DEF PaidDays, ContentObjects
<1>4. ASSUME NEW s \in c.key_parts
      PROVE  c.seeder_price[s] \in Nat /\ ProvedUntil(c, s) \in c.created .. n
  <2>1. c.seeder_price[s] \in Nat
    <3>1. PICK keys \in KeyPartSets : c.seeder_price \in [keys -> SeederPrices]
      BY DEF ContentObjects
    <3>2. keys = c.key_parts
      BY <3>1 DEF ContentSound
    <3> QED
      BY <1>4, <3>1, <3>2, TradingAssumption
  <2>2. ProvedUntil(c, s) \in c.created .. n
    BY <1>1, <1>3, <1>4 DEF ContentSound, ProvedUntil
  <2> QED
    BY <2>1, <2>2
<1>5. ASSUME NEW s \in c.key_parts
      PROVE  StillOwed(c, s) \in Int
  <2>1. ProvedUntil(c, s) \in Int /\ c.seeder_price[s] \in Int
    BY <1>3, <1>4
  <2> QED
    BY <1>3, <2>1 DEF StillOwed
<1>6. IntValued(f, c.key_parts)
  BY <1>5 DEF IntValued
<1> HIDE DEF f
<1>7. Owed(c) \in Int
  BY <1>2, <1>6, SumType DEF Owed, f
<1> QED
  BY <1>1, <1>2, <1>3, <1>4, <1>5, <1>6, <1>7 DEF f

(* Time alone changes nothing.                                             *)
LEMMA SoundLater ==
    ASSUME NEW c \in ContentObjects, NEW n \in Nat, NEW m \in Nat, n <= m, ContentSound(c, n)
    PROVE  ContentSound(c, m)
BY DEF ContentSound, ContentObjects

(* Nor do changes to what has no part in it.                               *)
LEMMA SoundSame ==
    ASSUME NEW c, NEW n, ContentSound(c, n), NEW d,
           d.created = c.created, d.key_parts = c.key_parts, d.seeder_price = c.seeder_price,
           d.last_proof = c.last_proof, d.expiration = c.expiration,
           d.publishing_fee_escrow = c.publishing_fee_escrow,
           SplitsValid(d.author, d.co_authors)
    PROVE  ContentSound(d, n)
<1>1. PaidDays(d) = PaidDays(c)
  BY DEF PaidDays
<1>2. \A s : ProvedUntil(d, s) = ProvedUntil(c, s)
  BY DEF ProvedUntil
<1>3. \A s : StillOwed(d, s) = StillOwed(c, s)
  BY <1>1, <1>2 DEF StillOwed
<1>4. Owed(d) = Owed(c)
  BY <1>3, Zenon DEF Owed
<1> QED
  BY <1>4 DEF ContentSound

(* A new content is charged for its seeders' prices over whole days.       *)
LEMMA SubmitSound ==
    ASSUME Inv, NEW author \in Authors, NEW u \in URIs, NEW co \in CoAuthorMaps,
           NEW price \in Prices, NEW keys \in KeyPartSets, NEW fee \in Fees,
           NEW life \in Lifetimes, Submit(author, u, co, price, keys, fee, life)
    PROVE  ContentSound(content'[u], now)
<1> DEFINE c == content'[u]
           f == [s \in keys |-> seeder[s].price]
           g == [s \in keys |-> StillOwed(c, s)]
           days == life \div Day
<1>1. /\ c.created = now /\ c.expiration = now + life /\ c.key_parts = keys
      /\ c.seeder_price = f /\ c.publishing_fee_escrow = fee
      /\ c.last_proof = [s \in Seeders |-> None] /\ c.author = author /\ c.co_authors = co
  BY DEF Submit, Inv, ObjectsOK
<1>2. /\ now \in Nat /\ life \in Nat /\ fee \in Nat /\ Day \in Nat \ {0}
      /\ keys \subseteq Seeders /\ keys \subseteq Accounts
  BY TradingAssumption DEF Inv, ObjectsOK
<1>3. days \in Nat /\ days * PricePerDay(keys) <= fee /\ SplitsValid(author, co)
  BY <1>2, QuotientBound DEF Submit
<1>4. IsFiniteSet(keys)
  BY <1>2, TradingAssumption, FS_Subset
<1>5. \A s \in keys : f[s] \in Nat
  BY <1>2, TradingAssumption DEF Submit, Inv, ObjectsOK, SeederObjects
<1>6. PaidDays(c) = days
  BY <1>1, <1>2 DEF PaidDays
<1>7. \A s \in keys : g[s] = (days * Day) * f[s]
  <2> TAKE s \in keys
  <2>1. ProvedUntil(c, s) = now
    BY <1>1, <1>2 DEF ProvedUntil
  <2>2. g[s] = f[s] * (days * Day - (now - now))
    BY <1>1, <1>6, <2>1 DEF StillOwed
  <2> HIDE DEF f, g, days
  <2>3. f[s] \in Int /\ days * Day \in Int
    BY <1>2, <1>3, <1>5
  <2> QED
    BY <1>2, <2>2, <2>3
<1>8. Owed(c) = SumFunctionOnSet(g, keys)
  BY <1>1 DEF Owed
<1>9. PricePerDay(keys) = SumFunctionOnSet(f, keys)
  BY DEF PricePerDay
<1> HIDE DEF c, f, g, days
<1>10. SumFunctionOnSet(f, keys) \in Int /\ IntValued(f, keys)
  BY <1>4, <1>5, SumType DEF IntValued
<1>11. days * Day \in Int
  BY <1>2, <1>3
<1>12. Owed(c) = (days * Day) * SumFunctionOnSet(f, keys)
  BY <1>4, <1>7, <1>8, <1>10, <1>11, SumScale
<1>13. Day * (days * PricePerDay(keys)) <= Day * fee
  <2>1. days * PricePerDay(keys) \in Int
    BY <1>3, <1>9, <1>10
  <2> QED
    BY <1>2, <1>3, <2>1, TimesMonotone
<1>14. Owed(c) = Day * (days * PricePerDay(keys))
  <2>1. \A x, y, z \in Int : (x * y) * z = y * (x * z)
    OBVIOUS
  <2> QED
    BY <1>2, <1>3, <1>9, <1>10, <1>12, <2>1
<1>15. Owed(c) <= Day * c.publishing_fee_escrow
  BY <1>1, <1>13, <1>14
<1>16. Owed(c) \in Int /\ Day * c.publishing_fee_escrow \in Int
  BY <1>1, <1>2, <1>10, <1>11, <1>12
<1>17. DOMAIN c.seeder_price = c.key_parts
  BY <1>1 DEF f
<1>18. \A s \in Seeders : c.last_proof[s] = None
  BY <1>1
<1>19. c.created <= now /\ SplitsValid(c.author, c.co_authors)
  BY <1>1, <1>2, <1>3
<1>20. ContentSound(c, now)
  BY <1>15, <1>16, <1>17, <1>18, <1>19 DEF ContentSound
<1> QED
  BY <1>20 DEF c

(* Cancellation leaves fewer days to pay for.                              *)
LEMMA CancelSound ==
    ASSUME NEW c \in ContentObjects, NEW n \in Nat, ContentSound(c, n), c.expiration > n,
           NEW e \in Nat, e <= c.expiration
    PROVE  ContentSound([c EXCEPT !.is_blocked = TRUE, !.expiration = e], n)
<1> DEFINE d == [c EXCEPT !.is_blocked = TRUE, !.expiration = e]
           keys == c.key_parts
           f == [s \in keys |-> StillOwed(c, s)]
           g == [s \in keys |-> StillOwed(d, s)]
<1>1. /\ d \in ContentObjects
      /\ d.created = c.created /\ d.key_parts = c.key_parts /\ d.seeder_price = c.seeder_price
      /\ d.last_proof = c.last_proof /\ d.expiration = e
      /\ d.publishing_fee_escrow = c.publishing_fee_escrow
      /\ d.author = c.author /\ d.co_authors = c.co_authors
  BY DEF ContentObjects
<1> HIDE DEF d
<1>2. /\ c.created \in Nat /\ c.expiration \in Nat /\ Day \in Nat \ {0}
      /\ c.publishing_fee_escrow \in Int
  BY TradingAssumption DEF ContentObjects
<1>3. PaidDays(c) \in Int /\ PaidDays(d) \in Int /\ PaidDays(d) <= PaidDays(c)
  <2>1. \A x, y \in Int : x <= y => x \div Day <= y \div Day /\ x \div Day \in Int /\ y \div Day \in Int
    BY <1>2
  <2>2. e - c.created \in Int /\ c.expiration - c.created \in Int
        /\ e - c.created <= c.expiration - c.created
    BY <1>2
  <2> QED
    BY <1>1, <2>1, <2>2 DEF PaidDays
<1>4. \A s : ProvedUntil(d, s) = ProvedUntil(c, s)
  BY <1>1 DEF ProvedUntil
<1>5. ASSUME NEW s \in keys
      PROVE  StillOwed(d, s) <= StillOwed(c, s) /\ StillOwed(d, s) \in Int /\ StillOwed(c, s) \in Int
  <2> DEFINE x == PaidDays(c)
             y == PaidDays(d)
             p == ProvedUntil(c, s)
             k == c.seeder_price[s]
  <2>1. k \in Nat /\ p \in Int
    <3>1. k \in Nat /\ p \in c.created .. n
      BY <1>5, OwedInts
    <3> QED
      BY <1>2, <3>1
  <2>2. StillOwed(c, s) = k * (x * Day - (p - c.created))
    BY DEF StillOwed
  <2>3. StillOwed(d, s) = k * (y * Day - (p - c.created))
    BY <1>1, <1>4 DEF StillOwed
  <2> HIDE DEF x, y, p, k
  <2>4. x \in Int /\ y \in Int /\ y <= x
    BY <1>3 DEF x, y
  <2>5. x * Day \in Int /\ y * Day \in Int /\ y * Day <= x * Day
    BY <1>2, <2>4
  <2>6. /\ x * Day - (p - c.created) \in Int /\ y * Day - (p - c.created) \in Int
        /\ y * Day - (p - c.created) <= x * Day - (p - c.created)
    BY <1>2, <2>1, <2>5
  <2> QED
    BY <2>1, <2>2, <2>3, <2>6, TimesMonotone
<1>6. IntValued(f, keys) /\ IntValued(g, keys) /\ \A s \in keys : g[s] <= f[s]
  BY <1>5 DEF IntValued
<1>7. IsFiniteSet(keys) /\ Owed(c) \in Int
  BY OwedInts
<1>8. Owed(c) = SumFunctionOnSet(f, keys) /\ Owed(d) = SumFunctionOnSet(g, keys)
  BY <1>1 DEF Owed
<1> HIDE DEF f, g
<1>9. Owed(d) <= Owed(c) /\ Owed(d) \in Int
  BY <1>6, <1>7, <1>8, SumMonotone, SumType
<1>10. Day * d.publishing_fee_escrow >= Owed(d)
  <2>1. Day * c.publishing_fee_escrow >= Owed(c) /\ Day * c.publishing_fee_escrow \in Int
    BY <1>2 DEF ContentSound
  <2> QED
    BY <1>1, <1>7, <1>9, <2>1
<1>11. ContentSound(d, n)
  BY <1>1, <1>10 DEF ContentSound
<1> QED
  BY <1>11 DEF d

(* A proof takes out of the escrow at most what it takes off the debt.     *)
LEMMA ProvedSound ==
    ASSUME NEW c \in ContentObjects, now \in Nat, ContentSound(c, now), c.expiration > now,
           NEW s \in Seeders, NEW pay \in Int, c.publishing_fee_escrow >= pay,
           s \in c.key_parts => Day * pay <= c.seeder_price[s] * (now - ProvedUntil(c, s)),
           s \notin c.key_parts => pay = 0,
           NEW d \in ContentObjects,
           d.created = c.created, d.key_parts = c.key_parts, d.seeder_price = c.seeder_price,
           d.last_proof = [c.last_proof EXCEPT ![s] = now], d.expiration = c.expiration,
           d.publishing_fee_escrow = c.publishing_fee_escrow - pay,
           d.author = c.author, d.co_authors = c.co_authors
    PROVE  ContentSound(d, now)
<1> DEFINE keys == c.key_parts
           f == [q \in keys |-> StillOwed(c, q)]
           g == [q \in keys |-> StillOwed(d, q)]
<1>1. /\ d.created = c.created /\ d.key_parts = c.key_parts /\ d.seeder_price = c.seeder_price
      /\ d.last_proof = [c.last_proof EXCEPT ![s] = now] /\ d.expiration = c.expiration
      /\ d.publishing_fee_escrow = c.publishing_fee_escrow - pay
      /\ d.author = c.author /\ d.co_authors = c.co_authors
  OBVIOUS
<1>2. /\ c.created \in Nat /\ c.expiration \in Nat /\ Day \in Nat \ {0}
      /\ c.publishing_fee_escrow \in Int /\ c.last_proof \in [Seeders -> Nat \cup {None}]
  BY TradingAssumption DEF ContentObjects
<1>3. PaidDays(d) = PaidDays(c) /\ PaidDays(c) \in Int
  BY <1>1, OwedInts DEF PaidDays
<1>4. /\ \A q \in keys : q # s => ProvedUntil(d, q) = ProvedUntil(c, q)
      /\ ProvedUntil(d, s) \in {now, d.created}
  <2>1. keys \subseteq Seeders
    BY OwedInts
  <2> QED
    BY <1>1, <1>2, <2>1 DEF ProvedUntil
<1>5. \A q \in keys : q # s => g[q] = f[q]
  BY <1>1, <1>3, <1>4 DEF StillOwed
<1>6. /\ IsFiniteSet(keys) /\ IntValued(f, keys) /\ Owed(c) \in Int
      /\ Owed(c) = SumFunctionOnSet(f, keys) /\ Owed(d) = SumFunctionOnSet(g, keys)
  BY <1>1, OwedInts DEF Owed
<1>7. Owed(d) \in Int /\ Day * pay <= Owed(c) - Owed(d)
  <2>1. CASE s \notin keys
    <3> HIDE DEF f, g
    <3>1. Owed(d) = Owed(c)
      BY <1>5, <1>6, <2>1, SumSame
    <3>2. Day * pay = 0
      BY <1>2, <2>1
    <3> QED
      BY <1>6, <3>1, <3>2
  <2>2. CASE s \in keys
    <3> DEFINE k == c.seeder_price[s]
               until == ProvedUntil(c, s)
               days == PaidDays(c)
    <3>0. now # None /\ s \in Seeders
      BY NoneAssumption
    <3>1. k \in Nat /\ until \in c.created .. now /\ f[s] \in Int
      BY <2>2, OwedInts DEF IntValued
    <3>2. f[s] = k * (days * Day - (until - c.created))
      BY <2>2 DEF StillOwed
    <3>3. g[s] = k * (days * Day - (now - c.created))
      BY <1>1, <1>2, <1>3, <2>2, <3>0 DEF StillOwed, ProvedUntil
    <3> HIDE DEF f, g, k, until, days
    <3>4. days * Day \in Int /\ until \in Int
      BY <1>2, <1>3, <3>1 DEF days
    <3>5. g[s] \in Int /\ f[s] - g[s] = k * (now - until)
      <4> DEFINE x == days * Day
                 w == c.created
      <4>2. /\ x \in Int /\ until \in Int /\ now \in Int /\ w \in Int
            /\ f[s] = k * (x - (until - w)) /\ g[s] = k * (x - (now - w))
        BY <1>2, <3>2, <3>3, <3>4
      <4> HIDE DEF x, w
      <4>3. \A y \in Int, z \in Int : y = k * (x - (until - w)) /\ z = k * (x - (now - w))
                                        => y - z = k * (now - until)
        BY <3>1, <4>2
      <4>4. k * (x - (now - w)) \in Int
        BY <3>1, <4>2
      <4> QED
        BY <3>1, <4>2, <4>3, <4>4
    <3>6. Owed(d) = Owed(c) + (g[s] - f[s])
      BY <1>5, <1>6, <2>2, <3>5, SumUpdate
    <3>7. Day * pay <= k * (now - until)
      BY <2>2 DEF k, until
    <3>8. Day * pay \in Int
      BY <1>2
    <3> QED
      BY <1>6, <3>1, <3>5, <3>6, <3>7, <3>8
  <2> QED
    BY <2>1, <2>2
<1>8. Day * d.publishing_fee_escrow >= Owed(d)
  <2>1. Day * c.publishing_fee_escrow >= Owed(c)
    BY DEF ContentSound
  <2>2. Day * (c.publishing_fee_escrow - pay) = Day * c.publishing_fee_escrow - Day * pay
    BY <1>2
  <2>3. Day * c.publishing_fee_escrow \in Int /\ Day * pay \in Int
    BY <1>2
  <2> QED
    BY <1>1, <1>6, <1>7, <2>1, <2>2, <2>3
<1>9. \A q \in Seeders : d.last_proof[q] # None => d.last_proof[q] \in d.created .. now
  BY <1>1, <1>2 DEF ContentSound
<1> QED
  BY <1>1, <1>8, <1>9 DEF ContentSound

(* What expired has nothing left, and owes nothing more.                   *)
LEMMA ExpiredSound ==
    ASSUME NEW c \in ContentObjects, NEW n \in Nat, NEW m \in Nat, n <= m, ContentSound(c, n),
           c.expiration <= m
    PROVE  ContentSound([c EXCEPT !.publishing_fee_escrow = 0], m)
BY DEF ContentSound, ContentObjects

(* An operation keeps the contents sound when it does for the ones it      *)
(* changes.                                                                *)
LEMMA SoundChange ==
    ASSUME ContentsSound, now' = now,
           \A u \in URIs : content'[u] = content[u] \/ ContentSound(content'[u], now)
    PROVE  ContentsSound'
BY DEF ContentsSound, IsContent

(* The operations and blocks, one by one.                                  *)
LEMMA SoundStep ==
    ASSUME Inv, ContentsSound, Next
    PROVE  ContentsSound'
<1>0. now \in Nat /\ \A u \in URIs : IsContent(u) => content[u] \in ContentObjects
                        /\ content[u].publishing_fee_escrow >= 0 /\ ContentSound(content[u], now)
  BY ContentOK DEF Inv, ObjectsOK, ContentsSound
<1>1. ASSUME NEW s \in Seeders, NEW space \in Spaces, NEW price \in SeederPrices,
             ReadyToPublish(s, space, price)
      PROVE  ContentsSound'
  BY <1>1, SoundChange DEF ReadyToPublish, clock
<1>2. ASSUME NEW a \in Authors, NEW u \in URIs, NEW co \in CoAuthorMaps, NEW price \in Prices,
             NEW keys \in KeyPartSets, NEW fee \in Fees, NEW life \in Lifetimes,
             Submit(a, u, co, price, keys, fee, life)
      PROVE  ContentsSound'
  <2>1. ContentSound(content'[u], now)
    BY <1>2, SubmitSound
  <2>2. now' = now /\ \A v \in URIs : v # u => content'[v] = content[v]
    BY <1>2 DEF Submit, clock, Inv, ObjectsOK
  <2> QED
    BY <2>1, <2>2, SoundChange
<1>3. ASSUME NEW u \in URIs, NEW co \in CoAuthorMaps, NEW price \in Prices, Resubmit(u, co, price)
      PROVE  ContentsSound'
  <2> DEFINE d == [content[u] EXCEPT !.co_authors = co, !.price = price]
  <2>1. /\ now' = now /\ IsContent(u) /\ SplitsValid(content[u].author, co)
        /\ \A v \in URIs : content'[v] = content[v] \/ content'[v] = d
    BY <1>3 DEF Resubmit, clock, Inv, ObjectsOK
  <2>2. content[u] \in ContentObjects /\ ContentSound(content[u], now)
    BY <1>0, <2>1
  <2>3. ContentSound(d, now)
    BY <2>1, <2>2, SoundSame DEF ContentObjects
  <2> QED
    BY <2>1, <2>3, SoundChange
<1>4. ASSUME NEW u \in URIs, Cancel(u)
      PROVE  ContentsSound'
  <2> DEFINE e == Lesser(content[u].expiration, now + Day)
             d == [content[u] EXCEPT !.is_blocked = TRUE, !.expiration = e]
  <2>1. /\ now' = now /\ IsContent(u) /\ content[u].expiration > now
        /\ \A v \in URIs : content'[v] = content[v] \/ content'[v] = d
    BY <1>4 DEF Cancel, clock, Inv, ObjectsOK
  <2>2. content[u] \in ContentObjects /\ ContentSound(content[u], now)
    BY <1>0, <2>1
  <2>3. e \in Nat /\ e <= content[u].expiration
    BY <1>0, <2>2, TradingAssumption DEF Lesser, ContentObjects
  <2> HIDE DEF e
  <2>4. ContentSound(d, now)
    BY <1>0, <2>1, <2>2, <2>3, CancelSound
  <2> QED
    BY <2>1, <2>4, SoundChange
<1>5. ASSUME NEW u \in URIs, IsContent(u)
      PROVE  ContentSound(Sold(u), now)
  <2>1. content[u] \in ContentObjects /\ ContentSound(content[u], now)
    BY <1>0, <1>5
  <2>2. SplitsValid(content[u].author, content[u].co_authors)
    BY <2>1 DEF ContentSound
  <2> QED
    BY <2>1, <2>2, SoundSame DEF Sold, ContentObjects
<1>6. ASSUME NEW c \in Consumers, NEW u \in URIs, NEW price \in Prices, Buy(c, u, price)
      PROVE  ContentsSound'
  <2>1. /\ now' = now /\ IsContent(u)
        /\ \A v \in URIs : content'[v] = content[v] \/ content'[v] = Sold(u)
    BY <1>6 DEF Buy, clock, Inv, ObjectsOK
  <2> QED
    BY <1>5, <2>1, SoundChange
<1>7. ASSUME NEW s \in Seeders, NEW p \in Purchases, DeliverKeys(s, p)
      PROVE  ContentsSound'
  <2> DEFINE u == p[2]
  <2>1. u \in URIs /\ IsContent(u)
    BY <1>7 DEF DeliverKeys, Inv, PurchasesOfContent, Purchases
  <2>2. now' = now /\ \A v \in URIs : content'[v] = content[v] \/ content'[v] = Sold(u)
    BY <1>7 DEF DeliverKeys, clock, Inv, ObjectsOK
  <2> QED
    BY <1>5, <2>1, <2>2, SoundChange
<1>8. ASSUME NEW s \in Seeders, NEW u \in URIs, ProofOfCustody(s, u)
      PROVE  ContentsSound'
  <2> DEFINE c == content[u]
             n == Reward(c, s)
             paid == [Proved(c, s) EXCEPT !.publishing_fee_escrow = @ - n]
  <2>1. /\ IsContent(u) /\ now' = now /\ c.expiration > now
        /\ \/ /\ c.last_proof[s] = None
              /\ \A v \in URIs : content'[v] = content[v] \/ content'[v] = Proved(c, s)
           \/ /\ c.last_proof[s] # None /\ s \in DOMAIN c.seeder_price
              /\ \A v \in URIs : content'[v] = content[v] \/ content'[v] = paid
    BY <1>8 DEF ProofOfCustody, clock, Inv, ObjectsOK
  <2>2. /\ c \in ContentObjects /\ ContentSound(c, now) /\ c.publishing_fee_escrow >= 0
        /\ now \in Nat
    BY <1>0, <2>1
  <2>3. CASE c.last_proof[s] = None
    <3> DEFINE d == Proved(c, s)
    <3>1. /\ d \in ContentObjects /\ d.created = c.created /\ d.key_parts = c.key_parts
          /\ d.seeder_price = c.seeder_price /\ d.expiration = c.expiration
          /\ d.last_proof = [c.last_proof EXCEPT ![s] = now]
          /\ d.publishing_fee_escrow = c.publishing_fee_escrow - 0
          /\ d.author = c.author /\ d.co_authors = c.co_authors
      BY <2>2 DEF Proved, ContentObjects
    <3>2. s \in c.key_parts => Day * 0 <= c.seeder_price[s] * (now - ProvedUntil(c, s))
      <4> SUFFICES ASSUME s \in c.key_parts
                   PROVE  Day * 0 <= c.seeder_price[s] * (now - ProvedUntil(c, s))
        OBVIOUS
      <4>1. c.seeder_price[s] \in Nat /\ ProvedUntil(c, s) \in c.created .. now
        BY <2>2, OwedInts
      <4>2. c.created \in Nat /\ Day \in Nat
        BY <2>2, TradingAssumption DEF ContentObjects
      <4>3. now - ProvedUntil(c, s) \in Nat
        BY <2>2, <4>1, <4>2
      <4>4. \A x, y \in Nat : Day * 0 <= x * y
        BY <4>2
      <4> QED
        BY <4>1, <4>3, <4>4
    <3> HIDE DEF d, c
    <3>3. ContentSound(d, now)
      BY <2>1, <2>2, <3>1, <3>2, ProvedSound
    <3> QED
      BY <2>1, <2>3, <3>3, SoundChange DEF d
  <2>4. CASE c.last_proof[s] # None
    <3>1. s \in DOMAIN c.seeder_price /\ s \in c.key_parts /\ c.last_proof[s] <= now
          /\ ProvedUntil(c, s) = c.last_proof[s]
      BY <2>1, <2>2, <2>4 DEF ContentSound, ProvedUntil
    <3>2. /\ n \in Nat /\ n <= c.publishing_fee_escrow
          /\ Day * n <= c.seeder_price[s] * (now - c.last_proof[s])
      BY <2>2, <2>4, <3>1, RewardPays, RewardBounded
    <3> HIDE DEF n
    <3> DEFINE d == Proved(c, s)
    <3>5. /\ d \in ContentObjects /\ d.created = c.created /\ d.key_parts = c.key_parts
          /\ d.seeder_price = c.seeder_price /\ d.expiration = c.expiration
          /\ d.last_proof = [c.last_proof EXCEPT ![s] = now]
          /\ d.publishing_fee_escrow = c.publishing_fee_escrow
          /\ d.author = c.author /\ d.co_authors = c.co_authors
          /\ c.publishing_fee_escrow \in Int
      BY <2>2 DEF Proved, ContentObjects
    <3>6. paid = [d EXCEPT !.publishing_fee_escrow = @ - n]
      OBVIOUS
    <3> HIDE DEF d, paid
    <3>3. /\ paid \in ContentObjects /\ paid.created = c.created /\ paid.key_parts = c.key_parts
          /\ paid.seeder_price = c.seeder_price /\ paid.expiration = c.expiration
          /\ paid.last_proof = [c.last_proof EXCEPT ![s] = now]
          /\ paid.publishing_fee_escrow = c.publishing_fee_escrow - n
          /\ paid.author = c.author /\ paid.co_authors = c.co_authors
      BY <3>2, <3>5, <3>6 DEF ContentObjects
    <3>4. Day * n <= c.seeder_price[s] * (now - ProvedUntil(c, s)) /\ n \in Int
          /\ c.publishing_fee_escrow >= n
      BY <2>2, <3>1, <3>2 DEF ContentObjects
    <3> HIDE DEF paid, c
    <3>7. ContentSound(paid, now)
      BY <2>1, <2>2, <3>1, <3>3, <3>4, ProvedSound
    <3> QED
      BY <2>1, <2>4, <3>7, SoundChange DEF paid
  <2> QED
    BY <2>3, <2>4
<1>9. ASSUME NEW p \in Purchases, NEW r \in Ratings, LeaveRating(p, r)
      PROVE  ContentsSound'
  <2> DEFINE u == p[2]
             n == content[u].num_of_ratings + 1
             avg == (content[u].AVG_rating * content[u].num_of_ratings + r * 1000)
                      \div (content[u].num_of_ratings + 1)
             d == [content[u] EXCEPT !.num_of_ratings = n, !.AVG_rating = avg]
  <2>1. u \in URIs /\ IsContent(u)
    BY <1>9 DEF LeaveRating, Inv, PurchasesOfContent, Purchases
  <2>2. now' = now /\ \A v \in URIs : content'[v] = content[v] \/ content'[v] = d
    BY <1>9 DEF LeaveRating, clock, Inv, ObjectsOK
  <2>3. content[u] \in ContentObjects /\ ContentSound(content[u], now)
    BY <1>0, <2>1
  <2>4. SplitsValid(content[u].author, content[u].co_authors)
    BY <2>3 DEF ContentSound
  <2> HIDE DEF n, avg
  <2>5. ContentSound(d, now)
    BY <2>3, <2>4, SoundSame DEF ContentObjects
  <2> QED
    BY <2>1, <2>2, <2>5, SoundChange
<1>10. ASSUME NEW slots \in 1 .. MaxSlots, Block(slots)
       PROVE  ContentsSound'
  <2> DEFINE t == now + (slots + SkippedSlots) * BlockInterval
  <2>1. t \in Nat /\ now <= t /\ now' = t
    BY <1>10, BlockTime DEF Inv, ObjectsOK, Block
  <2> HIDE DEF t
  <2>2. CASE UNCHANGED content
    <3> SUFFICES ASSUME NEW u \in URIs, content'[u] # None PROVE ContentSound(content'[u], now')
      BY DEF ContentsSound, IsContent
    <3>1. content[u] \in ContentObjects /\ ContentSound(content[u], now)
      BY <1>0, <2>2 DEF IsContent
    <3> QED
      BY <1>0, <2>1, <2>2, <3>1, SoundLater
  <2>3. CASE Housekeeping(t)
    <3> SUFFICES ASSUME NEW u \in URIs, content'[u] # None PROVE ContentSound(content'[u], now')
      BY DEF ContentsSound, IsContent
    <3>1. IsContent(u)
      BY <2>1, <2>3, HousekeepingEffect DEF DueContent, IsContent
    <3>2. content[u] \in ContentObjects /\ ContentSound(content[u], now)
      BY <1>0, <3>1
    <3>3. CASE u \in DueContent(t)
      <4>1. content'[u] = [content[u] EXCEPT !.publishing_fee_escrow = 0]
            /\ content[u].expiration <= t
        BY <2>1, <2>3, <3>3, HousekeepingEffect DEF DueContent, Due
      <4> QED
        BY <1>0, <2>1, <3>2, <4>1, ExpiredSound, Zenon
    <3>4. CASE u \notin DueContent(t)
      <4>1. content'[u] = content[u]
        BY <2>1, <2>3, <3>4, HousekeepingEffect
      <4> QED
        BY <1>0, <2>1, <3>2, <4>1, SoundLater
    <3> QED
      BY <3>3, <3>4
  <2> QED
    BY <1>10, <2>2, <2>3 DEF Block, t
<1> QED
  BY <1>1, <1>2, <1>3, <1>4, <1>6, <1>7, <1>8, <1>9, <1>10 DEF Next

(* Every content is sound, always.                                         *)
THEOREM SoundTheorem == Spec => []ContentsSound
<1>1. Init => ContentsSound
  BY DEF Init, ContentsSound, IsContent
<1>2. Inv /\ ContentsSound /\ [Next]_vars => ContentsSound'
  <2> SUFFICES ASSUME Inv, ContentsSound, [Next]_vars PROVE ContentsSound'
    OBVIOUS
  <2>1. CASE UNCHANGED vars
    BY <2>1 DEF vars, ContentsSound, IsContent
  <2> QED
    BY <2>1, SoundStep
<1> QED
  BY <1>1, <1>2, Invariance, PTL DEF Spec

(* No seeder takes another one's pay, whatever the order of their proofs:  *)
(* until a content expires, its escrow covers what all of its seeders can  *)
(* still earn.                                                             *)
THEOREM SeedersStayFunded == Spec => []SeedersFunded
<1>1. ContentsSound => SeedersFunded
  BY DEF ContentsSound, ContentSound, SeedersFunded, Owed
<1> QED
  BY <1>1, SoundTheorem, PTL

-----------------------------------------------------------------------------
(* The counts of a content follow the sets of its delivered and of its     *)
(* rated purchases, which grow by one purchase at a time.                  *)
DeliveredOf(u) == {p \in {p \in Purchases : p[2] = u /\ IsBuying(p)} : buying[p].delivered}
RatedOf(u) == {p \in {p \in Purchases : p[2] = u /\ IsBuying(p)} : buying[p].rated}

(* What the counts of content c say, when its delivered and its rated      *)
(* purchases are the sets del and rat.                                     *)
CountsRight(c, del, rat) ==
    /\ c.times_bought = Cardinality(del)
    /\ c.num_of_ratings = Cardinality(rat)
    /\ c.num_of_ratings > 0 =>
         \E lo, hi \in Ratings : 1000 * lo - c.num_of_ratings < c.AVG_rating
                                /\ c.AVG_rating <= 1000 * hi

LEMMA CountsOf ==
    ASSUME NEW c, NEW del, NEW rat, CountsRight(c, del, rat)
    PROVE  c.times_bought = Cardinality(del) /\ c.num_of_ratings = Cardinality(rat)
BY DEF CountsRight

CountsInv ==
    /\ \A p \in Purchases : IsBuying(p) /\ buying[p].rated => buying[p].delivered
    /\ \A u \in URIs : IsContent(u) => CountsRight(content[u], DeliveredOf(u), RatedOf(u))

(* An average of n + 1 ratings is within them, but for the rounding.       *)
LEMMA AverageBound ==
    ASSUME NEW n \in Nat, NEW a \in Int, NEW l \in Int, NEW h \in Int, NEW r \in Int,
           n > 0 => l - n < a /\ a <= h, l <= r, r <= h
    PROVE  /\ (a * n + r) \div (n + 1) \in Int
           /\ l - (n + 1) < (a * n + r) \div (n + 1)
           /\ (a * n + r) \div (n + 1) <= h
<1> DEFINE x == a * n + r
           q == x \div (n + 1)
<1>1. x \in Int
  OBVIOUS
<1>2. x <= h * (n + 1)
  <2>1. CASE n = 0
    BY <2>1
  <2>2. CASE n > 0
    <3>1. a * n <= h * n /\ a * n \in Int /\ h * n \in Int
      BY <2>2
    <3>2. h * (n + 1) = h * n + h
      OBVIOUS
    <3> QED
      BY <3>1, <3>2
  <2> QED
    BY <2>1, <2>2
<1>3. x >= (l - n) * (n + 1)
  <2>1. CASE n = 0
    BY <2>1
  <2>2. CASE n > 0
    <3>1. (l - n) * n <= a * n /\ a * n \in Int /\ (l - n) * n \in Int
      BY <2>2
    <3>2. (l - n) * (n + 1) = (l - n) * n + (l - n)
      OBVIOUS
    <3> QED
      BY <3>1, <3>2
  <2> QED
    BY <2>1, <2>2
<1> HIDE DEF x
<1>4. q \in Int /\ (n + 1) * q <= x /\ x < (n + 1) * q + (n + 1)
  <2>1. n + 1 \in Nat \ {0}
    OBVIOUS
  <2>2. \A d \in Nat \ {0} : x \div d \in Int /\ d * (x \div d) <= x /\ x < d * (x \div d) + d
    BY <1>1
  <2> QED
    BY <2>1, <2>2
<1> HIDE DEF q
<1>5. q <= h
  <2> SUFFICES ASSUME q > h PROVE FALSE
    BY <1>4
  <2>1. (n + 1) * q >= (n + 1) * (h + 1) /\ (n + 1) * (h + 1) \in Int /\ (n + 1) * q \in Int
    BY <1>4
  <2>2. (n + 1) * (h + 1) = h * (n + 1) + (n + 1) /\ h * (n + 1) \in Int
    OBVIOUS
  <2> QED
    BY <1>1, <1>2, <1>4, <2>1, <2>2
<1>6. l - n <= q
  <2> SUFFICES ASSUME q < l - n PROVE FALSE
    BY <1>4
  <2>1. (n + 1) * (q + 1) <= (n + 1) * (l - n) /\ (n + 1) * (l - n) \in Int
    BY <1>4
  <2>2. (n + 1) * (q + 1) = (n + 1) * q + (n + 1) /\ (n + 1) * q \in Int
    BY <1>4
  <2>3. (n + 1) * (l - n) = (l - n) * (n + 1)
    OBVIOUS
  <2> QED
    BY <1>1, <1>3, <1>4, <2>1, <2>2, <2>3
<1> QED
  BY <1>4, <1>5, <1>6 DEF q, x

(* Counts are of finite sets.                                              *)
LEMMA CountedFinite ==
    ASSUME NEW u
    PROVE  IsFiniteSet(DeliveredOf(u)) /\ IsFiniteSet(RatedOf(u))
<1>1. IsFiniteSet(Consumers) /\ IsFiniteSet(URIs)
  BY TradingAssumption, FS_Subset
<1>2. IsFiniteSet(Purchases)
  BY <1>1, FS_Product DEF Purchases
<1>3. DeliveredOf(u) \subseteq Purchases /\ RatedOf(u) \subseteq Purchases
  BY DEF DeliveredOf, RatedOf
<1> QED
  BY <1>2, <1>3, FS_Subset

(* Counts and what is counted stay, or content is new and has none.        *)
LEMMA CountsKept ==
    ASSUME Inv, CountsInv,
           \A p \in Purchases :
             /\ IsBuying(p)' <=> IsBuying(p)
             /\ IsBuying(p) => /\ buying'[p].delivered = buying[p].delivered
                               /\ buying'[p].rated = buying[p].rated,
           \A u \in URIs : IsContent(u)' =>
             \/ /\ IsContent(u)
                /\ content'[u].times_bought = content[u].times_bought
                /\ content'[u].num_of_ratings = content[u].num_of_ratings
                /\ content'[u].AVG_rating = content[u].AVG_rating
             \/ /\ ~IsContent(u)
                /\ content'[u].times_bought = 0 /\ content'[u].num_of_ratings = 0
    PROVE  CountsInv'
<1>1. \A p \in Purchases : IsBuying(p)' /\ buying'[p].rated => buying'[p].delivered
  BY DEF CountsInv
<1>2. ASSUME NEW u \in URIs
      PROVE  DeliveredOf(u)' = DeliveredOf(u) /\ RatedOf(u)' = RatedOf(u)
  BY DEF DeliveredOf, RatedOf
<1>3. ASSUME NEW u \in URIs, IsContent(u)'
      PROVE  CountsRight(content'[u], DeliveredOf(u)', RatedOf(u)')
  <2>1. CASE IsContent(u)
    <3>1. CountsRight(content[u], DeliveredOf(u), RatedOf(u))
      BY <2>1 DEF CountsInv
    <3> QED
      BY <1>2, <1>3, <2>1, <3>1 DEF CountsRight
  <2>2. CASE ~IsContent(u)
    <3>1. DeliveredOf(u) = {} /\ RatedOf(u) = {}
      BY <2>2 DEF DeliveredOf, RatedOf, Inv, PurchasesOfContent
    <3>2. Cardinality({}) = 0
      BY FS_EmptySet
    <3>3. content'[u].times_bought = 0 /\ content'[u].num_of_ratings = 0
      BY <1>3, <2>2
    <3>4. DeliveredOf(u)' = {} /\ RatedOf(u)' = {}
      BY <1>2, <3>1
    <3> QED
      BY <3>2, <3>3, <3>4 DEF CountsRight
  <2> QED
    BY <2>1, <2>2
<1> QED
  BY <1>1, <1>3 DEF CountsInv

(* The sets when one purchase changes.                                     *)
LEMMA PurchaseSets ==
    ASSUME Inv, NEW p \in Purchases, NEW b \in BuyingObjects,
           buying' = [buying EXCEPT ![p] = b], NEW u \in URIs
    PROVE  /\ DeliveredOf(u)' = IF p[2] = u /\ b.delivered THEN DeliveredOf(u) \cup {p}
                                ELSE DeliveredOf(u) \ {p}
           /\ RatedOf(u)' = IF p[2] = u /\ b.rated THEN RatedOf(u) \cup {p}
                            ELSE RatedOf(u) \ {p}
<1>1. buying'[p] = b /\ b # None /\ \A q \in Purchases : q # p => buying'[q] = buying[q]
  BY NoneAssumption DEF Inv, ObjectsOK
<1> QED
  BY <1>1 DEF DeliveredOf, RatedOf, IsBuying

(* The counts when one purchase and its content change.                    *)
LEMMA CountsStep ==
    ASSUME Inv, CountsInv, NEW p \in Purchases, NEW b \in BuyingObjects,
           buying' = [buying EXCEPT ![p] = b], b.rated => b.delivered,
           IsContent(p[2]),
           \A u \in URIs : u # p[2] => content'[u] = content[u],
           CountsRight(content'[p[2]],
                       IF b.delivered THEN DeliveredOf(p[2]) \cup {p} ELSE DeliveredOf(p[2]) \ {p},
                       IF b.rated THEN RatedOf(p[2]) \cup {p} ELSE RatedOf(p[2]) \ {p})
    PROVE  CountsInv'
<1>1. p[2] \in URIs
  BY DEF Purchases
<1>2. \A q \in Purchases : IsBuying(q)' /\ buying'[q].rated => buying'[q].delivered
  BY DEF CountsInv, IsBuying, Inv, ObjectsOK
<1>3. ASSUME NEW u \in URIs, IsContent(u)'
      PROVE  CountsRight(content'[u], DeliveredOf(u)', RatedOf(u)')
  <2>1. CASE u = p[2]
    BY <1>1, <2>1, PurchaseSets
  <2>2. CASE u # p[2]
    <3>1. content'[u] = content[u] /\ IsContent(u)
      BY <1>3, <2>2 DEF IsContent
    <3>2. CountsRight(content[u], DeliveredOf(u), RatedOf(u))
      BY <3>1 DEF CountsInv
    <3>3. p \notin DeliveredOf(u) /\ p \notin RatedOf(u)
      BY <2>2 DEF DeliveredOf, RatedOf
    <3>4. DeliveredOf(u)' = DeliveredOf(u) /\ RatedOf(u)' = RatedOf(u)
      <4>1. DeliveredOf(u)' = DeliveredOf(u) \ {p} /\ RatedOf(u)' = RatedOf(u) \ {p}
        BY <2>2, PurchaseSets
      <4>2. DeliveredOf(u) \ {p} = DeliveredOf(u) /\ RatedOf(u) \ {p} = RatedOf(u)
        BY <3>3
      <4> QED
        BY <4>1, <4>2
    <3> QED
      BY <3>1, <3>2, <3>4
  <2> QED
    BY <2>1, <2>2
<1> QED
  BY <1>2, <1>3 DEF CountsInv

(* A sale is counted.                                                      *)
LEMMA SoldCounted ==
    ASSUME Inv, CountsInv, NEW p \in Purchases, IsContent(p[2]), p \notin DeliveredOf(p[2]),
           p \notin RatedOf(p[2])
    PROVE  CountsRight(Sold(p[2]), DeliveredOf(p[2]) \cup {p}, RatedOf(p[2]) \ {p})
<1> DEFINE u == p[2]
           c == content[u]
           D == DeliveredOf(u)
           R == RatedOf(u)
<1>1. u \in URIs /\ IsContent(u)
  BY DEF Purchases
<1>2. c \in ContentObjects /\ CountsRight(c, D, R)
  BY <1>1, ContentOK DEF CountsInv
<1>3. /\ Sold(u).times_bought = c.times_bought + 1
      /\ Sold(u).num_of_ratings = c.num_of_ratings /\ Sold(u).AVG_rating = c.AVG_rating
  BY <1>2 DEF Sold, ContentObjects
<1>4. Cardinality(D \cup {p}) = Cardinality(D) + 1
  BY CountedFinite, FS_AddElement
<1>5. R \ {p} = R
  OBVIOUS
<1> HIDE DEF u, c, D, R
<1>6. CountsRight(Sold(u), D \cup {p}, R)
  BY <1>2, <1>3, <1>4 DEF CountsRight
<1> QED
  BY <1>5, <1>6 DEF u, D, R

(* The average with one more rating.                                       *)
Averaged(c, r) ==
    (c.AVG_rating * c.num_of_ratings + r * 1000) \div (c.num_of_ratings + 1)

(* A rating is counted, and averaged.                                      *)
LEMMA RatingCounted ==
    ASSUME NEW c \in ContentObjects, NEW D, NEW R, CountsRight(c, D, R), IsFiniteSet(R),
           NEW p, p \notin R, NEW r \in Ratings, NEW d,
           d.times_bought = c.times_bought, d.num_of_ratings = c.num_of_ratings + 1,
           d.AVG_rating = Averaged(c, r)
    PROVE  CountsRight(d, D, R \cup {p})
<1> DEFINE n == c.num_of_ratings
           a == c.AVG_rating
           avg == (a * n + r * 1000) \div (n + 1)
<1>1. /\ n \in Nat /\ a \in Int /\ r \in Nat /\ r * 1000 \in Int
      /\ \A x \in Ratings : x \in Nat
  BY TradingAssumption DEF ContentObjects
<1>2. /\ d.times_bought = c.times_bought
      /\ d.num_of_ratings = n + 1 /\ d.AVG_rating = avg
  BY DEF Averaged
<1>3. Cardinality(R \cup {p}) = n + 1
  <2>1. Cardinality(R) = n
    BY Zenon DEF CountsRight
  <2>2. Cardinality(R \cup {p}) = Cardinality(R) + 1
    BY FS_AddElement
  <2> HIDE DEF n
  <2> QED
    BY <2>1, <2>2
<1>4. \E lo, hi \in Ratings : n > 0 => 1000 * lo - n < a /\ a <= 1000 * hi
  <2>1. CASE n > 0
    BY <2>1 DEF CountsRight
  <2>2. CASE n = 0
    BY <2>2
  <2> QED
    BY <1>1, <2>1, <2>2
<1>5. PICK l \in Ratings, h \in Ratings : n > 0 => 1000 * l - n < a /\ a <= 1000 * h
  BY <1>4
<1> DEFINE lo == IF n > 0 /\ l <= r THEN l ELSE r
           hi == IF n > 0 /\ h >= r THEN h ELSE r
<1>6. /\ lo \in Ratings /\ hi \in Ratings
      /\ n > 0 => 1000 * lo - n < a /\ a <= 1000 * hi
      /\ 1000 * lo <= r * 1000 /\ r * 1000 <= 1000 * hi
      /\ 1000 * lo \in Int /\ 1000 * hi \in Int
  BY <1>1, <1>5
<1> HIDE DEF lo, hi, n, a
<1>7. 1000 * lo - (n + 1) < avg /\ avg <= 1000 * hi
  BY <1>1, <1>6, AverageBound
<1> HIDE DEF avg
<1> QED
  BY <1>2, <1>3, <1>6, <1>7 DEF CountsRight, n

(* The operations and blocks, one by one.                                  *)
LEMMA CountsNext ==
    ASSUME Inv, CountsInv, Next
    PROVE  CountsInv'
<1>0. /\ \A u \in URIs : IsContent(u) => content[u] \in ContentObjects
      /\ \A p \in Purchases : IsBuying(p) => BuyingOK(buying[p])
      /\ \A p \in Purchases : p[2] \in URIs
  BY ContentOK DEF Inv, ObjectsOK, SettledOnce, IsBuying, BuyingOK, Purchases
<1>1. ASSUME NEW s \in Seeders, NEW space \in Spaces, NEW price \in SeederPrices,
             ReadyToPublish(s, space, price)
      PROVE  CountsInv'
  BY <1>1, CountsKept DEF ReadyToPublish, IsBuying, IsContent
<1>2. ASSUME NEW a \in Authors, NEW u \in URIs, NEW co \in CoAuthorMaps, NEW price \in Prices,
             NEW keys \in KeyPartSets, NEW fee \in Fees, NEW life \in Lifetimes,
             Submit(a, u, co, price, keys, fee, life)
      PROVE  CountsInv'
  <2>1. /\ \A v \in URIs : v # u => content'[v] = content[v]
        /\ content'[u].times_bought = 0 /\ content'[u].num_of_ratings = 0
        /\ ~IsContent(u) /\ UNCHANGED buying
    BY <1>2 DEF Submit, Inv, ObjectsOK
  <2> QED
    BY <2>1, CountsKept DEF IsBuying, IsContent
<1>3. ASSUME NEW u \in URIs, NEW d, IsContent(u),
             content' = [content EXCEPT ![u] = d], UNCHANGED buying,
             d.times_bought = content[u].times_bought,
             d.num_of_ratings = content[u].num_of_ratings,
             d.AVG_rating = content[u].AVG_rating
      PROVE  CountsInv'
  <2>1. \A v \in URIs : content'[v] = IF v = u THEN d ELSE content[v]
    BY <1>3 DEF Inv, ObjectsOK
  <2> QED
    BY <1>3, <2>1, CountsKept DEF IsBuying, IsContent
<1>4. ASSUME NEW u \in URIs, NEW co \in CoAuthorMaps, NEW price \in Prices, Resubmit(u, co, price)
      PROVE  CountsInv'
  <2> DEFINE d == [content[u] EXCEPT !.co_authors = co, !.price = price]
  <2>1. IsContent(u) /\ content' = [content EXCEPT ![u] = d] /\ UNCHANGED buying
    BY <1>4 DEF Resubmit
  <2>2. content[u] \in ContentObjects
    BY <1>0, <2>1
  <2>3. /\ d.times_bought = content[u].times_bought
        /\ d.num_of_ratings = content[u].num_of_ratings
        /\ d.AVG_rating = content[u].AVG_rating
    BY <2>2 DEF ContentObjects
  <2> HIDE DEF d
  <2> QED
    BY <1>3, <2>1, <2>3
<1>5. ASSUME NEW u \in URIs, Cancel(u)
      PROVE  CountsInv'
  <2> DEFINE e == Lesser(content[u].expiration, now + Day)
             d == [content[u] EXCEPT !.is_blocked = TRUE, !.expiration = e]
  <2>1. IsContent(u) /\ content' = [content EXCEPT ![u] = d] /\ UNCHANGED buying
    BY <1>5 DEF Cancel
  <2>2. content[u] \in ContentObjects
    BY <1>0, <2>1
  <2> HIDE DEF e
  <2>3. /\ d.times_bought = content[u].times_bought
        /\ d.num_of_ratings = content[u].num_of_ratings
        /\ d.AVG_rating = content[u].AVG_rating
    BY <2>2 DEF ContentObjects
  <2> HIDE DEF d
  <2> QED
    BY <1>3, <2>1, <2>3
<1>6. ASSUME NEW s \in Seeders, NEW u \in URIs, ProofOfCustody(s, u)
      PROVE  CountsInv'
  <2> DEFINE c == content[u]
             n == Reward(c, s)
             q == Proved(c, s)
             paid == [q EXCEPT !.publishing_fee_escrow = @ - n]
  <2>1. /\ IsContent(u) /\ UNCHANGED buying
        /\ \/ content' = [content EXCEPT ![u] = q]
           \/ content' = [content EXCEPT ![u] = paid]
    BY <1>6 DEF ProofOfCustody
  <2>2. c \in ContentObjects
    BY <1>0, <2>1
  <2>3. /\ q.times_bought = c.times_bought /\ q.num_of_ratings = c.num_of_ratings
        /\ q.AVG_rating = c.AVG_rating
    BY <2>2 DEF ContentObjects, Proved
  <2>4. /\ paid.times_bought = q.times_bought /\ paid.num_of_ratings = q.num_of_ratings
        /\ paid.AVG_rating = q.AVG_rating
    BY <2>2 DEF ContentObjects, Proved
  <2> HIDE DEF n, q, paid
  <2>5. CASE content' = [content EXCEPT ![u] = q]
    BY <1>3, <2>1, <2>3, <2>5
  <2>6. CASE content' = [content EXCEPT ![u] = paid]
    BY <1>3, <2>1, <2>3, <2>4, <2>6
  <2> QED
    BY <2>1, <2>5, <2>6
<1>7. ASSUME NEW consumer \in Consumers, NEW u \in URIs, NEW price \in Prices,
             Buy(consumer, u, price)
      PROVE  CountsInv'
  <2> DEFINE p == <<consumer, u>>
             paid == IF consumer \in Subscribers THEN 0 ELSE price
             simple == content[u].key_parts = {}
             b == [price |-> IF simple THEN 0 ELSE paid, paid_price |-> paid,
                   expiration_time |-> now + Day, seeders_answered |-> {},
                   delivered |-> simple, expired |-> FALSE, rated |-> FALSE]
  <2>1. /\ IsContent(u) /\ ~IsBuying(p) /\ p \in Purchases
        /\ buying' = [buying EXCEPT ![p] = b]
        /\ content' = IF simple THEN [content EXCEPT ![u] = Sold(u)] ELSE content
    BY <1>7 DEF Buy, Purchases
  <2>2. p[2] = u
    OBVIOUS
  <2>3. b \in BuyingObjects
    <3>1. paid \in Nat /\ now + Day \in Nat
      BY TradingAssumption DEF Inv, ObjectsOK
    <3> QED
      BY <3>1 DEF BuyingObjects
  <2>4. b.delivered = simple /\ b.rated = FALSE
    OBVIOUS
  <2>5. p \notin DeliveredOf(u) /\ p \notin RatedOf(u)
    BY <2>1 DEF DeliveredOf, RatedOf
  <2>6. CountsRight(content[u], DeliveredOf(u), RatedOf(u))
    BY <2>1 DEF CountsInv
  <2> HIDE DEF p, b, simple
  <2>7. CASE simple
    <3>1. content'[u] = Sold(u) /\ \A v \in URIs : v # u => content'[v] = content[v]
      BY <2>1, <2>7 DEF Inv, ObjectsOK
    <3>2. CountsRight(content'[u], DeliveredOf(u) \cup {p}, RatedOf(u) \ {p})
      BY <2>1, <2>2, <2>5, <3>1, SoldCounted
    <3> QED
      BY <2>1, <2>2, <2>3, <2>4, <2>7, <3>1, <3>2, CountsStep
  <2>8. CASE ~simple
    <3>1. \A v \in URIs : content'[v] = content[v]
      BY <2>1, <2>8
    <3>2. DeliveredOf(u) \ {p} = DeliveredOf(u) /\ RatedOf(u) \ {p} = RatedOf(u)
      BY <2>5
    <3>3. CountsRight(content'[u], DeliveredOf(u) \ {p}, RatedOf(u) \ {p})
      BY <2>6, <3>1, <3>2
    <3> QED
      BY <2>1, <2>2, <2>3, <2>4, <2>8, <3>1, <3>3, CountsStep
  <2> QED
    BY <2>7, <2>8
<1>8. ASSUME NEW s \in Seeders, NEW p \in Purchases, DeliverKeys(s, p)
      PROVE  CountsInv'
  <2> DEFINE b == buying[p]
             u == p[2]
             noted == [b EXCEPT !.seeders_answered = Answered(p, s)]
             paid == [noted EXCEPT !.price = 0, !.delivered = TRUE]
             closed == [noted EXCEPT !.price = 0, !.expired = TRUE]
  <2>1. IsBuying(p) /\ u \in URIs /\ IsContent(u) /\ BuyingOK(b)
    BY <1>0, <1>8 DEF DeliverKeys, Inv, PurchasesOfContent
  <2>2. /\ noted \in BuyingObjects /\ noted.delivered = b.delivered /\ noted.rated = b.rated
        /\ closed.delivered = b.delivered /\ closed.rated = b.rated
        /\ paid \in BuyingObjects /\ paid.delivered = TRUE /\ paid.rated = b.rated
    BY <2>1 DEF BuyingOK, BuyingObjects, Answered
  <2>3. \/ buying' = [buying EXCEPT ![p] = noted] /\ UNCHANGED content
        \/ buying' = [buying EXCEPT ![p] = closed] /\ UNCHANGED content
        \/ /\ StillOpen(p) /\ buying' = [buying EXCEPT ![p] = paid]
           /\ content' = [content EXCEPT ![u] = Sold(u)]
    BY <1>8 DEF DeliverKeys
  <2>4. noted # None /\ closed # None /\ paid # None
    <3>1. closed \in BuyingObjects
      BY <2>1 DEF BuyingOK, BuyingObjects, Answered
    <3> QED
      BY <2>2, <3>1, NoneAssumption
  <2>5. CASE /\ buying' = [buying EXCEPT ![p] = noted] \/ buying' = [buying EXCEPT ![p] = closed]
             /\ UNCHANGED content
    <3> HIDE DEF noted, closed
    <3>1. /\ \A q \in Purchases : q # p => buying'[q] = buying[q]
          /\ buying'[p] = noted \/ buying'[p] = closed
      BY <2>5 DEF Inv, ObjectsOK
    <3> QED
      BY <2>1, <2>2, <2>4, <2>5, <3>1, CountsKept DEF IsBuying, IsContent
  <2>6. CASE /\ StillOpen(p) /\ buying' = [buying EXCEPT ![p] = paid]
             /\ content' = [content EXCEPT ![u] = Sold(u)]
    <3>1. ~b.delivered /\ ~b.rated
      BY <2>1, <2>6 DEF StillOpen, CountsInv
    <3>2. p \notin DeliveredOf(u) /\ p \notin RatedOf(u)
      BY <3>1 DEF DeliveredOf, RatedOf
    <3> HIDE DEF paid
    <3>3. content'[u] = Sold(u) /\ \A v \in URIs : v # u => content'[v] = content[v]
      BY <2>1, <2>6 DEF Inv, ObjectsOK
    <3>4. CountsRight(content'[u], DeliveredOf(u) \cup {p}, RatedOf(u) \ {p})
      BY <2>1, <3>2, <3>3, SoldCounted
    <3>5. paid.delivered /\ ~paid.rated
      BY <2>2, <3>1
    <3> QED
      BY <2>1, <2>2, <2>6, <3>3, <3>4, <3>5, CountsStep
  <2> QED
    BY <2>3, <2>5, <2>6
<1>9. ASSUME NEW p \in Purchases, NEW r \in Ratings, LeaveRating(p, r)
      PROVE  CountsInv'
  <2> DEFINE u == p[2]
             b == [buying[p] EXCEPT !.rated = TRUE]
             d == [content[u] EXCEPT !.num_of_ratings = content[u].num_of_ratings + 1,
                     !.AVG_rating = (content[u].AVG_rating * content[u].num_of_ratings + r * 1000)
                                      \div (content[u].num_of_ratings + 1)]
  <2>1. /\ IsBuying(p) /\ buying[p].delivered /\ ~buying[p].rated
        /\ buying' = [buying EXCEPT ![p] = b] /\ content' = [content EXCEPT ![u] = d]
    BY <1>9 DEF LeaveRating
  <2>2. u \in URIs /\ IsContent(u) /\ BuyingOK(buying[p]) /\ content[u] \in ContentObjects
    BY <1>0, <2>1 DEF Inv, PurchasesOfContent
  <2>3. b \in BuyingObjects /\ b.delivered = buying[p].delivered /\ b.rated = TRUE
    BY <2>2 DEF BuyingOK, BuyingObjects
  <2>4. p \in DeliveredOf(u) /\ p \notin RatedOf(u)
    BY <2>1 DEF DeliveredOf, RatedOf
  <2>5. CountsRight(content[u], DeliveredOf(u), RatedOf(u)) /\ IsFiniteSet(RatedOf(u))
    BY <2>2, CountedFinite DEF CountsInv
  <2>6. CountsRight(d, DeliveredOf(u), RatedOf(u) \cup {p})
    <3> DEFINE c == content[u]
               D == DeliveredOf(u)
               R == RatedOf(u)
    <3>1. c \in ContentObjects /\ CountsRight(c, D, R) /\ IsFiniteSet(R) /\ p \notin R
      BY <2>2, <2>4, <2>5
    <3>2. /\ d.times_bought = c.times_bought /\ d.num_of_ratings = c.num_of_ratings + 1
          /\ d.AVG_rating = Averaged(c, r)
      BY <2>2 DEF ContentObjects, Averaged
    <3> HIDE DEF c, D, R, d
    <3>3. CountsRight(d, D, R \cup {p})
      BY <3>1, <3>2, RatingCounted
    <3> QED
      BY <3>3 DEF D, R
  <2> HIDE DEF d, b
  <2>7. content'[u] = d /\ \A v \in URIs : v # u => content'[v] = content[v]
    BY <2>1, <2>2 DEF Inv, ObjectsOK
  <2>8. DeliveredOf(u) \cup {p} = DeliveredOf(u)
    BY <2>4
  <2>9. CountsRight(content'[u], DeliveredOf(u) \cup {p}, RatedOf(u) \cup {p})
    BY <2>6, <2>7, <2>8
  <2>10. b.delivered /\ b.rated
    BY <2>1, <2>3
  <2> QED
    BY <2>1, <2>2, <2>3, <2>7, <2>9, <2>10, CountsStep
<1>10. ASSUME NEW slots \in 1 .. MaxSlots, Block(slots)
       PROVE  CountsInv'
  <2> DEFINE t == now + (slots + SkippedSlots) * BlockInterval
  <2>1. t \in Nat
    BY BlockTime DEF Inv, ObjectsOK
  <2> HIDE DEF t
  <2>2. CASE UNCHANGED <<content, buying>>
    BY <2>2, CountsKept DEF IsBuying, IsContent
  <2>3. CASE Housekeeping(t)
    <3>1. ASSUME NEW p \in Purchases
          PROVE  /\ IsBuying(p)' <=> IsBuying(p)
                 /\ IsBuying(p) => /\ buying'[p].delivered = buying[p].delivered
                                   /\ buying'[p].rated = buying[p].rated
      <4>1. CASE p \in DueBuying(t)
        <5> DEFINE b == [buying[p] EXCEPT !.price = 0, !.expired = TRUE]
        <5>1. buying'[p] = b /\ IsBuying(p) /\ BuyingOK(buying[p])
          BY <1>0, <2>1, <2>3, <4>1, HousekeepingEffect DEF DueBuying
        <5>2. b \in BuyingObjects /\ b.delivered = buying[p].delivered /\ b.rated = buying[p].rated
          BY <5>1 DEF BuyingOK, BuyingObjects
        <5> HIDE DEF b
        <5> QED
          BY <5>1, <5>2, NoneAssumption DEF IsBuying
      <4>2. CASE p \notin DueBuying(t)
        BY <2>1, <2>3, <4>2, HousekeepingEffect DEF IsBuying
      <4> QED
        BY <4>1, <4>2
    <3>2. ASSUME NEW u \in URIs, IsContent(u)'
          PROVE  /\ IsContent(u)
                 /\ content'[u].times_bought = content[u].times_bought
                 /\ content'[u].num_of_ratings = content[u].num_of_ratings
                 /\ content'[u].AVG_rating = content[u].AVG_rating
      <4>1. CASE u \in DueContent(t)
        <5> DEFINE d == [content[u] EXCEPT !.publishing_fee_escrow = 0]
        <5>1. content'[u] = d /\ IsContent(u) /\ content[u] \in ContentObjects
          BY <1>0, <2>1, <2>3, <4>1, HousekeepingEffect DEF DueContent
        <5>2. /\ d.times_bought = content[u].times_bought
              /\ d.num_of_ratings = content[u].num_of_ratings /\ d.AVG_rating = content[u].AVG_rating
          BY <5>1 DEF ContentObjects
        <5> HIDE DEF d
        <5> QED
          BY <5>1, <5>2
      <4>2. CASE u \notin DueContent(t)
        BY <2>1, <2>3, <3>2, <4>2, HousekeepingEffect DEF IsContent
      <4> QED
        BY <4>1, <4>2
    <3> QED
      BY <3>1, <3>2, CountsKept
  <2> QED
    BY <1>10, <2>2, <2>3 DEF Block, t
<1> QED
  BY <1>1, <1>2, <1>4, <1>5, <1>6, <1>7, <1>8, <1>9, <1>10 DEF Next

(* The counts shown with a content are those of its purchases, and its     *)
(* average rating is within the ratings given, but for the rounding.       *)
THEOREM CountsTheorem == Spec => []CountsMatchPurchases
<1>1. Init => CountsInv
  BY DEF Init, CountsInv, IsContent, IsBuying
<1>2. Inv /\ CountsInv /\ [Next]_vars => CountsInv'
  <2> SUFFICES ASSUME Inv, CountsInv, [Next]_vars PROVE CountsInv'
    OBVIOUS
  <2>1. CASE UNCHANGED vars
    BY <2>1, CountsKept DEF vars, IsContent, IsBuying
  <2> QED
    BY <2>1, CountsNext
<1>3. CountsInv => CountsMatchPurchases
  <2> SUFFICES ASSUME CountsInv PROVE CountsMatchPurchases
    OBVIOUS
  <2>1. ASSUME NEW u \in URIs, IsContent(u)
        PROVE  /\ CountsRight(content[u], DeliveredOf(u), RatedOf(u))
               /\ content[u].num_of_ratings <= content[u].times_bought
    <3>1. RatedOf(u) \subseteq DeliveredOf(u)
      BY DEF CountsInv, RatedOf, DeliveredOf
    <3>2. Cardinality(RatedOf(u)) <= Cardinality(DeliveredOf(u))
      BY <3>1, CountedFinite, FS_Subset
    <3> QED
      BY <2>1, <3>2 DEF CountsInv, CountsRight
  <2>2. ASSUME NEW u \in URIs, IsContent(u)
        PROVE  /\ content[u].times_bought = Cardinality({p \in {p \in Purchases : p[2] = u /\ IsBuying(p)} : buying[p].delivered})
               /\ content[u].num_of_ratings = Cardinality({p \in {p \in Purchases : p[2] = u /\ IsBuying(p)} : buying[p].rated})
    <3>1. /\ {p \in {p \in Purchases : p[2] = u /\ IsBuying(p)} : buying[p].delivered} = DeliveredOf(u)
          /\ {p \in {p \in Purchases : p[2] = u /\ IsBuying(p)} : buying[p].rated} = RatedOf(u)
      BY DEF DeliveredOf, RatedOf
    <3>2. CountsRight(content[u], DeliveredOf(u), RatedOf(u))
      BY <2>1, <2>2, Zenon
    <3>3. /\ content[u].times_bought = Cardinality(DeliveredOf(u))
          /\ content[u].num_of_ratings = Cardinality(RatedOf(u))
      BY <3>2, CountsOf
    <3> QED
      BY <3>1, <3>3
  <2>3. ASSUME NEW u \in URIs, IsContent(u)
        PROVE  /\ content[u].num_of_ratings <= content[u].times_bought
               /\ content[u].num_of_ratings > 0 =>
                    \E lo, hi \in Ratings : 1000 * lo - content[u].num_of_ratings < content[u].AVG_rating
                                           /\ content[u].AVG_rating <= 1000 * hi
    BY <2>1, <2>3 DEF CountsRight
  <2> QED
    BY <2>2, <2>3 DEF CountsMatchPurchases
<1> QED
  BY <1>1, <1>2, <1>3, Invariance, PTL DEF Spec

-----------------------------------------------------------------------------
(* The counters of a seeder stay in their words.                           *)
Counters == 0 .. Word - 1
StatObjects == [missed : Counters, delivered : Counters, requested : Counters,
                seeded : Counters, key_delivery_ratio : Int]
StatsOK == stats \in [Seeders -> StatObjects]

(* Counters are incremented and decremented modulo the word.               *)
LEMMA CounterOK ==
    /\ Word \in Nat \ {0}
    /\ \A n \in Int : n % Word \in Counters
    /\ \A n \in Counters : Bump(n) \in Counters /\ Drop(n) \in Counters /\ n \in Nat
    /\ 0 \in Counters
<1>1. Word \in Nat \ {0}
  BY TradingAssumption
<1>2. \A n \in Int : n % Word \in Counters
  BY <1>1 DEF Counters
<1>3. \A n \in Counters : n + 1 \in Int /\ n - 1 \in Int /\ n \in Nat
  BY <1>1 DEF Counters
<1>4. 0 \in Counters
  BY <1>1 DEF Counters
<1> QED
  BY <1>1, <1>2, <1>3, <1>4 DEF Bump, Drop

(* What maintenance makes of a seeder's counters.                          *)
LEMMA ResetOK ==
    ASSUME StatsOK, NEW s \in Seeders
    PROVE  ResetStats(s) \in StatObjects /\ ResetStats(s).seeded = stats[s].seeded
<1>1. stats[s] \in StatObjects
  BY DEF StatsOK
<1>2. KeyDeliveryRatio(stats[s]) \in Int
  <2> DEFINE d == stats[s].delivered
             requests == (d + stats[s].missed) % Word
  <2>1. d \in Nat /\ requests \in Nat
    BY <1>1, CounterOK DEF StatObjects, Counters
  <2> HIDE DEF d, requests
  <2>2. KeyDeliveryRatio(stats[s]) = IF requests > 0 THEN (d * 10000) \div requests ELSE 0
    BY DEF KeyDeliveryRatio, d, requests
  <2> QED
    BY <2>1, <2>2
<1> DEFINE r == KeyDeliveryRatio(stats[s])
<1> HIDE DEF r
<1>3. ResetStats(s) = stats[s]
        \/ ResetStats(s) = [stats[s] EXCEPT !.key_delivery_ratio = r,
                                            !.missed = 0, !.delivered = 0, !.requested = 0]
  BY DEF ResetStats, r
<1>4. r \in Int
  BY <1>2 DEF r
<1> QED
  BY <1>1, <1>3, <1>4, CounterOK DEF StatObjects

(* The operations and blocks keep the counters in their words.             *)
LEMMA StatsStep ==
    ASSUME StatsOK, Next
    PROVE  StatsOK'
<1>1. ASSUME NEW s \in Seeders, NEW space \in Spaces, NEW price \in SeederPrices,
             ReadyToPublish(s, space, price)
      PROVE  StatsOK'
  BY <1>1 DEF ReadyToPublish, StatsOK
<1>2. ASSUME NEW s \in Seeders
      PROVE  /\ [stats[s] EXCEPT !.requested = Bump(@)] \in StatObjects
             /\ [stats[s] EXCEPT !.missed = Bump(@)] \in StatObjects
             /\ stats[s] \in StatObjects
  BY CounterOK DEF StatsOK, StatObjects
<1>3. ASSUME NEW a \in Authors, NEW u \in URIs, NEW co \in CoAuthorMaps, NEW price \in Prices,
             NEW keys \in KeyPartSets, NEW fee \in Fees, NEW life \in Lifetimes,
             Submit(a, u, co, price, keys, fee, life)
      PROVE  StatsOK'
  <2>1. stats' = [s \in Seeders |->
          IF s \in keys THEN [stats[s] EXCEPT !.requested = Bump(@)] ELSE stats[s]]
    BY <1>3 DEF Submit
  <2> QED
    BY <1>2, <2>1 DEF StatsOK
<1>4. ASSUME NEW c \in Consumers, NEW u \in URIs, NEW price \in Prices, Buy(c, u, price)
      PROVE  StatsOK'
  <2>1. stats' = [s \in Seeders |-> IF s \in content[u].key_parts
          THEN [stats[s] EXCEPT !.missed = Bump(@)] ELSE stats[s]]
    BY <1>4 DEF Buy
  <2> QED
    BY <1>2, <2>1 DEF StatsOK
<1>5. ASSUME NEW s \in Seeders, NEW p \in Purchases, DeliverKeys(s, p)
      PROVE  StatsOK'
  <2> DEFINE st == [stats[s] EXCEPT !.missed = Drop(@), !.delivered = Bump(@)]
  <2>1. st \in StatObjects
    BY CounterOK DEF StatsOK, StatObjects
  <2>2. stats' = [stats EXCEPT ![s] = st] \/ stats' = stats
    BY <1>5 DEF DeliverKeys, StatsOK, StatObjects
  <2> HIDE DEF st
  <2> QED
    BY <2>1, <2>2 DEF StatsOK
<1>6. ASSUME NEW s \in Seeders, NEW u \in URIs, ProofOfCustody(s, u)
      PROVE  StatsOK'
  <2> DEFINE n == IF stats[s].requested > 0 THEN Drop(stats[s].requested) ELSE stats[s].requested
             st == [stats[s] EXCEPT !.seeded = Bump(@), !.requested = n]
  <2>1. n \in Counters
    BY CounterOK DEF StatsOK, StatObjects
  <2>2. stats' = [stats EXCEPT ![s] = st] \/ stats' = stats
    BY <1>6 DEF ProofOfCustody, StatsOK, StatObjects
  <2> HIDE DEF n
  <2>3. st \in StatObjects
    BY <2>1, CounterOK DEF StatsOK, StatObjects
  <2> HIDE DEF st
  <2> QED
    BY <2>2, <2>3 DEF StatsOK
<1>7. ASSUME NEW slots \in 1 .. MaxSlots, Block(slots)
      PROVE  StatsOK'
  <2> DEFINE t == now + (slots + SkippedSlots) * BlockInterval
             n(s) == (ResetStats(s).seeded - Cardinality(SeededBy(s, DueContent(t)))) % Word
  <2>1. CASE UNCHANGED stats
    BY <2>1 DEF StatsOK
  <2>2. CASE Housekeeping(t)
    <3>1. stats' = [s \in Seeders |-> [ResetStats(s) EXCEPT !.seeded = n(s)]]
      BY <2>2 DEF Housekeeping
    <3>2. ASSUME NEW s \in Seeders PROVE n(s) \in Counters
      <4>1. ResetStats(s).seeded \in Int
        BY ResetOK, CounterOK DEF StatObjects
      <4>2. Cardinality(SeededBy(s, DueContent(t))) \in Int
        <5>1. IsFiniteSet(SeededBy(s, DueContent(t)))
          BY TradingAssumption, FS_Subset DEF SeededBy, DueContent
        <5> QED
          BY <5>1, FS_CardinalityType
      <4> QED
        BY <4>1, <4>2, CounterOK
    <3> HIDE DEF n
    <3>3. ASSUME NEW s \in Seeders PROVE [ResetStats(s) EXCEPT !.seeded = n(s)] \in StatObjects
      BY <3>2, ResetOK DEF StatObjects
    <3> QED
      BY <3>1, <3>3 DEF StatsOK
  <2> QED
    BY <1>7, <2>1, <2>2 DEF Block
<1> QED
  BY <1>1, <1>3, <1>4, <1>5, <1>6, <1>7 DEF Next, Resubmit, Cancel, LeaveRating, StatsOK

(* The contents that count as seeded by s: those with a proof from s,      *)
(* unless s was chosen to store it and housekeeping has walked it.         *)
SeededSet(s) ==
    {u \in URIs : /\ IsContent(u)
                  /\ content[u].last_proof[s] # None
                  /\ ~(s \in content[u].key_parts /\ Walked(content[u].expiration))}

(* There are not so many contents that the counter wraps around.           *)
CounterWide == Cardinality(URIs) < Word

(* A count of contents fits the counter.                                   *)
LEMMA SeededFits ==
    ASSUME CounterWide, NEW T \in SUBSET URIs
    PROVE  IsFiniteSet(T) /\ Cardinality(T) \in Nat /\ Cardinality(T) < Word /\ Word \in Nat
<1>1. IsFiniteSet(URIs) /\ Word \in Nat
  BY TradingAssumption
<1>2. /\ IsFiniteSet(T) /\ Cardinality(T) <= Cardinality(URIs)
      /\ Cardinality(T) \in Nat /\ Cardinality(URIs) \in Nat
  BY <1>1, FS_Subset, FS_CardinalityType
<1> QED
  BY <1>1, <1>2 DEF CounterWide

(* Operations that leave the counts, the proofs and the expirations alone. *)
LEMMA SeededKept ==
    ASSUME SeededCounted, UNCHANGED <<last_budget_time, maintained>>,
           \A s \in Seeders : stats'[s].seeded = stats[s].seeded,
           \A u \in URIs : IsContent(u)' =>
             \/ /\ IsContent(u)
                /\ content'[u].last_proof = content[u].last_proof
                /\ content'[u].key_parts = content[u].key_parts
                /\ Walked(content'[u].expiration) <=> Walked(content[u].expiration)
             \/ ~IsContent(u) /\ \A s \in Seeders : content'[u].last_proof[s] = None,
           \A u \in URIs : IsContent(u) => IsContent(u)'
    PROVE  SeededCounted'
<1>1. ASSUME NEW s \in Seeders PROVE SeededSet(s)' = SeededSet(s)
  <2>1. \A u \in URIs : Walked(content[u].expiration)' <=> Walked(content'[u].expiration)
    BY DEF Walked, Skipped
  <2> QED
    BY <2>1 DEF SeededSet
<1>2. \A s \in Seeders : stats[s].seeded = Cardinality(SeededSet(s))
  BY DEF SeededCounted, SeededSet
<1>3. \A s \in Seeders : stats'[s].seeded = Cardinality(SeededSet(s)')
  BY <1>1, <1>2
<1> QED
  BY <1>3 DEF SeededCounted, SeededSet

(* A first proof is counted.                                               *)
LEMMA ProvedCounted ==
    ASSUME Inv, CounterWide, StatsOK, SeededCounted, NEW s \in Seeders, NEW u \in URIs, IsContent(u),
           ~Walked(content[u].expiration), content[u].last_proof[s] = None, NEW d,
           d # None, d.last_proof = [content[u].last_proof EXCEPT ![s] = now],
           d.key_parts = content[u].key_parts, d.expiration = content[u].expiration,
           content' = [content EXCEPT ![u] = d], UNCHANGED <<last_budget_time, maintained>>,
           \A r \in Seeders : r # s => stats'[r].seeded = stats[r].seeded,
           stats'[s].seeded = Bump(stats[s].seeded)
    PROVE  SeededCounted'
<1>1. \A v \in URIs : content'[v] = IF v = u THEN d ELSE content[v]
  BY DEF Inv, ObjectsOK
<1>2. content[u].last_proof \in [Seeders -> Nat \cup {None}] /\ now \in Nat /\ now # None
  BY ContentOK, NoneAssumption DEF ContentObjects, Inv, ObjectsOK
<1>3. \A r \in Seeders : d.last_proof[r] = IF r = s THEN now ELSE content[u].last_proof[r]
  BY <1>2
<1>11. ASSUME NEW v \in URIs
       PROVE  /\ IsContent(v)' <=> IsContent(v)
              /\ content'[v].expiration = content[v].expiration
              /\ content'[v].key_parts = content[v].key_parts
              /\ \A r \in Seeders : v # u \/ r # s
                   => content'[v].last_proof[r] = content[v].last_proof[r]
  <2>1. CASE v = u
    <3>1. content'[v] = d
      BY <1>1, <2>1
    <3>2. IsContent(v)' /\ IsContent(v)
      BY <2>1, <3>1 DEF IsContent
    <3>3. \A r \in Seeders : r # s => d.last_proof[r] = content[u].last_proof[r]
      BY <1>3
    <3> QED
      BY <2>1, <3>1, <3>2, <3>3
  <2>2. CASE v # u
    <3>1. content'[v] = content[v]
      BY <1>1, <2>2
    <3> QED
      BY <3>1 DEF IsContent
  <2> QED
    BY <2>1, <2>2
<1>12. \A v \in URIs : Walked(content[v].expiration)' <=> Walked(content[v].expiration)
  BY <1>11 DEF Walked, Skipped
<1>4. ASSUME NEW r \in Seeders, r # s PROVE SeededSet(r)' = SeededSet(r)
  BY <1>4, <1>11, <1>12 DEF SeededSet
<1>5. SeededSet(s)' = SeededSet(s) \cup {u} /\ u \notin SeededSet(s)
  <2>1. IsContent(u)' /\ content'[u].last_proof[s] # None
    BY <1>1, <1>2, <1>3 DEF IsContent
  <2>2. \A v \in URIs : v # u => content'[v].last_proof[s] = content[v].last_proof[s]
    BY <1>11
  <2> QED
    BY <1>11, <1>12, <2>1, <2>2 DEF SeededSet
<1>6. \A r \in Seeders : stats[r].seeded = Cardinality(SeededSet(r))
  BY DEF SeededCounted, SeededSet
<1>7. stats'[s].seeded = Cardinality(SeededSet(s) \cup {u})
  <2>1. SeededSet(s) \in SUBSET URIs /\ SeededSet(s) \cup {u} \in SUBSET URIs
    BY DEF SeededSet
  <2>2. /\ Cardinality(SeededSet(s) \cup {u}) < Word /\ IsFiniteSet(SeededSet(s))
        /\ Cardinality(SeededSet(s)) \in Nat /\ Word \in Nat
    BY <2>1, SeededFits
  <2>3. Cardinality(SeededSet(s) \cup {u}) = Cardinality(SeededSet(s)) + 1
    BY <1>5, <2>2, FS_AddElement
  <2>4. \A n \in Nat : n + 1 < Word => (n + 1) % Word = n + 1
    BY <2>2
  <2> QED
    BY <1>6, <2>2, <2>3, <2>4 DEF Bump
<1>8. \A r \in Seeders : stats'[r].seeded = Cardinality(SeededSet(r)')
  BY <1>4, <1>5, <1>6, <1>7
<1> QED
  BY <1>8 DEF SeededCounted, SeededSet

(* Maintenance uncounts what it walks for the first time, and nothing      *)
(* else.                                                                   *)
LEMMA HousekeepingCounted ==
    ASSUME Inv, TimesOK, CounterWide, StatsOK, SeededCounted, NEW t \in Nat, now <= t,
           Housekeeping(t), last_budget_time' = t, maintained' = maintained \cup {t}
    PROVE  SeededCounted'
<1>1. ASSUME NEW u \in URIs
      PROVE  /\ IsContent(u)' <=> IsContent(u)
             /\ IsContent(u) => /\ content'[u].last_proof = content[u].last_proof
                                /\ content'[u].key_parts = content[u].key_parts
                                /\ content'[u].expiration = content[u].expiration
  <2>1. CASE u \in DueContent(t)
    <3> DEFINE d == [content[u] EXCEPT !.publishing_fee_escrow = 0]
    <3>1. content'[u] = d /\ IsContent(u)
      BY <2>1, HousekeepingEffect DEF DueContent
    <3>2. content[u] \in ContentObjects
      BY <3>1, ContentOK
    <3>3. /\ d \in ContentObjects /\ d.last_proof = content[u].last_proof
          /\ d.key_parts = content[u].key_parts /\ d.expiration = content[u].expiration
      BY <3>2 DEF ContentObjects
    <3> HIDE DEF d
    <3> QED
      BY <3>1, <3>3, NoneAssumption DEF IsContent
  <2>2. CASE u \notin DueContent(t)
    BY <2>2, HousekeepingEffect DEF IsContent
  <2> QED
    BY <2>1, <2>2
<1>2. ASSUME NEW s \in Seeders
      PROVE  stats'[s].seeded = Cardinality(SeededSet(s)')
  <2> DEFINE B == SeededSet(s)
             A == SeededSet(s)'
             D == SeededBy(s, DueContent(t))
  <2>1. last_budget_time \in Nat /\ last_budget_time <= t
    BY DEF Inv, ObjectsOK
  <2>2. ASSUME NEW u \in URIs, IsContent(u)
        PROVE  /\ Walked(content[u].expiration)'
                    <=> Walked(content[u].expiration) \/ Due(content[u].expiration, t)
               /\ ~(Walked(content[u].expiration) /\ Due(content[u].expiration, t))
    <3>1. content[u].expiration \in Nat /\ content'[u].expiration = content[u].expiration
      BY <1>1, <2>2, ContentOK DEF ContentObjects
    <3>2. ASSUME NEW x \in Nat
          PROVE  (Walked(x)' <=> Walked(x) \/ Due(x, t)) /\ ~(Walked(x) /\ Due(x, t))
      BY <2>1, WindowWalked DEF TimesOK
    <3> QED
      BY <3>1, <3>2 DEF Walked, Skipped
  <2>3. A = {u \in URIs : /\ IsContent(u) /\ content[u].last_proof[s] # None
                          /\ ~(s \in content[u].key_parts
                                 /\ (Walked(content[u].expiration) \/ Due(content[u].expiration, t)))}
    BY <1>1, <2>2 DEF SeededSet
  <2>4. D = {u \in URIs : /\ IsContent(u) /\ content[u].last_proof[s] # None
                          /\ s \in content[u].key_parts /\ Due(content[u].expiration, t)}
    BY DEF SeededBy, DueContent
  <2>6. A = B \ D /\ D \subseteq B /\ A \in SUBSET URIs /\ B \in SUBSET URIs
    BY <2>2, <2>3, <2>4 DEF SeededSet
  <2>7. /\ Cardinality(A) < Word /\ Cardinality(A) \in Nat
        /\ IsFiniteSet(B) /\ Cardinality(B) \in Nat /\ Word \in Nat \ {0}
    BY <2>6, SeededFits, TradingAssumption
  <2>8. stats[s].seeded = Cardinality(B)
    BY DEF SeededCounted, SeededSet
  <2>9. stats'[s].seeded = (Cardinality(B) - Cardinality(D)) % Word
    <3>1. ResetStats(s) \in StatObjects /\ ResetStats(s).seeded = Cardinality(B)
      BY <2>8, ResetOK
    <3>2. stats'[s] = [ResetStats(s) EXCEPT !.seeded = (@ - Cardinality(D)) % Word]
      BY DEF Housekeeping
    <3> HIDE DEF B, D
    <3> QED
      BY <3>1, <3>2 DEF StatObjects
  <2> HIDE DEF A, B, D
  <2>10. Cardinality(A) = Cardinality(B) - Cardinality(D) /\ Cardinality(D) \in Nat
    <3>1. B \cap D = D /\ IsFiniteSet(D)
      BY <2>6, <2>7, FS_Subset
    <3>2. Cardinality(B \ D) = Cardinality(B) - Cardinality(B \cap D)
      BY <2>7, <3>1, FS_Difference
    <3> QED
      BY <2>6, <3>1, <3>2, FS_CardinalityType
  <2>11. \A n \in Nat : n < Word => n % Word = n
    BY <2>7
  <2>12. stats'[s].seeded = Cardinality(A)
    BY <2>7, <2>9, <2>10, <2>11
  <2> QED
    BY <2>12 DEF A
<1> QED
  BY <1>2 DEF SeededCounted, SeededSet

(* The operations and blocks, one by one.                                  *)
LEMMA SeededStep ==
    ASSUME Inv, TimesOK, CounterWide, StatsOK, SeededCounted, Next
    PROVE  SeededCounted'
<1>0. /\ \A u \in URIs : IsContent(u) => content[u] \in ContentObjects
      /\ \A s \in Seeders : stats[s] \in StatObjects
      /\ now \in Nat /\ last_budget_time \in Nat /\ last_budget_time <= now
  BY ContentOK DEF Inv, ObjectsOK, StatsOK
<1>1. ASSUME NEW s \in Seeders, NEW space \in Spaces, NEW price \in SeederPrices,
             ReadyToPublish(s, space, price)
      PROVE  SeededCounted'
  BY <1>1, SeededKept DEF ReadyToPublish, clock, IsContent
<1>2. ASSUME NEW a \in Authors, NEW u \in URIs, NEW co \in CoAuthorMaps, NEW price \in Prices,
             NEW keys \in KeyPartSets, NEW fee \in Fees, NEW life \in Lifetimes,
             Submit(a, u, co, price, keys, fee, life)
      PROVE  SeededCounted'
  <2>1. /\ \A v \in URIs : v # u => content'[v] = content[v]
        /\ \A s \in Seeders : content'[u].last_proof[s] = None
        /\ ~IsContent(u) /\ UNCHANGED <<last_budget_time, maintained>>
        /\ stats' = [s \in Seeders |->
             IF s \in keys THEN [stats[s] EXCEPT !.requested = Bump(@)] ELSE stats[s]]
    BY <1>2 DEF Submit, clock, Inv, ObjectsOK
  <2>2. \A s \in Seeders : stats'[s].seeded = stats[s].seeded
    BY <1>0, <2>1 DEF StatObjects
  <2> QED
    BY <2>1, <2>2, SeededKept DEF IsContent
<1>3. ASSUME NEW u \in URIs, NEW d, IsContent(u), d # None,
             content' = [content EXCEPT ![u] = d], UNCHANGED <<last_budget_time, maintained, stats>>,
             d.last_proof = content[u].last_proof, d.key_parts = content[u].key_parts,
             \/ d.expiration = content[u].expiration
             \/ ~Walked(d.expiration) /\ ~Walked(content[u].expiration)
      PROVE  SeededCounted'
  <2>1. \A v \in URIs : content'[v] = IF v = u THEN d ELSE content[v]
    BY <1>3 DEF Inv, ObjectsOK
  <2> QED
    BY <1>3, <2>1, SeededKept DEF IsContent
<1>4. ASSUME NEW u \in URIs, NEW co \in CoAuthorMaps, NEW price \in Prices, Resubmit(u, co, price)
      PROVE  SeededCounted'
  <2> DEFINE d == [content[u] EXCEPT !.co_authors = co, !.price = price]
  <2>1. /\ IsContent(u) /\ content' = [content EXCEPT ![u] = d]
        /\ UNCHANGED <<last_budget_time, maintained, stats>>
    BY <1>4 DEF Resubmit, clock
  <2>2. content[u] \in ContentObjects
    BY <1>0, <2>1
  <2>3. /\ d \in ContentObjects /\ d.last_proof = content[u].last_proof
        /\ d.key_parts = content[u].key_parts /\ d.expiration = content[u].expiration
    BY <2>2 DEF ContentObjects
  <2>4. d # None
    BY <2>3, NoneAssumption
  <2> HIDE DEF d
  <2> QED
    BY <1>3, <2>1, <2>3, <2>4
<1>5. ASSUME NEW u \in URIs, Cancel(u)
      PROVE  SeededCounted'
  <2> DEFINE e == Lesser(content[u].expiration, now + Day)
             d == [content[u] EXCEPT !.is_blocked = TRUE, !.expiration = e]
  <2>1. /\ IsContent(u) /\ content' = [content EXCEPT ![u] = d]
        /\ UNCHANGED <<last_budget_time, maintained, stats>> /\ content[u].expiration > now
    BY <1>5 DEF Cancel, clock
  <2>2. content[u] \in ContentObjects
    BY <1>0, <2>1
  <2>3. e \in Nat /\ ~Walked(e) /\ ~Walked(content[u].expiration)
    <3>1. /\ e \in Nat /\ e > last_budget_time
          /\ content[u].expiration \in Nat /\ content[u].expiration > last_budget_time
      BY <1>0, <2>1, <2>2, TradingAssumption DEF Lesser, ContentObjects
    <3> HIDE DEF e
    <3> QED
      BY <1>0, <3>1, NotYetWalked
  <2> HIDE DEF e
  <2>4. /\ d \in ContentObjects /\ d.last_proof = content[u].last_proof
        /\ d.key_parts = content[u].key_parts /\ d.expiration = e
    BY <2>2, <2>3 DEF ContentObjects
  <2> HIDE DEF d
  <2> QED
    BY <1>3, <2>1, <2>3, <2>4, NoneAssumption
<1>6. ASSUME NEW u \in URIs, IsContent(u),
             content' = [content EXCEPT ![u] = Sold(u)] \/ UNCHANGED content,
             UNCHANGED <<last_budget_time, maintained>>,
             \A s \in Seeders : stats'[s].seeded = stats[s].seeded
      PROVE  SeededCounted'
  <2>1. content[u] \in ContentObjects
    BY <1>0, <1>6
  <2>2. /\ Sold(u) \in ContentObjects /\ Sold(u).last_proof = content[u].last_proof
        /\ Sold(u).key_parts = content[u].key_parts /\ Sold(u).expiration = content[u].expiration
    BY <2>1 DEF ContentObjects, Sold
  <2>3. \A v \in URIs : content'[v] = content[v] \/ (v = u /\ content'[v] = Sold(u))
    <3>1. CASE UNCHANGED content
      BY <3>1
    <3>2. CASE content' = [content EXCEPT ![u] = Sold(u)]
      BY <3>2 DEF Inv, ObjectsOK
    <3> QED
      BY <1>6, <3>1, <3>2
  <2>4. Sold(u) # None
    BY <2>2, NoneAssumption
  <2> DEFINE d == Sold(u)
  <2> HIDE DEF d
  <2> QED
    BY <1>6, <2>2, <2>3, <2>4, SeededKept DEF IsContent, d
<1>7. ASSUME NEW c \in Consumers, NEW u \in URIs, NEW price \in Prices, Buy(c, u, price)
      PROVE  SeededCounted'
  <2>1. /\ IsContent(u) /\ UNCHANGED <<last_budget_time, maintained>>
        /\ content' = [content EXCEPT ![u] = Sold(u)] \/ UNCHANGED content
        /\ stats' = [s \in Seeders |-> IF s \in content[u].key_parts
             THEN [stats[s] EXCEPT !.missed = Bump(@)] ELSE stats[s]]
    BY <1>7 DEF Buy, clock
  <2>2. \A s \in Seeders : stats'[s].seeded = stats[s].seeded
    BY <1>0, <2>1 DEF StatObjects
  <2> QED
    BY <1>6, <2>1, <2>2
<1>8. ASSUME NEW s \in Seeders, NEW p \in Purchases, DeliverKeys(s, p)
      PROVE  SeededCounted'
  <2> DEFINE u == p[2]
  <2>1. u \in URIs /\ IsContent(u)
    BY <1>8 DEF DeliverKeys, Inv, PurchasesOfContent, Purchases
  <2>2. /\ UNCHANGED <<last_budget_time, maintained>>
        /\ content' = [content EXCEPT ![u] = Sold(u)] \/ UNCHANGED content
    BY <1>8 DEF DeliverKeys, clock
  <2>3. \A r \in Seeders : stats'[r].seeded = stats[r].seeded
    BY <1>0, <1>8 DEF DeliverKeys, StatsOK, StatObjects
  <2> QED
    BY <1>6, <2>1, <2>2, <2>3
<1>9. ASSUME NEW s \in Seeders, NEW u \in URIs, ProofOfCustody(s, u)
      PROVE  SeededCounted'
  <2> DEFINE c == content[u]
             n == Reward(c, s)
             q == Proved(c, s)
             paid == [q EXCEPT !.publishing_fee_escrow = @ - n]
  <2>1. /\ IsContent(u) /\ UNCHANGED <<last_budget_time, maintained>> /\ c.key_parts # {} /\ c.expiration > now
        /\ \/ /\ c.last_proof[s] = None /\ content' = [content EXCEPT ![u] = q]
              /\ stats' = [stats EXCEPT ![s].seeded = Bump(@),
                                        ![s].requested = IF @ > 0 THEN Drop(@) ELSE @]
           \/ /\ c.last_proof[s] # None /\ UNCHANGED stats
              /\ s \in DOMAIN c.seeder_price
              /\ content' = [content EXCEPT ![u] = paid]
    BY <1>9 DEF ProofOfCustody, clock
  <2>2. c \in ContentObjects /\ c.publishing_fee_escrow >= 0
    BY <2>1, ContentOK
  <2>3. /\ q \in ContentObjects /\ q.last_proof = [c.last_proof EXCEPT ![s] = now]
        /\ q.key_parts = c.key_parts /\ q.expiration = c.expiration
    BY <1>0, <2>2 DEF ContentObjects, Proved
  <2>4. ~Walked(c.expiration)
    BY <1>0, <2>1, <2>2, NotYetWalked DEF ContentObjects
  <2>5. CASE /\ c.last_proof[s] = None /\ content' = [content EXCEPT ![u] = q]
             /\ stats' = [stats EXCEPT ![s].seeded = Bump(@),
                                       ![s].requested = IF @ > 0 THEN Drop(@) ELSE @]
    <3>1. /\ \A r \in Seeders : r # s => stats'[r].seeded = stats[r].seeded
          /\ stats'[s].seeded = Bump(stats[s].seeded)
      BY <1>0, <2>5 DEF StatsOK, StatObjects
    <3> HIDE DEF q
    <3> QED
      BY <2>1, <2>3, <2>4, <2>5, <3>1, NoneAssumption, ProvedCounted
  <2>6. CASE /\ c.last_proof[s] # None /\ UNCHANGED stats
             /\ s \in DOMAIN c.seeder_price
             /\ content' = [content EXCEPT ![u] = paid]
    <3>1. n \in Int
      BY <1>0, <2>2, <2>6, RewardBounded
    <3> HIDE DEF n
    <3>2. /\ paid \in ContentObjects /\ paid.last_proof = q.last_proof
          /\ paid.key_parts = q.key_parts /\ paid.expiration = q.expiration
      <4> HIDE DEF q
      <4> QED
        BY <2>3, <3>1 DEF ContentObjects
    <3>3. c.last_proof \in [Seeders -> Nat \cup {None}]
      BY <2>2 DEF ContentObjects
    <3> HIDE DEF paid, q
    <3>4. \A v \in URIs : content'[v] = IF v = u THEN paid ELSE content[v]
      BY <2>6 DEF Inv, ObjectsOK
    <3>5. paid # None /\ now # None
      BY <1>0, <3>2, NoneAssumption
    <3>6. \A r \in Seeders : paid.last_proof[r] # None <=> c.last_proof[r] # None
      BY <2>3, <2>6, <3>2, <3>3, <3>5
    <3>11. ASSUME NEW v \in URIs
           PROVE  /\ IsContent(v)' <=> IsContent(v)
                  /\ content'[v].expiration = content[v].expiration
                  /\ content'[v].key_parts = content[v].key_parts
                  /\ \A r \in Seeders :
                       content'[v].last_proof[r] # None <=> content[v].last_proof[r] # None
      <4>1. CASE v = u
        BY <2>1, <2>3, <3>2, <3>4, <3>5, <3>6, <4>1 DEF IsContent
      <4>2. CASE v # u
        <5>1. content'[v] = content[v]
          BY <3>4, <4>2
        <5> QED
          BY <5>1 DEF IsContent
      <4> QED
        BY <4>1, <4>2
    <3>12. \A v \in URIs : Walked(content[v].expiration)' <=> Walked(content[v].expiration)
      BY <2>1, <3>11 DEF Walked, Skipped
    <3>7. ASSUME NEW r \in Seeders PROVE SeededSet(r)' = SeededSet(r)
      BY <3>11, <3>12 DEF SeededSet
    <3>8. \A r \in Seeders : stats'[r].seeded = Cardinality(SeededSet(r)')
      BY <2>6, <3>7 DEF SeededCounted, SeededSet
    <3> QED
      BY <3>8 DEF SeededCounted, SeededSet
  <2> QED
    BY <2>1, <2>5, <2>6
<1>10. ASSUME NEW p \in Purchases, NEW r \in Ratings, LeaveRating(p, r)
       PROVE  SeededCounted'
  <2> DEFINE u == p[2]
             n == content[u].num_of_ratings + 1
             avg == Averaged(content[u], r)
             d == [content[u] EXCEPT !.num_of_ratings = n, !.AVG_rating = avg]
  <2>1. u \in URIs /\ IsContent(u)
    BY <1>10 DEF LeaveRating, Inv, PurchasesOfContent, Purchases
  <2>2. content' = [content EXCEPT ![u] = d] /\ UNCHANGED <<last_budget_time, maintained, stats>>
    BY <1>10 DEF LeaveRating, clock, Averaged
  <2>3. content[u] \in ContentObjects
    BY <1>0, <2>1
  <2>4. n \in Nat /\ avg \in Int
    <3>1. content[u].AVG_rating \in Int /\ content[u].num_of_ratings \in Nat /\ r \in Nat
      BY <2>3, TradingAssumption DEF ContentObjects
    <3> QED
      BY <3>1 DEF Averaged
  <2> HIDE DEF n, avg
  <2>5. /\ d \in ContentObjects /\ d.last_proof = content[u].last_proof
        /\ d.key_parts = content[u].key_parts /\ d.expiration = content[u].expiration
    BY <2>3, <2>4 DEF ContentObjects
  <2>6. d # None
    BY <2>5, NoneAssumption
  <2> HIDE DEF d, u
  <2> QED
    BY <1>3, <2>1, <2>2, <2>5, <2>6
<1>11. ASSUME NEW slots \in 1 .. MaxSlots, Block(slots)
       PROVE  SeededCounted'
  <2> DEFINE t == now + (slots + SkippedSlots) * BlockInterval
  <2>1. t \in Nat /\ now <= t
    BY BlockTime DEF Inv, ObjectsOK
  <2> HIDE DEF t
  <2>2. CASE UNCHANGED <<last_budget_time, maintained, content, stats>>
    BY <2>2, SeededKept DEF IsContent
  <2>3. CASE Housekeeping(t) /\ last_budget_time' = t /\ maintained' = maintained \cup {t}
    BY <2>1, <2>3, HousekeepingCounted
  <2> QED
    BY <1>11, <2>2, <2>3 DEF Block, t
<1> QED
  BY <1>1, <1>2, <1>4, <1>5, <1>7, <1>8, <1>9, <1>10, <1>11 DEF Next

(* The counters stay in their words.                                       *)
THEOREM CountersInWords == Spec => []StatsOK
<1>1. Init => StatsOK
  BY CounterOK DEF Init, StatsOK, StatObjects, NoStats
<1>2. StatsOK /\ [Next]_vars => StatsOK'
  BY StatsStep DEF vars, StatsOK
<1> QED
  BY <1>1, <1>2, PTL DEF Spec

(* A seeder's count of seeded contents is the number of contents with a    *)
(* proof from it, each counted once and uncounted once, when               *)
(* decent_housekeeping walks it and the seeder is one of those chosen to   *)
(* store it.  The counter is wide enough for all contents.                 *)
THEOREM SeededTheorem ==
    ASSUME CounterWide
    PROVE  Spec => []SeededCounted
<1>1. Init => SeededCounted
  <2> SUFFICES ASSUME Init PROVE SeededCounted
    OBVIOUS
  <2>1. \A u \in URIs : ~IsContent(u)
    BY DEF Init, IsContent
  <2>2. \A s \in Seeders : stats[s].seeded = 0 /\ SeededSet(s) = {}
    BY <2>1 DEF Init, NoStats, SeededSet
  <2>3. Cardinality({}) = 0
    BY FS_EmptySet
  <2>4. \A s \in Seeders : stats[s].seeded = Cardinality(SeededSet(s))
    BY <2>2, <2>3
  <2> QED
    BY <2>4 DEF SeededCounted, SeededSet
<1>2. Inv /\ TimesOK /\ StatsOK /\ SeededCounted /\ [Next]_vars => SeededCounted'
  <2> SUFFICES ASSUME Inv, TimesOK, StatsOK, SeededCounted, [Next]_vars PROVE SeededCounted'
    OBVIOUS
  <2>1. CASE UNCHANGED vars
    BY <2>1, SeededKept DEF vars, IsContent
  <2> QED
    BY <2>1, CounterWide, SeededStep
<1> QED
  BY <1>1, <1>2, TimesInvariance, Invariance, CountersInWords, PTL DEF Spec

-----------------------------------------------------------------------------
(* Types.  A payout is made of natural numbers because the splits of a     *)
(* content never add up to more than the whole.                            *)
LEMMA SplitsBound ==
    ASSUME NEW author, NEW co \in CoAuthorMaps, SplitsValid(author, co)
    PROVE  /\ DOMAIN co \subseteq Accounts /\ IsFiniteSet(DOMAIN co)
           /\ \A a \in DOMAIN co : co[a] \in Nat
           /\ SumFunctionOnSet(co, DOMAIN co) \in Int /\ SumFunctionOnSet(co, DOMAIN co) <= 10000
<1>1. DOMAIN co \subseteq Accounts /\ \A a \in DOMAIN co : co[a] \in Nat
  BY TradingAssumption
<1>2. IsFiniteSet(DOMAIN co)
  BY <1>1, TradingAssumption, FS_Subset
<1>3. SumFunctionOnSet(co, DOMAIN co) \in Int
  BY <1>1, <1>2, SumType DEF IntValued
<1>4. DOMAIN co = {} => SumFunctionOnSet(co, DOMAIN co) = 0
  BY SumEmpty
<1> QED
  BY <1>1, <1>2, <1>3, <1>4 DEF SplitsValid

(* The co-authors get no more than the amount.                             *)
LEMMA SharedBound ==
    ASSUME NEW author, NEW co \in CoAuthorMaps, SplitsValid(author, co), NEW amount \in Nat
    PROVE  /\ Shared(amount, co) \in Int /\ Shared(amount, co) <= amount
           /\ \A a \in DOMAIN co : Share(amount, co[a]) \in Nat
<1> DEFINE S == DOMAIN co
           share == [a \in S |-> Share(amount, co[a])]
           tens == [a \in S |-> 10000 * share[a]]
           parts == [a \in S |-> amount * co[a]]
<1>1. /\ IsFiniteSet(S) /\ \A a \in S : co[a] \in Nat
      /\ SumFunctionOnSet(co, S) \in Int /\ SumFunctionOnSet(co, S) <= 10000
  BY SplitsBound
<1>2. ASSUME NEW a \in S
      PROVE  /\ share[a] \in Nat /\ Share(amount, co[a]) \in Nat
             /\ 10000 * share[a] <= amount * co[a] /\ amount * co[a] \in Int
  <2>1. amount * co[a] \in Nat
    BY <1>1
  <2> DEFINE n == amount * co[a]
  <2>2. share[a] = n \div 10000 /\ Share(amount, co[a]) = n \div 10000
    BY DEF Share
  <2> HIDE DEF n, share
  <2>3. n \in Nat
    BY <2>1 DEF n
  <2>4. n \div 10000 \in Nat /\ 10000 * (n \div 10000) <= n
    BY <2>3, QuotientBound
  <2> QED
    BY <2>2, <2>3, <2>4 DEF n
<1>3. /\ IntValued(share, S) /\ IntValued(tens, S) /\ IntValued(parts, S) /\ IntValued(co, S)
      /\ \A a \in S : tens[a] = 10000 * share[a] /\ parts[a] = amount * co[a]
      /\ \A a \in S : tens[a] <= parts[a]
  <2>1. \A a \in S : share[a] \in Int
    BY <1>2
  <2>2. \A a \in S : tens[a] = 10000 * share[a] /\ parts[a] = amount * co[a]
    OBVIOUS
  <2> HIDE DEF share, tens, parts
  <2>3. \A a \in S : tens[a] \in Int /\ parts[a] \in Int /\ tens[a] <= parts[a]
    BY <1>2, <2>1, <2>2
  <2> QED
    BY <1>1, <2>1, <2>2, <2>3 DEF IntValued
<1>4. Shared(amount, co) = SumFunctionOnSet(share, S)
  BY DEF Shared
<1> HIDE DEF S, share, tens, parts
<1>5. SumFunctionOnSet(share, S) \in Int
  BY <1>1, <1>3, SumType
<1>6. SumFunctionOnSet(tens, S) = 10000 * SumFunctionOnSet(share, S)
  BY <1>1, <1>3, SumScale
<1>7. SumFunctionOnSet(parts, S) = amount * SumFunctionOnSet(co, S)
  BY <1>1, <1>3, SumScale
<1>8. SumFunctionOnSet(tens, S) <= SumFunctionOnSet(parts, S)
  BY <1>1, <1>3, SumMonotone
<1>9. amount * SumFunctionOnSet(co, S) <= amount * 10000 /\ amount * SumFunctionOnSet(co, S) \in Int
  BY <1>1, TimesMonotone
<1>10. 10000 * SumFunctionOnSet(share, S) <= 10000 * amount
  BY <1>5, <1>6, <1>7, <1>8, <1>9
<1>11. SumFunctionOnSet(share, S) <= amount
  BY <1>5, <1>10
<1> QED
  BY <1>2, <1>4, <1>5, <1>11 DEF S

(* A payout takes nothing from anybody.                                    *)
LEMMA PayoutNat ==
    ASSUME NEW bal \in [Accounts -> Nat], NEW amount \in Nat, NEW c \in ContentObjects,
           SplitsValid(c.author, c.co_authors)
    PROVE  Payout(bal, amount, c) \in [Accounts -> Nat]
<1> DEFINE co == c.co_authors
           rest == amount - Shared(amount, co)
<1>1. /\ co \in CoAuthorMaps /\ SplitsValid(c.author, co)
  BY DEF ContentObjects
<1>2. rest \in Nat /\ \A a \in DOMAIN co : Share(amount, co[a]) \in Nat
  <2>1. Shared(amount, co) \in Int /\ Shared(amount, co) <= amount
    BY <1>1, SharedBound
  <2> QED
    BY <1>1, <2>1, SharedBound
<1>3. Payout(bal, amount, c) =
        [a \in Accounts |-> bal[a] + (IF a \in DOMAIN co THEN Share(amount, co[a]) ELSE 0)
                                   + (IF a = c.author THEN rest ELSE 0)]
  BY DEF Payout
<1> HIDE DEF co, rest
<1> QED
  BY <1>2, <1>3

(* What the types add to the invariants above.                             *)
MoreTypes ==
    /\ next_maintenance_time \in Int /\ next_maintenance_time > now
    /\ balance \in [Accounts -> Nat]
    /\ \A p \in Purchases : IsBuying(p) =>
         buying[p].seeders_answered \subseteq content[p[2]].key_parts

(* What the operations leave alone.                                        *)
LEMMA Untouched ==
    ASSUME Next
    PROVE  /\ UNCHANGED clock \/ \E slots \in 1 .. MaxSlots : Block(slots)
           /\ \/ UNCHANGED buying
              \/ \E c \in Consumers, u \in URIs, price \in Prices : Buy(c, u, price)
              \/ \E s \in Seeders, p \in Purchases : DeliverKeys(s, p)
              \/ \E p \in Purchases, r \in Ratings : LeaveRating(p, r)
              \/ \E slots \in 1 .. MaxSlots : Block(slots)
<1>1. CASE \E s \in Seeders, space \in Spaces, price \in SeederPrices :
             ReadyToPublish(s, space, price)
  BY <1>1 DEF ReadyToPublish
<1>2. CASE \E a \in Authors, u \in URIs, co \in CoAuthorMaps, price \in Prices,
              keys \in KeyPartSets, fee \in Fees, life \in Lifetimes :
             Submit(a, u, co, price, keys, fee, life)
  BY <1>2 DEF Submit
<1>3. CASE \E u \in URIs, co \in CoAuthorMaps, price \in Prices : Resubmit(u, co, price)
  BY <1>3 DEF Resubmit
<1>4. CASE \E u \in URIs : Cancel(u)
  BY <1>4 DEF Cancel
<1>5. CASE \E c \in Consumers, u \in URIs, price \in Prices : Buy(c, u, price)
  <2>1. UNCHANGED clock
    BY <1>5 DEF Buy
  <2> QED
    BY <1>5, <2>1
<1>6. CASE \E s \in Seeders, p \in Purchases : DeliverKeys(s, p)
  <2>1. UNCHANGED clock
    BY <1>6 DEF DeliverKeys
  <2> QED
    BY <1>6, <2>1
<1>7. CASE \E s \in Seeders, u \in URIs : ProofOfCustody(s, u)
  BY <1>7 DEF ProofOfCustody
<1>8. CASE \E p \in Purchases, r \in Ratings : LeaveRating(p, r)
  <2>1. UNCHANGED clock
    BY <1>8 DEF LeaveRating
  <2> QED
    BY <1>8, <2>1
<1>9. CASE \E slots \in 1 .. MaxSlots : Block(slots)
  BY <1>9
<1> QED
  BY <1>1, <1>2, <1>3, <1>4, <1>5, <1>6, <1>7, <1>8, <1>9 DEF Next

(* The seeders of a content never change.                                  *)
LEMMA KeyPartsKept ==
    ASSUME Inv, Next, NEW u \in URIs, IsContent(u)
    PROVE  content'[u].key_parts = content[u].key_parts
<1>1. content[u] \in ContentObjects
  BY ContentOK
<1>2. \A v \in URIs : DOMAIN content = URIs
  BY DEF Inv, ObjectsOK
<1>3. \/ content'[u] = content[u]
      \/ \E co, price : content'[u] = [content[u] EXCEPT !.co_authors = co, !.price = price]
      \/ \E e : content'[u] = [content[u] EXCEPT !.is_blocked = TRUE, !.expiration = e]
      \/ content'[u] = Sold(u)
      \/ \E s \in Seeders : content'[u] = Proved(content[u], s)
      \/ \E s \in Seeders : \E n : content'[u] =
           [Proved(content[u], s) EXCEPT !.publishing_fee_escrow = n]
      \/ \E n, avg : content'[u] = [content[u] EXCEPT !.num_of_ratings = n, !.AVG_rating = avg]
      \/ content'[u] = [content[u] EXCEPT !.publishing_fee_escrow = 0]
  <2>1. ASSUME NEW s \in Seeders, NEW space \in Spaces, NEW price \in SeederPrices,
               ReadyToPublish(s, space, price)
        PROVE  content'[u] = content[u]
    BY <2>1 DEF ReadyToPublish
  <2>2. ASSUME NEW a \in Authors, NEW v \in URIs, NEW co \in CoAuthorMaps, NEW price \in Prices,
               NEW keys \in KeyPartSets, NEW fee \in Fees, NEW life \in Lifetimes,
               Submit(a, v, co, price, keys, fee, life)
        PROVE  content'[u] = content[u]
    BY <1>2, <2>2 DEF Submit
  <2>3. ASSUME NEW v \in URIs, NEW co \in CoAuthorMaps, NEW price \in Prices, Resubmit(v, co, price)
        PROVE  \/ content'[u] = content[u]
               \/ content'[u] = [content[u] EXCEPT !.co_authors = co, !.price = price]
    BY <1>2, <2>3 DEF Resubmit
  <2>4. ASSUME NEW v \in URIs, Cancel(v)
        PROVE  \/ content'[u] = content[u]
               \/ \E e : content'[u] = [content[u] EXCEPT !.is_blocked = TRUE, !.expiration = e]
    BY <1>2, <2>4 DEF Cancel
  <2>5. ASSUME NEW c \in Consumers, NEW v \in URIs, NEW price \in Prices, Buy(c, v, price)
        PROVE  content'[u] = content[u] \/ content'[u] = Sold(u)
    BY <1>2, <2>5 DEF Buy
  <2>6. ASSUME NEW s \in Seeders, NEW p \in Purchases, DeliverKeys(s, p)
        PROVE  content'[u] = content[u] \/ content'[u] = Sold(u)
    BY <1>2, <2>6 DEF DeliverKeys
  <2>7. ASSUME NEW s \in Seeders, NEW v \in URIs, ProofOfCustody(s, v)
        PROVE  \/ content'[u] = content[u]
               \/ content'[u] = Proved(content[u], s)
               \/ \E n : content'[u] = [Proved(content[u], s) EXCEPT !.publishing_fee_escrow = n]
    <3> DEFINE c == content[v]
               paid == [Proved(c, s) EXCEPT !.publishing_fee_escrow = @ - Reward(c, s)]
    <3>1. \/ content' = [content EXCEPT ![v] = Proved(c, s)]
          \/ content' = [content EXCEPT ![v] = paid]
      BY <2>7 DEF ProofOfCustody
    <3>2. \E n : paid = [Proved(c, s) EXCEPT !.publishing_fee_escrow = n]
      OBVIOUS
    <3> HIDE DEF paid
    <3> QED
      BY <1>2, <3>1, <3>2
  <2>8. ASSUME NEW p \in Purchases, NEW r \in Ratings, LeaveRating(p, r)
        PROVE  \/ content'[u] = content[u]
               \/ \E n, avg : content'[u] = [content[u] EXCEPT !.num_of_ratings = n, !.AVG_rating = avg]
    <3> DEFINE c == content[p[2]]
               d == [c EXCEPT !.num_of_ratings = c.num_of_ratings + 1, !.AVG_rating = Averaged(c, r)]
    <3>1. content' = [content EXCEPT ![p[2]] = d]
      BY <2>8 DEF LeaveRating, Averaged
    <3>2. \E n, avg : d = [c EXCEPT !.num_of_ratings = n, !.AVG_rating = avg]
      OBVIOUS
    <3> HIDE DEF d
    <3> QED
      BY <1>2, <3>1, <3>2
  <2>9. ASSUME NEW slots \in 1 .. MaxSlots, Block(slots)
        PROVE  \/ content'[u] = content[u]
               \/ content'[u] = [content[u] EXCEPT !.publishing_fee_escrow = 0]
    <3> DEFINE t == now + (slots + SkippedSlots) * BlockInterval
    <3>1. t \in Nat
      BY BlockTime DEF Inv, ObjectsOK
    <3>2. UNCHANGED content \/ Housekeeping(t)
      BY <2>9 DEF Block
    <3> HIDE DEF t
    <3> QED
      BY <3>1, <3>2, HousekeepingEffect
  <2>10. CASE \E s \in Seeders, space \in Spaces, price \in SeederPrices :
                ReadyToPublish(s, space, price)
    BY <2>1, <2>10
  <2>11. CASE \E a \in Authors, v \in URIs, co \in CoAuthorMaps, price \in Prices,
                 keys \in KeyPartSets, fee \in Fees, life \in Lifetimes :
                Submit(a, v, co, price, keys, fee, life)
    BY <2>2, <2>11
  <2>12. CASE \E v \in URIs, co \in CoAuthorMaps, price \in Prices : Resubmit(v, co, price)
    <3>1. PICK v \in URIs, authors \in CoAuthorMaps, cost \in Prices : Resubmit(v, authors, cost)
      BY <2>12
    <3>2. \/ content'[u] = content[u]
          \/ content'[u] = [content[u] EXCEPT !.co_authors = authors, !.price = cost]
      BY <2>3, <3>1
    <3> QED
      BY <3>2
  <2>13. CASE \E v \in URIs : Cancel(v)
    BY <2>4, <2>13
  <2>14. CASE \/ \E c \in Consumers, v \in URIs, price \in Prices : Buy(c, v, price)
              \/ \E s \in Seeders, p \in Purchases : DeliverKeys(s, p)
    BY <2>5, <2>6, <2>14
  <2>15. CASE \E s \in Seeders, v \in URIs : ProofOfCustody(s, v)
    BY <2>7, <2>15
  <2>16. CASE \E p \in Purchases, r \in Ratings : LeaveRating(p, r)
    BY <2>8, <2>16
  <2>17. CASE \E slots \in 1 .. MaxSlots : Block(slots)
    BY <2>9, <2>17
  <2> QED
    BY <2>10, <2>11, <2>12, <2>13, <2>14, <2>15, <2>16, <2>17 DEF Next
<1>4. \A s \in Seeders : Proved(content[u], s).key_parts = content[u].key_parts
  BY <1>1 DEF Proved, ContentObjects
<1>5. \A s \in Seeders : \A n :
        [Proved(content[u], s) EXCEPT !.publishing_fee_escrow = n].key_parts = content[u].key_parts
  BY <1>1 DEF Proved, ContentObjects
<1>6. Sold(u).key_parts = content[u].key_parts
  BY <1>1 DEF Sold, ContentObjects
<1> QED
  BY <1>1, <1>3, <1>4, <1>5, <1>6 DEF ContentObjects

(* Answers come from the seeders of the content.                           *)
LEMMA AnswersStep ==
    ASSUME Inv, MoreTypes, Next, NEW p \in Purchases, IsBuying(p)'
    PROVE  buying'[p].seeders_answered \subseteq content[p[2]].key_parts
<1>1. IsBuying(p) => buying[p].seeders_answered \subseteq content[p[2]].key_parts
                       /\ buying[p] \in BuyingObjects
  BY DEF MoreTypes, Inv, ObjectsOK, IsBuying
<1>2. DOMAIN buying = Purchases
  BY DEF Inv, ObjectsOK
<1>3. CASE UNCHANGED buying
  BY <1>1, <1>3 DEF IsBuying
<1>4. ASSUME NEW c \in Consumers, NEW u \in URIs, NEW price \in Prices, Buy(c, u, price)
      PROVE  buying'[p].seeders_answered \subseteq content[p[2]].key_parts
  <2>1. p # <<c, u>> => buying'[p] = buying[p]
    BY <1>2, <1>4 DEF Buy
  <2>2. p = <<c, u>> => buying'[p].seeders_answered = {}
    BY <1>2, <1>4 DEF Buy
  <2> QED
    BY <1>1, <2>1, <2>2 DEF IsBuying
<1>5. ASSUME NEW s \in Seeders, NEW q \in Purchases, DeliverKeys(s, q)
      PROVE  buying'[p].seeders_answered \subseteq content[p[2]].key_parts
  <2>1. q # p => buying'[p] = buying[p]
    BY <1>2, <1>5 DEF DeliverKeys
  <2>2. CASE q = p
    <3> DEFINE noted == [buying[p] EXCEPT !.seeders_answered = Answered(p, s)]
    <3>1. IsBuying(p) /\ s \in content[p[2]].key_parts
      BY <1>5, <2>2 DEF DeliverKeys
    <3>2. \/ buying'[p] = noted
          \/ buying'[p] = [noted EXCEPT !.price = 0, !.delivered = TRUE]
          \/ buying'[p] = [noted EXCEPT !.price = 0, !.expired = TRUE]
      BY <1>2, <1>5, <2>2 DEF DeliverKeys
    <3>3. buying'[p].seeders_answered = Answered(p, s)
      BY <1>1, <3>1, <3>2 DEF BuyingObjects
    <3> QED
      BY <1>1, <3>1, <3>3 DEF Answered
  <2> QED
    BY <1>1, <2>1, <2>2 DEF IsBuying
<1>6. ASSUME NEW q \in Purchases, NEW r \in Ratings, LeaveRating(q, r)
      PROVE  buying'[p].seeders_answered \subseteq content[p[2]].key_parts
  <2>1. buying' = [buying EXCEPT ![q] = [buying[q] EXCEPT !.rated = TRUE]] /\ IsBuying(q)
    BY <1>6 DEF LeaveRating
  <2>2. buying'[p] = buying[p] \/ (q = p /\ buying'[p] = [buying[p] EXCEPT !.rated = TRUE])
    BY <1>2, <2>1
  <2> QED
    BY <1>1, <2>1, <2>2 DEF IsBuying, BuyingObjects
<1>7. ASSUME NEW slots \in 1 .. MaxSlots, Block(slots)
      PROVE  buying'[p].seeders_answered \subseteq content[p[2]].key_parts
  <2> DEFINE t == now + (slots + SkippedSlots) * BlockInterval
  <2>1. t \in Nat
    BY BlockTime DEF Inv, ObjectsOK
  <2>2. UNCHANGED buying \/ Housekeeping(t)
    BY <1>7 DEF Block
  <2> HIDE DEF t
  <2>3. CASE Housekeeping(t)
    <3>1. \/ buying'[p] = buying[p]
          \/ IsBuying(p) /\ buying'[p] = [buying[p] EXCEPT !.price = 0, !.expired = TRUE]
      BY <2>1, <2>3, HousekeepingEffect DEF DueBuying
    <3> QED
      BY <1>1, <3>1 DEF IsBuying, BuyingObjects
  <2> QED
    BY <1>3, <2>2, <2>3
<1> QED
  BY <1>3, <1>4, <1>5, <1>6, <1>7, Untouched

(* No balance is overdrawn.                                                *)
LEMMA BalancesStep ==
    ASSUME Inv, ContentsSound, MoreTypes, Next
    PROVE  balance' \in [Accounts -> Nat]
<1>0. /\ balance \in [Accounts -> Nat] /\ now \in Nat
      /\ \A u \in URIs : IsContent(u) =>
           /\ content[u] \in ContentObjects /\ content[u].publishing_fee_escrow >= 0
           /\ ContentSound(content[u], now)
           /\ SplitsValid(content[u].author, content[u].co_authors)
      /\ \A p \in Purchases : IsBuying(p) => buying[p] \in BuyingObjects
  BY ContentOK DEF MoreTypes, ContentsSound, ContentSound, Inv, ObjectsOK, IsBuying
<1>1. ASSUME NEW a \in Authors, NEW u \in URIs, NEW co \in CoAuthorMaps, NEW price \in Prices,
             NEW keys \in KeyPartSets, NEW fee \in Fees, NEW life \in Lifetimes,
             Submit(a, u, co, price, keys, fee, life)
      PROVE  balance' \in [Accounts -> Nat]
  <2>1. /\ a \in Accounts /\ fee \in Nat /\ balance[a] >= fee
        /\ balance' = [balance EXCEPT ![a] = @ - fee]
    BY <1>1, TradingAssumption DEF Submit
  <2> QED
    BY <1>0, <2>1
<1>2. ASSUME NEW c \in Consumers, NEW u \in URIs, NEW price \in Prices, Buy(c, u, price)
      PROVE  balance' \in [Accounts -> Nat]
  <2> DEFINE paid == IF c \in Subscribers THEN 0 ELSE price
             debited == [balance EXCEPT ![c] = @ - paid]
  <2>1. c \in Accounts /\ price \in Nat /\ price <= balance[c] /\ IsContent(u)
    BY <1>2, TradingAssumption DEF Buy
  <2>2. debited \in [Accounts -> Nat] /\ paid \in Nat
    BY <1>0, <2>1
  <2>3. balance' = debited \/ balance' = Payout(debited, paid, content[u])
    BY <1>2 DEF Buy
  <2> HIDE DEF debited, paid
  <2>4. Payout(debited, paid, content[u]) \in [Accounts -> Nat]
    BY <1>0, <2>1, <2>2, PayoutNat
  <2> QED
    BY <2>2, <2>3, <2>4
<1>3. ASSUME NEW s \in Seeders, NEW p \in Purchases, DeliverKeys(s, p)
      PROVE  balance' \in [Accounts -> Nat]
  <2> DEFINE u == p[2]
             b == buying[p]
             a == p[1]
  <2>1. u \in URIs /\ IsContent(u) /\ IsBuying(p) /\ a \in Accounts
    BY <1>3, TradingAssumption DEF DeliverKeys, Inv, PurchasesOfContent, Purchases
  <2>2. b.price \in Nat /\ b.paid_price \in Nat
    BY <1>0, <2>1 DEF BuyingObjects
  <2>3. \/ UNCHANGED balance \/ balance' = Payout(balance, b.paid_price, content[u])
        \/ balance' = [balance EXCEPT ![a] = @ + b.price]
    BY <1>3 DEF DeliverKeys
  <2> HIDE DEF a, b, u
  <2>4. Payout(balance, b.paid_price, content[u]) \in [Accounts -> Nat]
    BY <1>0, <2>1, <2>2, PayoutNat
  <2>5. [balance EXCEPT ![a] = @ + b.price] \in [Accounts -> Nat]
    BY <1>0, <2>1, <2>2
  <2> QED
    BY <1>0, <2>3, <2>4, <2>5
<1>4. ASSUME NEW s \in Seeders, NEW u \in URIs, ProofOfCustody(s, u)
      PROVE  balance' \in [Accounts -> Nat]
  <2> DEFINE c == content[u]
             n == Reward(c, s)
  <2>1. /\ IsContent(u) /\ s \in Accounts
        /\ \/ UNCHANGED balance
           \/ /\ c.last_proof[s] # None /\ s \in DOMAIN c.seeder_price
              /\ balance' = [balance EXCEPT ![s] = @ + n]
    BY <1>4, TradingAssumption DEF ProofOfCustody
  <2>2. CASE /\ c.last_proof[s] # None /\ s \in DOMAIN c.seeder_price
             /\ balance' = [balance EXCEPT ![s] = @ + n]
    <3>1. c.last_proof[s] <= now
      BY <1>0, <2>1, <2>2 DEF ContentSound
    <3>2. n \in Nat
      BY <1>0, <2>1, <2>2, <3>1, RewardPays
    <3> HIDE DEF n
    <3> QED
      BY <1>0, <2>1, <2>2, <3>2
  <2> QED
    BY <1>0, <2>1, <2>2
<1>5. ASSUME NEW slots \in 1 .. MaxSlots, Block(slots)
      PROVE  balance' \in [Accounts -> Nat]
  <2> DEFINE t == now + (slots + SkippedSlots) * BlockInterval
  <2>1. UNCHANGED balance \/ balance' = [a \in Accounts |-> balance[a] + Returned(a, t)]
    BY <1>5 DEF Block, Housekeeping
  <2> HIDE DEF t
  <2>2. ASSUME NEW a \in Accounts PROVE Returned(a, t) \in Nat
    <3> DEFINE D == DueContent(t)
               E == DueBuying(t)
               f == [u \in D |-> IF content[u].author = a THEN content[u].publishing_fee_escrow ELSE 0]
               g == [p \in E |-> IF p[1] = a THEN buying[p].price ELSE 0]
    <3>1. IsFiniteSet(D) /\ IsFiniteSet(E)
      <4>1. D \subseteq URIs /\ E \subseteq Purchases
        BY DEF DueContent, DueBuying
      <4> QED
        BY <4>1, HeldInts, FS_Subset
    <3>2. \A u \in D : f[u] \in Nat
      <4> TAKE u \in D
      <4>1. u \in URIs /\ IsContent(u)
        BY DEF DueContent
      <4>2. content[u].publishing_fee_escrow \in Nat
        BY <1>0, <4>1 DEF ContentObjects
      <4> QED
        BY <4>2
    <3>3. \A p \in E : g[p] \in Nat
      <4> TAKE p \in E
      <4>1. p \in Purchases /\ IsBuying(p)
        BY DEF DueBuying
      <4>2. buying[p].price \in Nat
        BY <1>0, <4>1 DEF BuyingObjects
      <4> QED
        BY <4>2
    <3>4. Returned(a, t) = SumFunctionOnSet(f, D) + SumFunctionOnSet(g, E)
      BY DEF Returned
    <3> HIDE DEF D, E, f, g
    <3>5. SumFunctionOnSet(f, D) \in Nat /\ SumFunctionOnSet(g, E) \in Nat
      BY <3>1, <3>2, <3>3, SumNat
    <3> QED
      BY <3>4, <3>5
  <2> QED
    BY <1>0, <2>1, <2>2
<1>6. CASE UNCHANGED balance
  BY <1>0, <1>6
<1> QED
  BY <1>1, <1>2, <1>3, <1>4, <1>5, <1>6
     DEF Next, ReadyToPublish, Resubmit, Cancel, LeaveRating

(* The next maintenance is always ahead.                                   *)
LEMMA MaintenanceAhead ==
    ASSUME Inv, MoreTypes, Next
    PROVE  next_maintenance_time' \in Int /\ next_maintenance_time' > now'
<1>1. CASE UNCHANGED clock
  BY <1>1 DEF clock, MoreTypes
<1>2. ASSUME NEW slots \in 1 .. MaxSlots, Block(slots)
      PROVE  next_maintenance_time' \in Int /\ next_maintenance_time' > now'
  <2> DEFINE t == now + (slots + SkippedSlots) * BlockInterval
             n == next_maintenance_time
             m == MaintenanceInterval
  <2>1. t \in Nat /\ n \in Int /\ m \in Nat \ {0}
    BY BlockTime, TradingAssumption DEF Inv, ObjectsOK, MoreTypes
  <2>2. now' = t /\ \/ t < n /\ n' = n
                    \/ n <= t /\ n' = n + ((t - n) \div m + 1) * m
    BY <1>2 DEF Block, NextMaintenance
  <2> HIDE DEF t, n, m
  <2>3. \A x \in Int : /\ x \div m \in Int /\ ((x \div m) + 1) * m > x
                       /\ ((x \div m) + 1) * m \in Int
    BY <2>1
  <2>4. (t - n) \in Int
    BY <2>1
  <2>5. ((t - n) \div m + 1) * m > t - n /\ ((t - n) \div m + 1) * m \in Int
    BY <2>3, <2>4
  <2>6. n' \in Int /\ n' > now'
    BY <2>1, <2>2, <2>5
  <2> QED
    BY <2>6 DEF n
<1> QED
  BY <1>1, <1>2, Untouched

(* Objects have their types and refer to objects that exist, no balance is *)
(* overdrawn, proofs are dated between their content and the head.         *)
THEOREM TypeCorrect == Spec => []TypeOK
<1>1. Init => MoreTypes
  BY TradingAssumption DEF Init, MoreTypes, IsBuying
<1>2. Inv /\ ContentsSound /\ MoreTypes /\ [Next]_vars => MoreTypes'
  <2> SUFFICES ASSUME Inv, ContentsSound, MoreTypes, [Next]_vars PROVE MoreTypes'
    OBVIOUS
  <2>1. CASE UNCHANGED vars
    BY <2>1 DEF vars, MoreTypes, IsBuying
  <2>2. CASE Next
    <3>1. ASSUME NEW p \in Purchases, IsBuying(p)'
          PROVE  buying'[p].seeders_answered \subseteq content'[p[2]].key_parts
      <4>1. buying'[p].seeders_answered \subseteq content[p[2]].key_parts
        BY <2>2, <3>1, AnswersStep
      <4>2. p[2] \in URIs
        BY DEF Purchases
      <4>3. CASE IsContent(p[2])
        BY <2>2, <4>1, <4>2, <4>3, KeyPartsKept
      <4>4. CASE ~IsContent(p[2])
        <5>1. ~IsBuying(p)
          BY <4>4 DEF Inv, PurchasesOfContent
        <5>2. buying'[p] = buying[p]
          <6>1. DOMAIN buying = Purchases
            BY DEF Inv, ObjectsOK
          <6>2. ASSUME NEW slots \in 1 .. MaxSlots, Block(slots) PROVE buying'[p] = buying[p]
            <7> DEFINE t == now + (slots + SkippedSlots) * BlockInterval
            <7>1. t \in Nat
              BY BlockTime DEF Inv, ObjectsOK
            <7>2. UNCHANGED buying \/ Housekeeping(t)
              BY <6>2 DEF Block
            <7> HIDE DEF t
            <7> QED
              BY <5>1, <7>1, <7>2, HousekeepingEffect DEF DueBuying
          <6>3. ASSUME NEW c \in Consumers, NEW u \in URIs, NEW price \in Prices, Buy(c, u, price)
                PROVE  buying'[p] = buying[p]
            <7>1. p # <<c, u>>
              BY <4>4, <6>3 DEF Buy
            <7> QED
              BY <6>1, <6>3, <7>1 DEF Buy
          <6>4. ASSUME NEW s \in Seeders, NEW q \in Purchases, DeliverKeys(s, q)
                PROVE  buying'[p] = buying[p]
            BY <5>1, <6>1, <6>4 DEF DeliverKeys
          <6>5. ASSUME NEW q \in Purchases, NEW r \in Ratings, LeaveRating(q, r)
                PROVE  buying'[p] = buying[p]
            BY <5>1, <6>1, <6>5 DEF LeaveRating
          <6> QED
            BY <2>2, <6>2, <6>3, <6>4, <6>5, Untouched
        <5> QED
          BY <3>1, <5>1, <5>2 DEF IsBuying
      <4> QED
        BY <4>3, <4>4
    <3> QED
      BY <2>2, <3>1, BalancesStep, MaintenanceAhead DEF MoreTypes
  <2> QED
    BY <2>1, <2>2
<1>3. Inv /\ ContentsSound /\ StatsOK /\ MoreTypes => TypeOK
  <2> SUFFICES ASSUME Inv, ContentsSound, StatsOK, MoreTypes PROVE TypeOK
    OBVIOUS
  <2>1. ObjectsOK /\ next_maintenance_time > now /\ balance \in [Accounts -> Nat]
    BY DEF Inv, MoreTypes
  <2>2. \A u \in URIs : IsContent(u) =>
          /\ DOMAIN content[u].seeder_price = content[u].key_parts
          /\ \A s \in Seeders : content[u].last_proof[s] # None =>
               content[u].last_proof[s] \in content[u].created .. now
    BY DEF ContentsSound, ContentSound
  <2>3. \A p \in Purchases : IsBuying(p) =>
          IsContent(p[2]) /\ buying[p].seeders_answered \subseteq content[p[2]].key_parts
    BY DEF Inv, PurchasesOfContent, MoreTypes
  <2>4. \A s \in Seeders :
          \A f \in {"missed", "delivered", "requested", "seeded"} : stats[s][f] \in 0 .. Word - 1
    BY DEF StatsOK, StatObjects, Counters
  <2> QED
    BY <2>1, <2>2, <2>3, <2>4 DEF TypeOK
<1> QED
  BY <1>1, <1>2, <1>3, Invariance, SoundTheorem, CountersInWords, PTL DEF Spec
=============================================================================
