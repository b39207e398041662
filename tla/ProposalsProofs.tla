--------------------------- MODULE ProposalsProofs ---------------------------
(***************************************************************************)
(* For any accounts, proposed transactions, approvals and times: the        *)
(* history of executed proposals explains the balances, every proposal      *)
(* executes once and entirely or not at all, none outlives its expiration   *)
(* and none acts for the miner account before its review is over.           *)
(*                                                                          *)
(* Nothing in these proofs depends on when a proposal is found to be        *)
(* authorized.  The last part is about that: the search for approvals       *)
(* grants only what the authorities grant.                                  *)
(***************************************************************************)
EXTENDS Proposals, SumTheorems, TLAPS

Fields == {"balance", "active", "owner", "proposals", "created"}
ProposalFields ==
  {"tx", "expiration", "review", "required_active", "required_owner", "active", "owner", "keys"}

NeedsMiner(tx) == Miner \in Required(tx, RequiredActive) \cup Required(tx, RequiredOwner)

Types == {"transfer", "account_update", "proposal_create", "proposal_update", "proposal_delete"}

\* An operation of a proposed transaction.
OpOK(op) ==
  /\ op.type \in Types
  /\ op.type = "transfer" => op.from \in Accounts /\ op.to \in Accounts
  /\ op.type = "account_update" =>
       op.account \in Accounts /\ \A au \in op.owner \cup op.active : IsAuthority(au)
  /\ op.type = "proposal_create" =>
       op.tx \in Transactions /\ op.expiration \in Nat /\ op.review \subseteq Nat

\* Every account has its two authorities.
AuthoritiesOK(d) ==
  /\ DOMAIN d.active = Accounts /\ DOMAIN d.owner = Accounts
  /\ \A a \in Accounts : IsAuthority(d.active[a]) /\ IsAuthority(d.owner[a])

Creation == [tx : Transactions, at : Nat]

\* A proposal keeps what it was created with, and one that needs the miner
\* account stays under review longer than the review period.
ProposalOK(p, c) ==
  /\ DOMAIN p = ProposalFields
  /\ p.tx = c.tx /\ p.expiration \in Nat
  /\ \A i \in DOMAIN p.tx : p.tx[i].type # "proposal_update"
  /\ NeedsMiner(p.tx) => p.review # {} /\ p.expiration - c.at > MinReview
  /\ p.required_owner = Required(p.tx, RequiredOwner)
  /\ p.required_active = Required(p.tx, RequiredActive) \ p.required_owner
  /\ p.active \subseteq Accounts /\ p.owner \subseteq Accounts /\ p.keys \subseteq Keys

DbOK(d) ==
  /\ DOMAIN d = Fields
  /\ AuthoritiesOK(d)
  /\ d.balance \in [Accounts -> Nat]
  /\ d.created \in Seq(Creation)
  /\ DOMAIN d.proposals \subseteq DOMAIN d.created
  /\ \A i \in DOMAIN d.proposals : ProposalOK(d.proposals[i], d.created[i])

\* What operations at time t may do to the proposals: remove some, and add some
\* that are new and expire later.
Continues(d, r, t) ==
  /\ Len(r.created) >= Len(d.created)
  /\ \A i \in DOMAIN d.created : i \in DOMAIN r.created /\ r.created[i] = d.created[i]
  /\ \A i \in DOMAIN r.proposals :
       \/ i \in DOMAIN d.proposals /\ r.proposals[i].expiration = d.proposals[i].expiration
       \/ i \notin DOMAIN d.created /\ r.proposals[i].expiration > t

LEMMA ContinuesTrans ==
  ASSUME NEW a, NEW b, NEW c, NEW t, Len(a.created) \in Nat, Len(b.created) \in Nat, Len(c.created) \in Nat,
         Continues(a, b, t), Continues(b, c, t)
  PROVE  Continues(a, c, t)
<1>1. Len(c.created) >= Len(a.created)
  BY DEF Continues
<1>2. \A i \in DOMAIN a.created : i \in DOMAIN c.created /\ c.created[i] = a.created[i]
  BY DEF Continues
<1>3. ASSUME NEW i \in DOMAIN c.proposals
      PROVE  \/ i \in DOMAIN a.proposals /\ c.proposals[i].expiration = a.proposals[i].expiration
             \/ i \notin DOMAIN a.created /\ c.proposals[i].expiration > t
  <2>1. CASE i \in DOMAIN b.proposals /\ c.proposals[i].expiration = b.proposals[i].expiration
    BY <2>1 DEF Continues
  <2>2. CASE i \notin DOMAIN b.created /\ c.proposals[i].expiration > t
    BY <2>2 DEF Continues
  <2> QED
    BY <2>1, <2>2 DEF Continues
<1> QED
  BY <1>1, <1>2, <1>3 DEF Continues

-----------------------------------------------------------------------------
(* The operations.                                                          *)

One(b) == IF b THEN 1 ELSE 0

Moved(d, op, r) ==
  \A a \in Accounts :
    r.balance[a] = d.balance[a] + One(op.type = "transfer" /\ op.to = a)
                                - One(op.type = "transfer" /\ op.from = a)

LEMMA LenCreated == ASSUME NEW d, DbOK(d) PROVE Len(d.created) \in Nat /\ DOMAIN d.created = 1..Len(d.created)
  BY DEF DbOK

\* An operation that leaves balances and creations alone and adds no proposal.
LEMMA FewerProposals ==
  ASSUME NEW d, DbOK(d), NEW r, NEW t, DOMAIN r = Fields,
         r.balance = d.balance, r.created = d.created, AuthoritiesOK(r),
         DOMAIN r.proposals \subseteq DOMAIN d.proposals,
         \A i \in DOMAIN r.proposals : r.proposals[i] = d.proposals[i]
  PROVE  DbOK(r) /\ Continues(d, r, t)
<1>1. Len(d.created) \in Nat
  BY LenCreated
<1>2. DbOK(r)
  BY DEF DbOK
<1>3. Continues(d, r, t)
  BY <1>1 DEF Continues
<1> QED
  BY <1>2, <1>3

LEMMA TransferOK ==
  ASSUME NEW d, DbOK(d), NEW op, OpOK(op), op.type = "transfer", NEW t, NEW r \in transfer(d, op)
  PROVE  DbOK(r) /\ Continues(d, r, t) /\ Moved(d, op, r)
<1> DEFINE b == d.balance
           f == op.from
           g == op.to
<1>1. f \in Accounts /\ g \in Accounts
  BY DEF OpOK
<1>2. b \in [Accounts -> Nat] /\ DOMAIN d = Fields
  BY DEF DbOK
<1>3. ~(b[f] < 1) /\ r = [d EXCEPT !.balance[f] = @ - 1, !.balance[g] = @ + 1]
  BY DEF transfer
<1> DEFINE b1 == [b EXCEPT ![f] = @ - 1]
           b2 == [b1 EXCEPT ![g] = @ + 1]
<1>4. DOMAIN r = Fields /\ r.balance = b2 /\ r.created = d.created /\ r.proposals = d.proposals
      /\ r.active = d.active /\ r.owner = d.owner
  BY <1>2, <1>3 DEF Fields
<1> HIDE DEF b, f, g
<1>5. b1 \in [Accounts -> Nat]
  BY <1>1, <1>2, <1>3
<1>6. b2 \in [Accounts -> Nat]
  <2> HIDE DEF b1
  <2> QED
    BY <1>1, <1>5
<1>7. ASSUME NEW a \in Accounts
      PROVE  b2[a] = b[a] + One(g = a) - One(f = a)
  <2>1. b1[a] = b[a] - One(f = a) /\ b[a] \in Nat
    BY <1>1, <1>2 DEF One
  <2>2. b2[a] = b1[a] + One(g = a)
    <3> HIDE DEF b1
    <3> QED
      BY <1>1, <1>5 DEF One
  <2>3. One(g = a) \in Nat /\ One(f = a) \in Nat
    BY DEF One
  <2> HIDE DEF b1, b2
  <2> QED
    BY <2>1, <2>2, <2>3
<1>8. DbOK(r)
  <2> HIDE DEF b1, b2
  <2> QED
    BY <1>4, <1>6 DEF DbOK, AuthoritiesOK
<1>9. Continues(d, r, t)
  <2>1. Len(d.created) \in Nat
    BY LenCreated
  <2> QED
    BY <1>4, <2>1 DEF Continues
<1>10. Moved(d, op, r)
  BY <1>4, <1>7 DEF Moved, b, f, g, One
<1> QED
  BY <1>8, <1>9, <1>10

LEMMA AccountUpdateOK ==
  ASSUME NEW d, DbOK(d), NEW op, op.type = "account_update", op.account \in Accounts,
         \A au \in op.owner \cup op.active : IsAuthority(au), NEW t, NEW r \in account_update(d, op)
  PROVE  DbOK(r) /\ Continues(d, r, t) /\ r.balance = d.balance
<1> DEFINE Take(optional, old) == CHOOSE x \in (IF optional = {} THEN {old} ELSE optional) : TRUE
           a == op.account
           own == Take(op.owner, d.owner[a])
           act == Take(op.active, d.active[a])
<1>1. DOMAIN d = Fields /\ AuthoritiesOK(d)
  BY DEF DbOK
<1>2. r = [d EXCEPT !.owner[a] = own, !.active[a] = act]
  BY DEF account_update
<1>3. IsAuthority(d.owner[a]) /\ IsAuthority(d.active[a])
  BY <1>1 DEF AuthoritiesOK
<1>4. ASSUME NEW S, NEW old, IsAuthority(old), \A au \in S : IsAuthority(au)
      PROVE  IsAuthority(Take(S, old))
  <2> DEFINE U == IF S = {} THEN {old} ELSE S
  <2>1. U # {} /\ \A au \in U : IsAuthority(au)
    BY <1>4
  <2> HIDE DEF U
  <2>2. (CHOOSE x \in U : TRUE) \in U
    BY <2>1
  <2>3. Take(S, old) = CHOOSE x \in U : TRUE
    BY DEF U
  <2> QED
    BY <2>1, <2>2, <2>3
<1>5. IsAuthority(own) /\ IsAuthority(act)
  BY <1>3, <1>4
<1> HIDE DEF own, act, Take
<1>6. /\ DOMAIN r = Fields /\ r.balance = d.balance /\ r.created = d.created /\ r.proposals = d.proposals
      /\ r.owner = [d.owner EXCEPT ![a] = own] /\ r.active = [d.active EXCEPT ![a] = act]
  BY <1>1, <1>2 DEF Fields
<1>7. AuthoritiesOK(r)
  BY <1>1, <1>5, <1>6 DEF AuthoritiesOK
<1> QED
  BY <1>6, <1>7, FewerProposals

LEMMA ProposalDeleteOK ==
  ASSUME NEW d, DbOK(d), NEW op, NEW t, NEW r \in proposal_delete(d, op)
  PROVE  DbOK(r) /\ Continues(d, r, t) /\ r.balance = d.balance
<1>1. DOMAIN d = Fields
  BY DEF DbOK
<1>2. r = [d EXCEPT !.proposals = Without(@, op.proposal)]
  BY DEF proposal_delete
<1>3. DOMAIN r = Fields /\ r.balance = d.balance /\ r.created = d.created
      /\ r.proposals = Without(d.proposals, op.proposal) /\ AuthoritiesOK(r)
  BY <1>1, <1>2 DEF Fields, DbOK, AuthoritiesOK
<1>4. DOMAIN r.proposals \subseteq DOMAIN d.proposals
      /\ \A i \in DOMAIN r.proposals : r.proposals[i] = d.proposals[i]
  BY <1>3 DEF Without
<1> QED
  BY <1>3, <1>4, FewerProposals


LEMMA ProposalCreateOK ==
  ASSUME NEW d, DbOK(d), NEW t \in Nat, NEW op, op.tx \in Transactions, op.expiration \in Nat,
         op.review \subseteq Nat, NEW r \in proposal_create(d, op, t)
  PROVE  DbOK(r) /\ Continues(d, r, t) /\ r.balance = d.balance
<1> DEFINE own == Required(op.tx, RequiredOwner)
           p == [tx |-> op.tx, expiration |-> op.expiration,
                 review |-> {op.expiration - x : x \in op.review},
                 required_active |-> Required(op.tx, RequiredActive) \ own,
                 required_owner |-> own,
                 active |-> {}, owner |-> {}, keys |-> {}]
           c == [tx |-> op.tx, at |-> t]
           n == Len(d.created)
           id == n + 1
           ps == [i \in DOMAIN d.proposals \cup {id} |-> IF i = id THEN p ELSE d.proposals[i]]
<1>1. DOMAIN d = Fields /\ d.created \in Seq(Creation) /\ DOMAIN d.proposals \subseteq DOMAIN d.created
  BY DEF DbOK
<1>2. n \in Nat /\ DOMAIN d.created = 1..n
  BY LenCreated
<1>3. CreateAllowed(op, t) /\ r = [d EXCEPT !.proposals = ps, !.created = Append(@, c)]
  BY DEF proposal_create
<1>4. /\ DOMAIN r = Fields /\ r.balance = d.balance /\ r.created = Append(d.created, c)
      /\ r.proposals = ps /\ r.active = d.active /\ r.owner = d.owner
  <2> HIDE DEF ps, c
  <2> QED
    BY <1>1, <1>3 DEF Fields
<1>5. c \in Creation
  BY DEF Creation
<1>6. /\ r.created \in Seq(Creation) /\ Len(r.created) = n + 1 /\ DOMAIN r.created = 1..(n + 1)
      /\ r.created[n + 1] = c
      /\ \A i \in 1..n : r.created[i] = d.created[i]
  <2> HIDE DEF c
  <2> QED
    BY <1>1, <1>2, <1>4, <1>5
<1>7. ProposalOK(p, c) /\ p.expiration > t
  <2>1. DOMAIN p = ProposalFields
    BY DEF ProposalFields
  <2>2. p.tx = c.tx /\ p.expiration = op.expiration /\ c.at = t
    OBVIOUS
  <2>3. op.expiration > t /\ \A i \in DOMAIN op.tx : op.tx[i].type # "proposal_update"
    BY <1>3 DEF CreateAllowed
  <2>4. ASSUME NeedsMiner(op.tx) PROVE p.review # {} /\ op.expiration - t > MinReview
    <3>1. PICK x \in op.review : x >= MinReview
      BY <1>3, <2>4 DEF CreateAllowed, NeedsMiner
    <3>2. x < op.expiration - t /\ x \in Nat
      BY <1>3 DEF CreateAllowed
    <3>3. op.expiration - x \in p.review
      OBVIOUS
    <3> QED
      BY <3>1, <3>2, <3>3, ProposalsAssumption
  <2>6. /\ p.required_owner = Required(p.tx, RequiredOwner)
        /\ p.required_active = Required(p.tx, RequiredActive) \ p.required_owner
        /\ p.active = {} /\ p.owner = {} /\ p.keys = {}
    OBVIOUS
  <2> HIDE DEF p, c
  <2>5. p.tx = op.tx
    BY DEF p
  <2> QED
    BY <2>1, <2>2, <2>3, <2>4, <2>5, <2>6 DEF ProposalOK
<1> HIDE DEF p, c
<1>8. DOMAIN ps = DOMAIN d.proposals \cup {n + 1}
      /\ ps[n + 1] = p /\ \A i \in DOMAIN d.proposals : ps[i] = d.proposals[i] /\ i \in 1..n
  <2>1. \A i \in DOMAIN d.proposals : i \in 1..n /\ i # n + 1
    BY <1>1, <1>2
  <2> QED
    BY <2>1
<1> HIDE DEF ps
<1>9. \A i \in DOMAIN r.proposals : ProposalOK(r.proposals[i], r.created[i])
  <2> SUFFICES ASSUME NEW i \in DOMAIN r.proposals PROVE ProposalOK(r.proposals[i], r.created[i])
    OBVIOUS
  <2>1. CASE i = n + 1
    BY <1>4, <1>6, <1>7, <1>8, <2>1
  <2>2. CASE i \in DOMAIN d.proposals
    <3>1. r.proposals[i] = d.proposals[i] /\ r.created[i] = d.created[i]
      BY <1>4, <1>6, <1>8, <2>2
    <3>2. ProposalOK(d.proposals[i], d.created[i])
      BY <2>2 DEF DbOK
    <3> QED
      BY <3>1, <3>2
  <2> QED
    BY <1>4, <1>8, <2>1, <2>2
<1>10. DOMAIN r.proposals \subseteq DOMAIN r.created
  BY <1>2, <1>4, <1>6, <1>8
<1>11. DbOK(r)
  BY <1>4, <1>6, <1>9, <1>10 DEF DbOK, AuthoritiesOK
<1>12. Continues(d, r, t)
  <2>1. \A i \in DOMAIN d.created : i \in DOMAIN r.created /\ r.created[i] = d.created[i]
    BY <1>2, <1>6
  <2>2. n + 1 \notin DOMAIN d.created
    BY <1>2
  <2>3. Len(r.created) >= Len(d.created)
    BY <1>2, <1>6
  <2> QED
    BY <1>4, <1>7, <1>8, <2>1, <2>2, <2>3 DEF Continues
<1> QED
  BY <1>4, <1>11, <1>12

LEMMA EvaluateOK ==
  ASSUME NEW d, DbOK(d), NEW t \in Nat, NEW op, OpOK(op), op.type # "proposal_update",
         NEW r \in evaluate(d, op, t)
  PROVE  DbOK(r) /\ Continues(d, r, t) /\ Moved(d, op, r)
<1>0. ASSUME op.type # "transfer", r.balance = d.balance PROVE Moved(d, op, r)
  <2>1. \A a \in Accounts : d.balance[a] \in Nat
    BY DEF DbOK
  <2> QED
    BY <1>0, <2>1 DEF Moved, One
<1>1. CASE op.type = "transfer"
  <2>1. r \in transfer(d, op)
    BY <1>1 DEF evaluate
  <2> QED
    BY <1>1, <2>1, TransferOK
<1>2. CASE op.type = "account_update"
  <2>1. r \in account_update(d, op)
    BY <1>2 DEF evaluate
  <2>2. op.account \in Accounts /\ \A au \in op.owner \cup op.active : IsAuthority(au)
    BY <1>2 DEF OpOK
  <2> QED
    BY <1>0, <1>2, <2>1, <2>2, AccountUpdateOK
<1>3. CASE op.type = "proposal_create"
  <2>1. r \in proposal_create(d, op, t)
    BY <1>3 DEF evaluate
  <2>2. op.tx \in Transactions /\ op.expiration \in Nat /\ op.review \subseteq Nat
    BY <1>3 DEF OpOK
  <2> QED
    BY <1>0, <1>3, <2>1, <2>2, ProposalCreateOK
<1>4. CASE op.type = "proposal_delete"
  <2>1. r \in proposal_delete(d, op)
    BY <1>4 DEF evaluate
  <2> QED
    BY <1>0, <1>4, <2>1, ProposalDeleteOK
<1> QED
  BY <1>1, <1>2, <1>3, <1>4 DEF OpOK, Types

-----------------------------------------------------------------------------
(* The history.                                                             *)

Ops == UNION {{tx[i] : i \in DOMAIN tx} : tx \in Transactions}

Entries == [proposal : Nat, op : Ops, at : Nat]

LEMMA OpsOK == \A tx \in Transactions : \A i \in DOMAIN tx : tx[i] \in Ops /\ OpOK(tx[i])
  BY TransactionsAssumption, AuthoritiesAssumption DEF Ops, OpOK, Types

\* Appending to a sequence, element by element.
LEMMA AppendLog ==
  ASSUME NEW l \in Seq(Entries), NEW e \in Entries
  PROVE  /\ Append(l, e) \in Seq(Entries) /\ Len(l) \in Nat /\ Len(Append(l, e)) = Len(l) + 1
         /\ DOMAIN l = 1..Len(l) /\ DOMAIN Append(l, e) = 1..(Len(l) + 1)
         /\ Append(l, e)[Len(l) + 1] = e /\ \A i \in 1..Len(l) : Append(l, e)[i] = l[i]
  OBVIOUS

LEMMA CountAppend ==
  ASSUME NEW l \in Seq(Entries), NEW e \in Entries, NEW S
  PROVE  /\ Cardinality({i \in DOMAIN l : l[i] \in S}) \in Nat
         /\ Cardinality({i \in DOMAIN Append(l, e) : Append(l, e)[i] \in S})
              = Cardinality({i \in DOMAIN l : l[i] \in S}) + One(e \in S)
<1> DEFINE n == Len(l)
           m == Append(l, e)
           A == {i \in DOMAIN l : l[i] \in S}
           B == {i \in DOMAIN m : m[i] \in S}
<1>1. /\ n \in Nat /\ DOMAIN l = 1..n /\ DOMAIN m = 1..(n + 1) /\ m[n + 1] = e
      /\ \A i \in 1..n : m[i] = l[i]
  BY AppendLog
<1> HIDE DEF n, m
<1>2. A \subseteq 1..n /\ n + 1 \notin A
  BY <1>1
<1>3. IsFiniteSet(A) /\ Cardinality(A) \in Nat
  <2>1. IsFiniteSet(1..n)
    BY <1>1, FS_Interval
  <2> HIDE DEF A
  <2>2. IsFiniteSet(A)
    BY <1>2, <2>1, FS_Subset
  <2> QED
    BY <2>2, FS_CardinalityType
<1>4. CASE e \in S
  <2>1. B = A \cup {n + 1}
    <3>1. \A i \in 1..(n + 1) : i \in 1..n \/ i = n + 1
      BY <1>1
    <3>2. 1..n \subseteq 1..(n + 1) /\ n + 1 \in 1..(n + 1)
      BY <1>1
    <3> QED
      BY <1>1, <1>4, <3>1, <3>2
  <2>2. Cardinality(A \cup {n + 1}) = Cardinality(A) + 1
    BY <1>2, <1>3, FS_AddElement
  <2>3. One(e \in S) = 1
    BY <1>4 DEF One
  <2>4. Cardinality(B) = Cardinality(A) + One(e \in S)
    BY <2>1, <2>2, <2>3, Zenon
  <2> QED
    BY <1>3, <2>4 DEF m
<1>5. CASE e \notin S
  <2>1. B = A
    <3>1. \A i \in 1..(n + 1) : i \in 1..n \/ i = n + 1
      BY <1>1
    <3>2. 1..n \subseteq 1..(n + 1)
      BY <1>1
    <3> QED
      BY <1>1, <1>5, <3>1, <3>2
  <2>2. One(e \in S) = 0
    BY <1>5 DEF One
  <2> HIDE DEF A, B
  <2>3. Cardinality(B) = Cardinality(A) + One(e \in S)
    BY <1>3, <2>1, <2>2
  <2> QED
    BY <1>3, <2>3 DEF m, A, B
<1> QED
  BY <1>4, <1>5

LEMMA MovesAppend ==
  ASSUME NEW l \in Seq(Entries), NEW e \in Entries, NEW a
  PROVE  /\ Received(l, a) \in Nat /\ Sent(l, a) \in Nat
         /\ Received(Append(l, e), a) = Received(l, a) + One(e.op.type = "transfer" /\ e.op.to = a)
         /\ Sent(Append(l, e), a) = Sent(l, a) + One(e.op.type = "transfer" /\ e.op.from = a)
<1> DEFINE S == {x \in Entries : x.op.type = "transfer" /\ x.op.to = a}
           F == {x \in Entries : x.op.type = "transfer" /\ x.op.from = a}
<1>1. ASSUME NEW k \in Seq(Entries)
      PROVE  /\ {i \in DOMAIN k : k[i].op.type = "transfer" /\ k[i].op.to = a} = {i \in DOMAIN k : k[i] \in S}
             /\ {i \in DOMAIN k : k[i].op.type = "transfer" /\ k[i].op.from = a} = {i \in DOMAIN k : k[i] \in F}
  <2>1. \A i \in DOMAIN k : k[i] \in Entries
    OBVIOUS
  <2> QED
    BY <2>1
<1>2. Append(l, e) \in Seq(Entries)
  BY AppendLog
<1>3. /\ Received(l, a) = Cardinality({i \in DOMAIN l : l[i] \in S})
      /\ Sent(l, a) = Cardinality({i \in DOMAIN l : l[i] \in F})
  BY <1>1, Zenon DEF Received, Sent
<1>4. /\ Received(Append(l, e), a) = Cardinality({i \in DOMAIN Append(l, e) : Append(l, e)[i] \in S})
      /\ Sent(Append(l, e), a) = Cardinality({i \in DOMAIN Append(l, e) : Append(l, e)[i] \in F})
  BY <1>1, <1>2, Zenon DEF Received, Sent
<1>5. /\ One(e \in S) = One(e.op.type = "transfer" /\ e.op.to = a)
      /\ One(e \in F) = One(e.op.type = "transfer" /\ e.op.from = a)
  BY DEF One
<1> HIDE DEF S, F
<1>6. /\ Cardinality({i \in DOMAIN l : l[i] \in S}) \in Nat
      /\ Cardinality({i \in DOMAIN Append(l, e) : Append(l, e)[i] \in S})
              = Cardinality({i \in DOMAIN l : l[i] \in S}) + One(e \in S)
  BY CountAppend
<1>7. /\ Cardinality({i \in DOMAIN l : l[i] \in F}) \in Nat
      /\ Cardinality({i \in DOMAIN Append(l, e) : Append(l, e)[i] \in F})
              = Cardinality({i \in DOMAIN l : l[i] \in F}) + One(e \in F)
  BY CountAppend
<1> QED
  BY <1>3, <1>4, <1>5, <1>6, <1>7, Zenon

Entry(id, op, t) == [proposal |-> id, op |-> op, at |-> t]

\* The entries of a proposal are its transaction, in one piece.
WholeFrom(l, id, tx, t, s) ==
  \A j \in DOMAIN l : IF j - s \in DOMAIN tx THEN l[j] = Entry(id, tx[j - s], t)
                      ELSE l[j].proposal # id

Told(d, l, id, t) ==
  /\ id \notin DOMAIN d.proposals
  /\ id \in DOMAIN d.created
  /\ \E s \in 0..(Len(l) - Len(d.created[id].tx)) : WholeFrom(l, id, d.created[id].tx, t, s)

History(d, l) == \A i \in DOMAIN l : Told(d, l, l[i].proposal, l[i].at)

Balanced(d, l) ==
  \A a \in Accounts : d.balance[a] = Balance0[a] + Received(l, a) - Sent(l, a)

ForMiner(op) == Miner \in RequiredActive(op) \cup RequiredOwner(op)

Reviewed(d, l) ==
  \A i \in DOMAIN l : ForMiner(l[i].op) => l[i].at - d.created[l[i].proposal].at > MinReview

Good(d, l) ==
  DbOK(d) /\ l \in Seq(Entries) /\ History(d, l) /\ Balanced(d, l) /\ Reviewed(d, l)

LEMMA HistoryIs == HistoryExplains <=> History(db, log) /\ Balanced(db, log)
  BY Zenon DEF HistoryExplains, History, Balanced, Told, WholeFrom, Entry

\* Whatever operations outside of proposals do to the proposals, the history
\* still explains the state.
LEMMA GoodContinues ==
  ASSUME NEW d, NEW l, Good(d, l), NEW r, NEW t, DbOK(r), Continues(d, r, t), r.balance = d.balance
  PROVE  Good(r, l)
<1>1. l \in Seq(Entries) /\ Balanced(r, l)
  BY DEF Good, Balanced
<1>2. ASSUME NEW i \in DOMAIN l
      PROVE  Told(r, l, l[i].proposal, l[i].at) /\ r.created[l[i].proposal] = d.created[l[i].proposal]
  <2> DEFINE id == l[i].proposal
  <2>1. Told(d, l, id, l[i].at)
    BY DEF Good, History
  <2>2. id \notin DOMAIN d.proposals /\ id \in DOMAIN d.created
    BY <2>1 DEF Told
  <2>3. id \in DOMAIN r.created /\ r.created[id] = d.created[id] /\ id \notin DOMAIN r.proposals
    BY <2>2 DEF Continues
  <2> QED
    BY <2>1, <2>3 DEF Told
<1>3. History(r, l)
  BY <1>2 DEF History
<1>4. Reviewed(r, l)
  BY <1>2 DEF Reviewed, Good
<1> QED
  BY <1>1, <1>3, <1>4 DEF Good

-----------------------------------------------------------------------------
(* Executing a proposal.                                                    *)

\* The session of push_proposal after k operations of tx.
Running(d, l, id, tx, t, k, e) ==
  /\ DOMAIN e = {"ok", "db", "log"} /\ e.ok \in BOOLEAN
  /\ e.log \in Seq(Entries) /\ Len(e.log) >= Len(l)
  /\ \A j \in DOMAIN l : e.log[j] = l[j]
  /\ e.ok => /\ DbOK(e.db) /\ Continues(d, e.db, t) /\ Balanced(e.db, e.log)
             /\ Len(e.log) = Len(l) + k
             /\ \A j \in 1..k : e.log[Len(l) + j] = Entry(id, tx[j], t)

LEMMA RunStep ==
  ASSUME NEW d, NEW l, Good(d, l), NEW id \in Nat, NEW tx \in Transactions,
         \A i \in DOMAIN tx : tx[i].type # "proposal_update",
         NEW t \in Nat, NEW k \in 1..Len(tx), NEW e, Running(d, l, id, tx, t, k - 1, e)
  PROVE  Running(d, l, id, tx, t, k, ApplyProposed(e, id, tx[k], t))
<1> DEFINE op == tx[k]
           n == Entry(id, op, t)
           r == evaluate(e.db, op, t)
           m == Append(e.log, n)
           x == ApplyProposed(e, id, op, t)
<1>1. Len(tx) \in Nat /\ DOMAIN tx = 1..Len(tx) /\ k \in Nat
  BY TransactionsAssumption
<1>2. op \in Ops /\ OpOK(op) /\ op.type # "proposal_update"
  BY <1>1, OpsOK
<1>3. l \in Seq(Entries) /\ Len(l) \in Nat /\ DOMAIN l = 1..Len(l)
  BY DEF Good
<1>4. e.log \in Seq(Entries) /\ Len(e.log) >= Len(l) /\ \A j \in DOMAIN l : e.log[j] = l[j]
  BY DEF Running
<1>5. n \in Entries /\ n.op = op
  BY <1>2 DEF Entry, Entries
<1> HIDE DEF n
<1>6. /\ m \in Seq(Entries) /\ Len(e.log) \in Nat /\ Len(m) = Len(e.log) + 1
      /\ m[Len(e.log) + 1] = n /\ \A i \in 1..Len(e.log) : m[i] = e.log[i]
  BY <1>4, <1>5, AppendLog
<1> HIDE DEF m
<1>7. Len(m) >= Len(l) /\ \A j \in DOMAIN l : m[j] = l[j]
  <2>1. \A j \in 1..Len(l) : j \in 1..Len(e.log)
    BY <1>3, <1>4, <1>6
  <2>2. \A j \in 1..Len(l) : m[j] = e.log[j] /\ e.log[j] = l[j]
    BY <1>3, <1>4, <1>6, <2>1
  <2>3. Len(m) >= Len(l)
    BY <1>3, <1>4, <1>6
  <2> QED
    BY <1>3, <2>2, <2>3
<1>8. x = IF ~e.ok THEN e
          ELSE IF r = {} THEN [ok |-> FALSE, db |-> e.db, log |-> m]
          ELSE [ok |-> TRUE, db |-> CHOOSE y \in r : TRUE, log |-> m]
  BY DEF ApplyProposed, m, n, Entry
<1> HIDE DEF r, x
<1>9. CASE ~e.ok
  <2>1. x = e
    BY <1>8, <1>9
  <2> QED
    BY <1>9, <2>1 DEF Running, x
<1>10. CASE e.ok /\ r = {}
  <2>1. x = [ok |-> FALSE, db |-> e.db, log |-> m]
    BY <1>8, <1>10
  <2>2. DOMAIN x = {"ok", "db", "log"} /\ ~x.ok /\ x.ok \in BOOLEAN /\ x.log = m
    BY <2>1
  <2> QED
    BY <1>6, <1>7, <2>2 DEF Running, x
<1>11. CASE e.ok /\ r # {}
  <2> DEFINE y == CHOOSE y \in r : TRUE
  <2>1. y \in evaluate(e.db, op, t)
    BY <1>11 DEF r
  <2> HIDE DEF y
  <2>2. x = [ok |-> TRUE, db |-> y, log |-> m]
    BY <1>8, <1>11 DEF y
  <2>3. DOMAIN x = {"ok", "db", "log"} /\ x.ok \in BOOLEAN /\ x.log = m /\ x.db = y
    BY <2>2
  <2>4. /\ DbOK(e.db) /\ Continues(d, e.db, t) /\ Balanced(e.db, e.log)
        /\ Len(e.log) = Len(l) + (k - 1)
        /\ \A j \in 1..(k - 1) : e.log[Len(l) + j] = Entry(id, tx[j], t)
    BY <1>11 DEF Running
  <2>5. DbOK(y) /\ Continues(e.db, y, t) /\ Moved(e.db, op, y)
    BY <1>2, <2>1, <2>4, EvaluateOK
  <2>6. Continues(d, y, t)
    <3>1. DbOK(d)
      BY DEF Good
    <3>2. Len(d.created) \in Nat /\ Len(e.db.created) \in Nat /\ Len(y.created) \in Nat
      BY <2>4, <2>5, <3>1, LenCreated
    <3> QED
      BY <2>4, <2>5, <3>2, ContinuesTrans
  <2>7. Balanced(y, m)
    <3> SUFFICES ASSUME NEW a \in Accounts
                 PROVE  y.balance[a] = Balance0[a] + Received(m, a) - Sent(m, a)
      BY DEF Balanced
    <3>1. y.balance[a] = e.db.balance[a] + One(op.type = "transfer" /\ op.to = a)
                                         - One(op.type = "transfer" /\ op.from = a)
      BY <2>5 DEF Moved
    <3>2. e.db.balance[a] = Balance0[a] + Received(e.log, a) - Sent(e.log, a)
      BY <2>4 DEF Balanced
    <3>3. /\ Received(e.log, a) \in Nat /\ Sent(e.log, a) \in Nat
          /\ Received(m, a) = Received(e.log, a) + One(op.type = "transfer" /\ op.to = a)
          /\ Sent(m, a) = Sent(e.log, a) + One(op.type = "transfer" /\ op.from = a)
      BY <1>4, <1>5, MovesAppend DEF m
    <3>4. Balance0[a] \in Nat
      BY ProposalsAssumption
    <3> DEFINE o1 == One(op.type = "transfer" /\ op.to = a)
               o2 == One(op.type = "transfer" /\ op.from = a)
               rec == Received(e.log, a)
               snt == Sent(e.log, a)
               b0 == Balance0[a]
    <3>5. o1 \in Nat /\ o2 \in Nat
      BY DEF One
    <3>6. \A p, q, u, v, w \in Nat : (w + p - q) + u - v = w + (p + u) - (q + v)
      OBVIOUS
    <3>7. y.balance[a] = (b0 + rec - snt) + o1 - o2 /\ Received(m, a) = rec + o1 /\ Sent(m, a) = snt + o2
      BY <3>1, <3>2, <3>3
    <3>8. rec \in Nat /\ snt \in Nat /\ b0 \in Nat
      BY <3>3, <3>4
    <3> HIDE DEF o1, o2, rec, snt, b0
    <3>9. y.balance[a] = b0 + (rec + o1) - (snt + o2)
      BY <3>5, <3>6, <3>7, <3>8
    <3> QED
      BY <3>7, <3>9 DEF b0
  <2>8. Len(m) = Len(l) + k
    BY <1>1, <1>3, <1>6, <2>4
  <2>9. \A j \in 1..k : m[Len(l) + j] = Entry(id, tx[j], t)
    <3> SUFFICES ASSUME NEW j \in 1..k PROVE m[Len(l) + j] = Entry(id, tx[j], t)
      OBVIOUS
    <3>1. CASE j = k
      <4>1. Len(l) + j = Len(e.log) + 1
        BY <1>1, <1>3, <1>6, <2>4, <3>1
      <4> QED
        BY <1>6, <3>1, <4>1 DEF n
    <3>2. CASE j # k
      <4>1. j \in 1..(k - 1) /\ Len(l) + j \in 1..Len(e.log)
        BY <1>1, <1>3, <1>6, <2>4, <3>2
      <4> QED
        BY <1>6, <2>4, <4>1
    <3> QED
      BY <3>1, <3>2
  <2> QED
    BY <1>6, <1>7, <2>3, <2>5, <2>6, <2>7, <2>8, <2>9 DEF Running, x
<1> QED
  BY <1>9, <1>10, <1>11

\* push_proposal's recursion is defined: there is a function that satisfies it.
RunIs(f, d, l, id, tx, t, n) ==
  f = [i \in 0..n |-> IF i = 0 THEN [ok |-> TRUE, db |-> d, log |-> l]
                      ELSE ApplyProposed(f[i - 1], id, tx[i], t)]

LEMMA RunExists ==
  ASSUME NEW d, NEW l, NEW id, NEW tx, NEW t
  PROVE  \A n \in Nat : \E f : RunIs(f, d, l, id, tx, t, n)
<1> DEFINE T == {n \in Nat : \E f : RunIs(f, d, l, id, tx, t, n)}
<1>1. ASSUME NEW n \in Nat, \A m \in Nat : m < n => m \in T
      PROVE  n \in T
  <2>1. CASE n = 0
    <3> DEFINE f == [i \in 0..0 |-> [ok |-> TRUE, db |-> d, log |-> l]]
    <3>1. \A i \in 0..0 : i = 0
      OBVIOUS
    <3>2. RunIs(f, d, l, id, tx, t, 0)
      BY <3>1 DEF RunIs
    <3> QED
      BY <2>1, <3>2
  <2>2. CASE n > 0
    <3> DEFINE k == n - 1
    <3>1. k \in Nat /\ k < n /\ n = k + 1
      BY <2>2
    <3> HIDE DEF k
    <3>2. PICK g : RunIs(g, d, l, id, tx, t, k)
      BY <1>1, <3>1
    <3> DEFINE f == [i \in 0..n |-> IF i <= k THEN g[i] ELSE ApplyProposed(g[k], id, tx[n], t)]
               h == [i \in 0..n |-> IF i = 0 THEN [ok |-> TRUE, db |-> d, log |-> l]
                                    ELSE ApplyProposed(f[i - 1], id, tx[i], t)]
    <3>3. ASSUME NEW i \in 0..n PROVE f[i] = h[i]
      <4>1. CASE i = 0
        <5>1. g[0] = [ok |-> TRUE, db |-> d, log |-> l]
          BY <3>1, <3>2 DEF RunIs
        <5> QED
          BY <3>1, <4>1, <5>1
      <4>2. CASE i # 0 /\ i <= k
        <5>1. i \in 0..k /\ i - 1 \in 0..n /\ i - 1 <= k
          BY <3>1, <4>2
        <5>2. g[i] = ApplyProposed(g[i - 1], id, tx[i], t)
          BY <3>2, <4>2, <5>1 DEF RunIs
        <5>3. f[i] = g[i] /\ f[i - 1] = g[i - 1]
          BY <4>2, <5>1
        <5>4. h[i] = ApplyProposed(f[i - 1], id, tx[i], t)
          BY <4>2
        <5> HIDE DEF f, h
        <5> QED
          BY <5>2, <5>3, <5>4
      <4>3. CASE i = n
        <5>1. ~(n <= k) /\ n # 0 /\ n - 1 = k /\ k \in 0..n /\ k <= k
          BY <3>1
        <5>2. f[i] = ApplyProposed(g[k], id, tx[n], t) /\ f[k] = g[k]
          BY <4>3, <5>1
        <5>3. h[i] = ApplyProposed(f[n - 1], id, tx[n], t)
          BY <4>3, <5>1
        <5> HIDE DEF f, h
        <5> QED
          BY <5>1, <5>2, <5>3
      <4> QED
        BY <3>1, <4>1, <4>2, <4>3
    <3>4. f = h
      BY <3>3
    <3>5. RunIs(f, d, l, id, tx, t, n)
      BY <3>4, Zenon DEF RunIs
    <3> QED
      BY <3>5
  <2> QED
    BY <2>1, <2>2
<1> HIDE DEF T
<1>2. Nat \subseteq T
  BY <1>1, NatSetInduction
<1> QED
  BY <1>2 DEF T

\* The session after the last operation.
LEMMA RunEnds ==
  ASSUME NEW d, NEW l, Good(d, l), NEW id \in Nat, NEW tx \in Transactions,
         \A i \in DOMAIN tx : tx[i].type # "proposal_update",
         NEW t \in Nat, NEW f, RunIs(f, d, l, id, tx, t, Len(tx))
  PROVE  Running(d, l, id, tx, t, Len(tx), f[Len(tx)])
<1> DEFINE n == Len(tx)
           T == {k \in Nat : k <= n => Running(d, l, id, tx, t, k, f[k])}
<1>0. n \in Nat
  BY TransactionsAssumption
<1>1. ASSUME NEW k \in Nat, \A m \in Nat : m < k => m \in T
      PROVE  k \in T
  <2> SUFFICES ASSUME k <= n PROVE Running(d, l, id, tx, t, k, f[k])
    OBVIOUS
  <2>1. CASE k = 0
    <3>1. f[0] = [ok |-> TRUE, db |-> d, log |-> l]
      BY <1>0 DEF RunIs
    <3> DEFINE e == f[0]
    <3>2. DOMAIN e = {"ok", "db", "log"} /\ e.ok \in BOOLEAN /\ e.log = l /\ e.db = d
      BY <3>1
    <3> HIDE DEF e
    <3>3. l \in Seq(Entries) /\ Len(l) \in Nat /\ DbOK(d) /\ Balanced(d, l)
      BY DEF Good
    <3>4. Continues(d, d, t)
      <4>1. Len(d.created) \in Nat
        BY <3>3, LenCreated
      <4> QED
        BY <4>1 DEF Continues
    <3>5. Len(e.log) = Len(l) + 0 /\ Len(e.log) >= Len(l)
          /\ \A j \in 1..0 : e.log[Len(l) + j] = Entry(id, tx[j], t)
      BY <3>2, <3>3
    <3>6. Running(d, l, id, tx, t, 0, e)
      BY <3>2, <3>3, <3>4, <3>5 DEF Running
    <3> QED
      BY <2>1, <3>6 DEF e
  <2>2. CASE k > 0
    <3> DEFINE j == k - 1
    <3>1. j \in Nat /\ j < k /\ j <= n /\ k \in 1..Len(tx) /\ j = k - 1
      BY <1>0, <2>2
    <3> HIDE DEF j
    <3>2. Running(d, l, id, tx, t, j, f[j])
      BY <1>1, <3>1
    <3>3. f[k] = ApplyProposed(f[j], id, tx[k], t)
      <4>1. k \in 0..n /\ k # 0
        BY <1>0, <2>2
      <4>2. f = [i \in 0..n |-> IF i = 0 THEN [ok |-> TRUE, db |-> d, log |-> l]
                               ELSE ApplyProposed(f[i - 1], id, tx[i], t)]
        BY Zenon DEF RunIs
      <4>3. f[k] = ApplyProposed(f[k - 1], id, tx[k], t)
        <5> HIDE DEF n
        <5> QED
          BY <4>1, <4>2
      <4> QED
        BY <3>1, <4>3
    <3>4. Running(d, l, id, tx, t, k, ApplyProposed(f[j], id, tx[k], t))
      BY <3>1, <3>2, RunStep
    <3> QED
      BY <3>3, <3>4
  <2> QED
    BY <2>1, <2>2
<1> HIDE DEF T
<1>2. Nat \subseteq T
  BY <1>1, NatSetInduction
<1> QED
  BY <1>0, <1>2 DEF T

\* What push_proposal does with the session it ends in.
LEMMA PushIs ==
  ASSUME NEW d, NEW l, NEW id, NEW t, d.proposals[id].tx \in Transactions
  PROVE  \E f : /\ RunIs(f, d, l, id, d.proposals[id].tx, t, Len(d.proposals[id].tx))
                /\ push_proposal(d, l, id, t) =
                     IF f[Len(d.proposals[id].tx)].ok
                     THEN [f[Len(d.proposals[id].tx)] EXCEPT !.db.proposals = Without(@, id)]
                     ELSE [ok |-> FALSE, db |-> d,
                           log |-> SubSeq(f[Len(d.proposals[id].tx)].log, 1, Len(l))]
<1> DEFINE tx == d.proposals[id].tx
           n == Len(tx)
           f == CHOOSE f : f = [i \in 0..n |-> IF i = 0 THEN [ok |-> TRUE, db |-> d, log |-> l]
                                               ELSE ApplyProposed(f[i - 1], id, tx[i], t)]
<1>1. n \in Nat
  BY TransactionsAssumption
<1>2. \E g : g = [i \in 0..n |-> IF i = 0 THEN [ok |-> TRUE, db |-> d, log |-> l]
                                ELSE ApplyProposed(g[i - 1], id, tx[i], t)]
  <2>1. \E g : RunIs(g, d, l, id, tx, t, n)
    <3> HIDE DEF tx, n
    <3> QED
      BY <1>1, RunExists
  <2> QED
    BY <2>1, Zenon DEF RunIs
<1>3. RunIs(f, d, l, id, tx, t, n)
  BY <1>2, Zenon DEF RunIs
<1>4. push_proposal(d, l, id, t) =
        IF f[n].ok THEN [f[n] EXCEPT !.db.proposals = Without(@, id)]
        ELSE [ok |-> FALSE, db |-> d, log |-> SubSeq(f[n].log, 1, Len(l))]
  BY Zenon DEF push_proposal
<1> QED
  BY <1>3, <1>4, Zenon

\* The operations of an executed proposal continue the history.
LEMMA HistoryGrows ==
  ASSUME NEW d, NEW l, Good(d, l), NEW id \in DOMAIN d.proposals, NEW t \in Nat,
         NeedsMiner(d.proposals[id].tx) => t - d.created[id].at > MinReview,
         NEW y, DbOK(y), Continues(d, y, t), id \notin DOMAIN y.proposals,
         NEW m \in Seq(Entries), Len(m) = Len(l) + Len(d.proposals[id].tx),
         \A j \in DOMAIN l : m[j] = l[j],
         \A j \in 1..Len(d.proposals[id].tx) : m[Len(l) + j] = Entry(id, d.proposals[id].tx[j], t)
  PROVE  History(y, m) /\ Reviewed(y, m)
<1> DEFINE tx == d.proposals[id].tx
           a == Len(l)
           n == Len(tx)
<1>1. /\ l \in Seq(Entries) /\ a \in Nat /\ DOMAIN l = 1..a
      /\ DbOK(d) /\ History(d, l) /\ Reviewed(d, l)
  BY DEF Good
<1>2. id \in DOMAIN d.created /\ tx = d.created[id].tx /\ tx \in Transactions
  <2>1. id \in DOMAIN d.created /\ d.created \in Seq(Creation) /\ tx = d.created[id].tx
    BY <1>1 DEF DbOK, ProposalOK
  <2>2. d.created[id] \in Creation
    BY <2>1
  <2> QED
    BY <2>1, <2>2 DEF Creation
<1>3. n \in Nat /\ DOMAIN tx = 1..n
  BY <1>2, TransactionsAssumption
<1>4. DOMAIN m = 1..(a + n) /\ Len(m) = a + n
  OBVIOUS
<1>5. \A j \in 1..a : m[j] = l[j]
  BY <1>1
<1>6. \A j \in 1..n : m[a + j] = Entry(id, tx[j], t)
  OBVIOUS
<1>7. NeedsMiner(tx) => t - d.created[id].at > MinReview
  OBVIOUS
<1> HIDE DEF tx, a, n
<1>8. \A j \in (1..(a + n)) \ (1..a) : j - a \in 1..n /\ a + (j - a) = j
  BY <1>1, <1>3
<1>9. \A j \in (1..(a + n)) \ (1..a) : m[j] = Entry(id, tx[j - a], t)
  BY <1>6, <1>8
<1>10. ASSUME NEW i \in 1..a
       PROVE  /\ l[i].proposal # id /\ y.created[l[i].proposal] = d.created[l[i].proposal]
              /\ Told(y, m, l[i].proposal, l[i].at)
  <2> DEFINE c == l[i].proposal
             u == l[i].at
             q == d.created[c].tx
  <2>1. Told(d, l, c, u)
    BY <1>1 DEF History
  <2>2. c \notin DOMAIN d.proposals /\ c \in DOMAIN d.created
    BY <2>1 DEF Told
  <2>3. c # id /\ c \in DOMAIN y.created /\ y.created[c] = d.created[c] /\ c \notin DOMAIN y.proposals
    BY <2>2 DEF Continues
  <2>4. Len(q) \in Nat /\ DOMAIN q = 1..Len(q)
    <3>1. d.created \in Seq(Creation)
      BY <1>1 DEF DbOK
    <3>2. d.created[c] \in Creation
      BY <2>2, <3>1
    <3> QED
      BY <3>2, TransactionsAssumption DEF Creation
  <2>5. PICK s \in 0..(a - Len(q)) : WholeFrom(l, c, q, u, s)
    BY <2>1 DEF Told, a
  <2> HIDE DEF c, u, q
  <2>6. s \in 0..(Len(m) - Len(q))
    BY <1>1, <1>3, <1>4, <2>4
  <2>7. WholeFrom(m, c, q, u, s)
    <3> SUFFICES ASSUME NEW j \in 1..(a + n)
                 PROVE  IF j - s \in DOMAIN q THEN m[j] = Entry(c, q[j - s], u) ELSE m[j].proposal # c
      BY <1>4 DEF WholeFrom
    <3>1. CASE j \in 1..a
      BY <1>1, <1>5, <2>5, <3>1 DEF WholeFrom
    <3>2. CASE j \notin 1..a
      <4>1. j - s \notin 1..Len(q)
        BY <1>1, <1>3, <2>4, <3>2
      <4>2. m[j] = Entry(id, tx[j - a], t)
        BY <1>9, <3>2
      <4>3. m[j].proposal = id
        BY <4>2 DEF Entry
      <4> QED
        BY <2>3, <2>4, <4>1, <4>3
    <3> QED
      BY <3>1, <3>2
  <2>8. Told(y, m, c, u)
    BY <2>3, <2>6, <2>7 DEF Told, q
  <2> QED
    BY <2>3, <2>8 DEF c, u
<1>11. ASSUME NEW i \in (1..(a + n)) \ (1..a) PROVE Told(y, m, id, t)
  <2>1. id \in DOMAIN y.created /\ y.created[id].tx = tx
    BY <1>2 DEF Continues
  <2>2. a \in 0..(Len(m) - Len(tx))
    <3>1. Len(tx) = n
      BY DEF n
    <3> QED
      BY <1>1, <1>3, <1>4, <3>1
  <2>3. WholeFrom(m, id, tx, t, a)
    <3> SUFFICES ASSUME NEW j \in 1..(a + n)
                 PROVE  IF j - a \in DOMAIN tx THEN m[j] = Entry(id, tx[j - a], t) ELSE m[j].proposal # id
      BY <1>4 DEF WholeFrom
    <3>1. CASE j \in 1..a
      <4>1. j - a \notin 1..n
        BY <1>1, <1>3, <3>1
      <4>2. m[j].proposal # id
        BY <1>5, <1>10, <3>1
      <4> QED
        BY <1>3, <4>1, <4>2
    <3>2. CASE j \notin 1..a
      BY <1>3, <1>8, <1>9, <3>2
    <3> QED
      BY <3>1, <3>2
  <2> QED
    BY <2>1, <2>2, <2>3 DEF Told
<1>12. ASSUME NEW i \in DOMAIN m PROVE Told(y, m, m[i].proposal, m[i].at)
  <2>1. CASE i \in 1..a
    BY <1>5, <1>10, <2>1
  <2>2. CASE i \notin 1..a
    <3>1. m[i].proposal = id /\ m[i].at = t
      BY <1>4, <1>9, <2>2 DEF Entry
    <3> QED
      BY <1>4, <1>11, <2>2, <3>1
  <2> QED
    BY <2>1, <2>2
<1>13. ASSUME NEW i \in DOMAIN m, ForMiner(m[i].op)
       PROVE  m[i].at - y.created[m[i].proposal].at > MinReview
  <2>1. CASE i \in 1..a
    BY <1>1, <1>5, <1>10, <1>13, <2>1 DEF Reviewed
  <2>2. CASE i \notin 1..a
    <3>1. m[i].proposal = id /\ m[i].at = t /\ m[i].op = tx[i - a] /\ i - a \in DOMAIN tx
      BY <1>3, <1>4, <1>8, <1>9, <2>2 DEF Entry
    <3>2. NeedsMiner(tx)
      BY <1>13, <3>1 DEF NeedsMiner, Required, ForMiner
    <3>3. y.created[id] = d.created[id]
      BY <1>2 DEF Continues
    <3> QED
      BY <1>7, <3>1, <3>2, <3>3
  <2> QED
    BY <2>1, <2>2
<1> QED
  BY <1>12, <1>13 DEF History, Reviewed

\* push_proposal: everything or nothing.
LEMMA PushDone ==
  ASSUME NEW d, NEW l, Good(d, l), NEW id \in DOMAIN d.proposals, NEW t \in Nat,
         NeedsMiner(d.proposals[id].tx) => t - d.created[id].at > MinReview,
         NEW x, x = push_proposal(d, l, id, t)
  PROVE  /\ DOMAIN x = {"ok", "db", "log"} /\ x.ok \in BOOLEAN
         /\ x.ok => Good(x.db, x.log) /\ Continues(d, x.db, t) /\ id \notin DOMAIN x.db.proposals
         /\ ~x.ok => x.db = d /\ x.log = l
<1> DEFINE tx == d.proposals[id].tx
           n == Len(tx)
<1>1. /\ l \in Seq(Entries) /\ Len(l) \in Nat /\ DOMAIN l = 1..Len(l) /\ DbOK(d)
  BY DEF Good
<1>2. id \in Nat /\ tx \in Transactions /\ \A i \in DOMAIN tx : tx[i].type # "proposal_update"
  <2>1. /\ id \in DOMAIN d.created /\ d.created \in Seq(Creation) /\ tx = d.created[id].tx
        /\ \A i \in DOMAIN tx : tx[i].type # "proposal_update"
    BY <1>1 DEF DbOK, ProposalOK
  <2>2. d.created[id] \in Creation /\ id \in Nat
    BY <2>1
  <2> QED
    BY <2>1, <2>2 DEF Creation
<1>3. PICK f : /\ RunIs(f, d, l, id, tx, t, n)
               /\ x = IF f[n].ok THEN [f[n] EXCEPT !.db.proposals = Without(@, id)]
                      ELSE [ok |-> FALSE, db |-> d, log |-> SubSeq(f[n].log, 1, Len(l))]
  BY <1>2, PushIs
<1> DEFINE e == f[n]
<1>4. Running(d, l, id, tx, t, n, e)
  <2> HIDE DEF tx
  <2> QED
    BY <1>2, <1>3, RunEnds
<1>5. /\ DOMAIN e = {"ok", "db", "log"} /\ e.ok \in BOOLEAN
      /\ e.log \in Seq(Entries) /\ Len(e.log) >= Len(l)
      /\ \A j \in DOMAIN l : e.log[j] = l[j]
  BY <1>4 DEF Running
<1>6. x = IF e.ok THEN [e EXCEPT !.db.proposals = Without(@, id)]
          ELSE [ok |-> FALSE, db |-> d, log |-> SubSeq(e.log, 1, Len(l))]
  BY <1>3
<1> HIDE DEF e
<1>7. CASE ~e.ok
  <2>1. x = [ok |-> FALSE, db |-> d, log |-> SubSeq(e.log, 1, Len(l))]
    BY <1>6, <1>7
  <2>2. DOMAIN x = {"ok", "db", "log"} /\ x.ok \in BOOLEAN /\ ~x.ok /\ x.db = d
        /\ x.log = SubSeq(e.log, 1, Len(l))
    BY <2>1
  <2>3. SubSeq(e.log, 1, Len(l)) = l
    <3> DEFINE c == SubSeq(e.log, 1, Len(l))
    <3>1. c = [i \in 1..Len(l) |-> e.log[i]]
      BY <1>1, <1>5
    <3>2. l = [i \in 1..Len(l) |-> l[i]]
      BY <1>1
    <3>3. \A i \in 1..Len(l) : e.log[i] = l[i]
      BY <1>1, <1>5
    <3> HIDE DEF c
    <3>4. c = l
      BY <3>1, <3>2, <3>3
    <3> QED
      BY <3>4 DEF c
  <2> QED
    BY <2>2, <2>3
<1>8. CASE e.ok
  <2> DEFINE y == [e.db EXCEPT !.proposals = Without(@, id)]
  <2>1. /\ DbOK(e.db) /\ Continues(d, e.db, t) /\ Balanced(e.db, e.log)
        /\ Len(e.log) = Len(l) + n
        /\ \A j \in 1..n : e.log[Len(l) + j] = Entry(id, tx[j], t)
    BY <1>4, <1>8 DEF Running
  <2>2. x = [e EXCEPT !.db.proposals = Without(@, id)]
    BY <1>6, <1>8
  <2>3. DOMAIN x = {"ok", "db", "log"} /\ x.ok \in BOOLEAN /\ x.ok /\ x.db = y /\ x.log = e.log
    BY <1>5, <1>8, <2>2
  <2>4. DOMAIN e.db = Fields
    BY <2>1 DEF DbOK
  <2>5. /\ DOMAIN y = Fields /\ y.balance = e.db.balance /\ y.created = e.db.created
        /\ y.proposals = Without(e.db.proposals, id)
        /\ y.active = e.db.active /\ y.owner = e.db.owner
    BY <2>4 DEF Fields
  <2> HIDE DEF y
  <2>6. /\ DOMAIN y.proposals \subseteq DOMAIN e.db.proposals /\ id \notin DOMAIN y.proposals
        /\ \A i \in DOMAIN y.proposals : y.proposals[i] = e.db.proposals[i]
    BY <2>5 DEF Without
  <2>7. DbOK(y) /\ Continues(e.db, y, t)
    <3>1. AuthoritiesOK(y)
      BY <2>1, <2>5 DEF DbOK, AuthoritiesOK
    <3> QED
      BY <2>1, <2>5, <2>6, <3>1, FewerProposals
  <2>8. Continues(d, y, t)
    <3>1. Len(d.created) \in Nat /\ Len(e.db.created) \in Nat /\ Len(y.created) \in Nat
      BY <1>1, <2>1, <2>7, LenCreated
    <3> QED
      BY <2>1, <2>7, <3>1, ContinuesTrans
  <2>9. Balanced(y, e.log)
    BY <2>1, <2>5 DEF Balanced
  <2>10. History(y, e.log) /\ Reviewed(y, e.log)
    BY <1>5, <2>1, <2>6, <2>7, <2>8, HistoryGrows
  <2>11. Good(y, e.log)
    BY <1>5, <2>7, <2>9, <2>10 DEF Good
  <2> QED
    BY <2>3, <2>6, <2>8, <2>11
<1> QED
  BY <1>5, <1>7, <1>8

LEMMA FirstIsExpired ==
  ASSUME NEW d, DbOK(d), NEW t, Expired(d, t) # {}
  PROVE  FirstExpired(d, t) \in Expired(d, t)
<1> DEFINE S == Expired(d, t)
           w == [i \in S |-> d.proposals[i].expiration]
           T == {w[i] : i \in S}
<1>1. \A i \in S : i \in Nat /\ w[i] \in Nat /\ w[i] = d.proposals[i].expiration
  BY DEF Expired, DbOK, ProposalOK
<1>2. S # {}
  OBVIOUS
<1> HIDE DEF S, w
<1>3. PICK m \in T : \A k \in T : m <= k
  <2>1. T \subseteq Nat /\ T # {}
    BY <1>1, <1>2
  <2> HIDE DEF T
  <2> QED
    BY <2>1, LeastNat
<1> DEFINE U == {i \in S : w[i] = m}
<1>4. PICK i \in U : \A j \in U : i <= j
  <2>1. U \subseteq Nat /\ U # {}
    BY <1>1, <1>3
  <2> HIDE DEF U
  <2> QED
    BY <2>1, LeastNat
<1>5. ASSUME NEW j \in S PROVE w[i] < w[j] \/ (w[i] = w[j] /\ i <= j)
  <2>1. w[i] <= w[j] /\ w[i] \in Nat /\ w[j] \in Nat /\ w[i] = m
    BY <1>1, <1>3, <1>4
  <2>2. w[j] = m => i <= j
    BY <1>4
  <2> QED
    BY <2>1, <2>2
<1>6. \E i1 \in S : \A j \in S : \/ d.proposals[i1].expiration < d.proposals[j].expiration
                                 \/ d.proposals[i1].expiration = d.proposals[j].expiration /\ i1 <= j
  BY <1>1, <1>4, <1>5
<1> QED
  BY <1>6 DEF FirstExpired, S

-----------------------------------------------------------------------------
(* The loop over the expired proposals.                                     *)

LEMMA ExpiredFinite ==
  ASSUME NEW d, DbOK(d), NEW t
  PROVE  IsFiniteSet(Expired(d, t)) /\ Cardinality(Expired(d, t)) \in Nat
<1>1. Len(d.created) \in Nat /\ Expired(d, t) \subseteq 1..Len(d.created)
  BY LenCreated DEF Expired, DbOK
<1>2. IsFiniteSet(1..Len(d.created))
  BY <1>1, FS_Interval
<1> QED
  BY <1>1, <1>2, FS_Subset, FS_CardinalityType

\* A proposal that is removed and others that expire later: one expired less.
LEMMA OneLess ==
  ASSUME NEW d, DbOK(d), NEW t \in Nat, NEW i \in Expired(d, t), NEW r, DbOK(r),
         Continues(d, r, t), i \notin DOMAIN r.proposals
  PROVE  Cardinality(Expired(r, t)) < Cardinality(Expired(d, t))
<1>1. Expired(r, t) \subseteq Expired(d, t) \ {i}
  <2> SUFFICES ASSUME NEW j \in Expired(r, t) PROVE j \in Expired(d, t) \ {i}
    OBVIOUS
  <2>1. j \in DOMAIN r.proposals /\ r.proposals[j].expiration <= t /\ r.proposals[j].expiration \in Nat
    BY DEF Expired, DbOK, ProposalOK
  <2>2. j \in DOMAIN d.proposals /\ r.proposals[j].expiration = d.proposals[j].expiration
    BY <2>1 DEF Continues
  <2> QED
    BY <2>1, <2>2 DEF Expired
<1>2. IsFiniteSet(Expired(d, t)) /\ Cardinality(Expired(d, t)) \in Nat
  BY ExpiredFinite
<1>3. Cardinality(Expired(r, t)) \in Nat
  BY ExpiredFinite
<1> DEFINE A == Expired(r, t)
           B == Expired(d, t)
<1> HIDE DEF A, B
<1>4. IsFiniteSet(B) /\ Cardinality(B) \in Nat /\ i \in B /\ A \subseteq B \ {i} /\ Cardinality(A) \in Nat
  BY <1>1, <1>2, <1>3 DEF A, B
<1>5. IsFiniteSet(B \ {i}) /\ Cardinality(B \ {i}) = Cardinality(B) - 1
  BY <1>4, FS_RemoveElement
<1>6. Cardinality(A) <= Cardinality(B \ {i})
  BY <1>4, <1>5, FS_Subset
<1>7. Cardinality(A) < Cardinality(B)
  BY <1>4, <1>5, <1>6
<1> QED
  BY <1>7 DEF A, B

\* The loop after k rounds of at most n.
Clearing(t, n, k, e) ==
  /\ DOMAIN e = {"ok", "db", "log"}
  /\ Good(e.db, e.log)
  /\ Cardinality(Expired(e.db, t)) <= n - k

LEMMA ClearStep ==
  ASSUME NEW t \in Nat, NEW n \in Nat, NEW k \in 1..n, NEW e, Clearing(t, n, k - 1, e)
  PROVE  Clearing(t, n, k, ClearFirst(e, t))
<1> DEFINE i == FirstExpired(e.db, t)
           x == push_proposal(e.db, e.log, i, t)
           z == [e EXCEPT !.db.proposals = Without(@, i)]
<1>1. /\ DOMAIN e = {"ok", "db", "log"} /\ Good(e.db, e.log) /\ DbOK(e.db)
      /\ Cardinality(Expired(e.db, t)) <= n - (k - 1)
  BY DEF Clearing, Good
<1>2. Cardinality(Expired(e.db, t)) \in Nat
  BY <1>1, ExpiredFinite
<1>3. CASE Expired(e.db, t) = {}
  <2>1. ClearFirst(e, t) = e
    BY <1>3 DEF ClearFirst
  <2>2. Cardinality(Expired(e.db, t)) = 0
    BY <1>3, FS_EmptySet
  <2>3. Cardinality(Expired(e.db, t)) <= n - k
    BY <2>2
  <2> QED
    BY <1>1, <2>1, <2>3 DEF Clearing
<1>4. CASE Expired(e.db, t) # {}
  <2>1. i \in Expired(e.db, t)
    BY <1>1, <1>4, FirstIsExpired
  <2>2. i \in DOMAIN e.db.proposals
    BY <2>1 DEF Expired
  <2>3. \/ ClearFirst(e, t) = x /\ x.ok
        \/ ClearFirst(e, t) = z
    BY <1>4 DEF ClearFirst
  <2> HIDE DEF i
  <2>4. NeedsMiner(e.db.proposals[i].tx) => t - e.db.created[i].at > MinReview
    <3>1. ProposalOK(e.db.proposals[i], e.db.created[i]) /\ e.db.proposals[i].expiration <= t
      BY <1>1, <2>1 DEF DbOK, Expired
    <3>2. e.db.created[i] \in Creation
      BY <1>1, <2>2 DEF DbOK
    <3>3. e.db.created[i].at \in Nat /\ e.db.proposals[i].expiration \in Nat
      BY <3>1, <3>2 DEF Creation, ProposalOK
    <3> QED
      BY <3>1, <3>3, ProposalsAssumption DEF ProposalOK
  <2>5. ASSUME NEW y, DOMAIN y = {"ok", "db", "log"}, Good(y.db, y.log), Continues(e.db, y.db, t),
               i \notin DOMAIN y.db.proposals
        PROVE  Clearing(t, n, k, y)
    <3>1. DbOK(y.db)
      BY <2>5 DEF Good
    <3>2. Cardinality(Expired(y.db, t)) < Cardinality(Expired(e.db, t))
      BY <1>1, <2>1, <2>5, <3>1, OneLess
    <3>3. Cardinality(Expired(y.db, t)) \in Nat
      BY <3>1, ExpiredFinite
    <3>4. Cardinality(Expired(y.db, t)) <= n - k
      BY <1>1, <1>2, <3>2, <3>3
    <3> QED
      BY <2>5, <3>4 DEF Clearing
  <2>6. CASE ClearFirst(e, t) = x /\ x.ok
    <3>1. /\ DOMAIN x = {"ok", "db", "log"}
          /\ x.ok => Good(x.db, x.log) /\ Continues(e.db, x.db, t) /\ i \notin DOMAIN x.db.proposals
      <4> HIDE DEF x
      <4>1. x = push_proposal(e.db, e.log, i, t)
        BY DEF x
      <4> QED
        BY <1>1, <2>2, <2>4, <4>1, PushDone
    <3> HIDE DEF x
    <3> QED
      BY <2>5, <2>6, <3>1
  <2>7. CASE ClearFirst(e, t) = z
    <3> DEFINE r == [e.db EXCEPT !.proposals = Without(@, i)]
    <3>1. DOMAIN z = {"ok", "db", "log"} /\ z.db = r /\ z.log = e.log
      BY <1>1
    <3>2. DOMAIN e.db = Fields
      BY <1>1 DEF DbOK
    <3>3. /\ DOMAIN r = Fields /\ r.balance = e.db.balance /\ r.created = e.db.created
          /\ r.proposals = Without(e.db.proposals, i)
          /\ r.active = e.db.active /\ r.owner = e.db.owner
      BY <3>2 DEF Fields
    <3> HIDE DEF r, z
    <3>4. /\ DOMAIN r.proposals \subseteq DOMAIN e.db.proposals /\ i \notin DOMAIN r.proposals
          /\ \A j \in DOMAIN r.proposals : r.proposals[j] = e.db.proposals[j]
      BY <3>3 DEF Without
    <3>5. DbOK(r) /\ Continues(e.db, r, t)
      <4>1. AuthoritiesOK(r)
        BY <1>1, <3>3 DEF DbOK, AuthoritiesOK
      <4> QED
        BY <1>1, <3>3, <3>4, <4>1, FewerProposals
    <3>6. Good(r, e.log)
      BY <1>1, <3>3, <3>5, GoodContinues
    <3>7. Clearing(t, n, k, z)
      BY <2>5, <3>1, <3>4, <3>5, <3>6
    <3> QED
      BY <2>7, <3>7
  <2> QED
    BY <2>3, <2>6, <2>7
<1> QED
  BY <1>3, <1>4

RoundIs(f, d, l, t, n) ==
  f = [i \in 0..n |-> IF i = 0 THEN [ok |-> TRUE, db |-> d, log |-> l] ELSE ClearFirst(f[i - 1], t)]

LEMMA RoundExists ==
  ASSUME NEW d, NEW l, NEW t
  PROVE  \A n \in Nat : \E f : RoundIs(f, d, l, t, n)
<1> DEFINE T == {n \in Nat : \E f : RoundIs(f, d, l, t, n)}
<1>1. ASSUME NEW n \in Nat, \A m \in Nat : m < n => m \in T
      PROVE  n \in T
  <2>1. CASE n = 0
    <3> DEFINE f == [i \in 0..0 |-> [ok |-> TRUE, db |-> d, log |-> l]]
    <3>1. \A i \in 0..0 : i = 0
      OBVIOUS
    <3>2. RoundIs(f, d, l, t, 0)
      BY <3>1 DEF RoundIs
    <3> QED
      BY <2>1, <3>2
  <2>2. CASE n > 0
    <3> DEFINE k == n - 1
    <3>1. k \in Nat /\ k < n /\ n = k + 1
      BY <2>2
    <3> HIDE DEF k
    <3>2. PICK g : RoundIs(g, d, l, t, k)
      BY <1>1, <3>1
    <3> DEFINE f == [i \in 0..n |-> IF i <= k THEN g[i] ELSE ClearFirst(g[k], t)]
               h == [i \in 0..n |-> IF i = 0 THEN [ok |-> TRUE, db |-> d, log |-> l]
                                    ELSE ClearFirst(f[i - 1], t)]
    <3>3. ASSUME NEW i \in 0..n PROVE f[i] = h[i]
      <4>1. CASE i = 0
        <5>1. g[0] = [ok |-> TRUE, db |-> d, log |-> l]
          BY <3>1, <3>2 DEF RoundIs
        <5> QED
          BY <3>1, <4>1, <5>1
      <4>2. CASE i # 0 /\ i <= k
        <5>1. i \in 0..k /\ i - 1 \in 0..n /\ i - 1 <= k
          BY <3>1, <4>2
        <5>2. g[i] = ClearFirst(g[i - 1], t)
          BY <3>2, <4>2, <5>1 DEF RoundIs
        <5>3. f[i] = g[i] /\ f[i - 1] = g[i - 1]
          BY <4>2, <5>1
        <5>4. h[i] = ClearFirst(f[i - 1], t)
          BY <4>2
        <5> HIDE DEF f, h
        <5> QED
          BY <5>2, <5>3, <5>4
      <4>3. CASE i = n
        <5>1. ~(n <= k) /\ n # 0 /\ n - 1 = k /\ k \in 0..n /\ k <= k
          BY <3>1
        <5>2. f[i] = ClearFirst(g[k], t) /\ f[k] = g[k]
          BY <4>3, <5>1
        <5>3. h[i] = ClearFirst(f[n - 1], t)
          BY <4>3, <5>1
        <5> HIDE DEF f, h
        <5> QED
          BY <5>1, <5>2, <5>3
      <4> QED
        BY <3>1, <4>1, <4>2, <4>3
    <3>4. f = h
      BY <3>3
    <3>5. RoundIs(f, d, l, t, n)
      BY <3>4, Zenon DEF RoundIs
    <3> QED
      BY <3>5
  <2> QED
    BY <2>1, <2>2
<1> HIDE DEF T
<1>2. Nat \subseteq T
  BY <1>1, NatSetInduction
<1> QED
  BY <1>2 DEF T

LEMMA RoundsEnd ==
  ASSUME NEW d, NEW l, Good(d, l), NEW t \in Nat, NEW n \in Nat, n = Cardinality(Expired(d, t)),
         NEW f, RoundIs(f, d, l, t, n)
  PROVE  Clearing(t, n, n, f[n])
<1> DEFINE T == {k \in Nat : k <= n => Clearing(t, n, k, f[k])}
<1>1. ASSUME NEW k \in Nat, \A m \in Nat : m < k => m \in T
      PROVE  k \in T
  <2> SUFFICES ASSUME k <= n PROVE Clearing(t, n, k, f[k])
    OBVIOUS
  <2>1. CASE k = 0
    <3>1. f[0] = [ok |-> TRUE, db |-> d, log |-> l]
      BY DEF RoundIs
    <3> DEFINE e == f[0]
    <3>2. DOMAIN e = {"ok", "db", "log"} /\ e.log = l /\ e.db = d
      BY <3>1
    <3> HIDE DEF e
    <3>3. Clearing(t, n, 0, e)
      BY <3>2 DEF Clearing
    <3> QED
      BY <2>1, <3>3 DEF e
  <2>2. CASE k > 0
    <3> DEFINE j == k - 1
    <3>1. j \in Nat /\ j < k /\ j <= n /\ k \in 1..n /\ j = k - 1
      BY <2>2
    <3> HIDE DEF j
    <3>2. Clearing(t, n, j, f[j])
      BY <1>1, <3>1
    <3>3. f[k] = ClearFirst(f[j], t)
      <4>1. k \in 0..n /\ k # 0
        BY <2>2
      <4>2. f = [i \in 0..n |-> IF i = 0 THEN [ok |-> TRUE, db |-> d, log |-> l] ELSE ClearFirst(f[i - 1], t)]
        BY Zenon DEF RoundIs
      <4>3. f[k] = ClearFirst(f[k - 1], t)
        BY <4>1, <4>2
      <4> QED
        BY <3>1, <4>3
    <3>4. Clearing(t, n, k, ClearFirst(f[j], t))
      BY <3>1, <3>2, ClearStep
    <3> QED
      BY <3>3, <3>4
  <2> QED
    BY <2>1, <2>2
<1> HIDE DEF T
<1>2. Nat \subseteq T
  BY <1>1, NatSetInduction
<1> QED
  BY <1>2 DEF T

NoneExpired(d, t) == \A i \in DOMAIN d.proposals : d.proposals[i].expiration > t

LEMMA AllCleared ==
  ASSUME NEW d, NEW l, Good(d, l), NEW t \in Nat, NEW e, e = clear_expired_proposals(d, l, t)
  PROVE  Good(e.db, e.log) /\ NoneExpired(e.db, t)
<1> DEFINE n == Cardinality(Expired(d, t))
           f == CHOOSE f : f = [i \in 0..n |-> IF i = 0 THEN [ok |-> TRUE, db |-> d, log |-> l]
                                               ELSE ClearFirst(f[i - 1], t)]
<1>1. n \in Nat
  BY ExpiredFinite DEF Good
<1>2. \E g : g = [i \in 0..n |-> IF i = 0 THEN [ok |-> TRUE, db |-> d, log |-> l]
                                ELSE ClearFirst(g[i - 1], t)]
  <2>1. \E g : RoundIs(g, d, l, t, n)
    <3> HIDE DEF n
    <3> QED
      BY <1>1, RoundExists
  <2> QED
    BY <2>1, Zenon DEF RoundIs
<1>3. RoundIs(f, d, l, t, n)
  BY <1>2, Zenon DEF RoundIs
<1>4. e = f[n]
  BY Zenon DEF clear_expired_proposals
<1>5. Clearing(t, n, n, e)
  <2>0. n = Cardinality(Expired(d, t))
    OBVIOUS
  <2> HIDE DEF n, f
  <2>1. Clearing(t, n, n, f[n])
    BY <1>1, <1>3, <2>0, RoundsEnd
  <2> QED
    BY <1>4, <2>1
<1> HIDE DEF n, f
<1>6. Good(e.db, e.log) /\ DbOK(e.db) /\ Cardinality(Expired(e.db, t)) <= n - n
  BY <1>5 DEF Clearing, Good
<1>7. Expired(e.db, t) = {}
  <2>1. IsFiniteSet(Expired(e.db, t)) /\ Cardinality(Expired(e.db, t)) \in Nat
    BY <1>6, ExpiredFinite
  <2>2. Cardinality(Expired(e.db, t)) = 0
    BY <1>1, <1>6, <2>1
  <2> QED
    BY <2>1, <2>2, FS_EmptySet
<1>8. NoneExpired(e.db, t)
  <2>1. \A i \in DOMAIN e.db.proposals : e.db.proposals[i].expiration \in Nat
    BY <1>6 DEF DbOK, ProposalOK
  <2> QED
    BY <1>7, <2>1 DEF NoneExpired, Expired
<1> QED
  BY <1>6, <1>8

-----------------------------------------------------------------------------
(* The invariant.                                                           *)

PInv == now \in Nat /\ Good(db, log) /\ NoneExpired(db, now)

LEMMA PInit == Init => PInv
<1> SUFFICES ASSUME Init PROVE PInv
  OBVIOUS
<1>1. /\ now = 0 /\ log = <<>> /\ DOMAIN db = Fields
      /\ db.balance = Balance0 /\ db.proposals = <<>> /\ db.created = <<>>
      /\ db.active = Active0 /\ db.owner = Owner0
  BY DEF Init, Fields
<1>2. DOMAIN db.proposals = {} /\ DOMAIN db.created = {} /\ DOMAIN log = {}
  BY <1>1
<1>3. DbOK(db)
  <2>1. db.created \in Seq(Creation)
    BY <1>1
  <2> QED
    BY <1>1, <1>2, <2>1, ProposalsAssumption, AuthoritiesAssumption DEF DbOK, AuthoritiesOK
<1>4. Balanced(db, log)
  <2>1. \A a : Received(log, a) = Cardinality({}) /\ Sent(log, a) = Cardinality({})
    <3>1. \A a : /\ {i \in DOMAIN log : log[i].op.type = "transfer" /\ log[i].op.to = a} = {}
                 /\ {i \in DOMAIN log : log[i].op.type = "transfer" /\ log[i].op.from = a} = {}
      BY <1>2
    <3> QED
      BY <3>1, Zenon DEF Received, Sent
  <2>2. Cardinality({}) = 0
    BY FS_EmptySet
  <2>3. \A a \in Accounts : Balance0[a] \in Nat
    BY ProposalsAssumption
  <2> QED
    BY <1>1, <2>1, <2>2, <2>3 DEF Balanced
<1>5. log \in Seq(Entries)
  BY <1>1
<1> QED
  BY <1>1, <1>2, <1>3, <1>4, <1>5 DEF PInv, Good, History, Reviewed, NoneExpired

\* A step at the current time that only continues the proposals.
LEMMA NoneExpiredContinues ==
  ASSUME NEW d, NEW r, NEW t, NoneExpired(d, t), Continues(d, r, t)
  PROVE  NoneExpired(r, t)
  BY DEF NoneExpired, Continues

LEMMA StepContinues ==
  ASSUME PInv, DbOK(db'), Continues(db, db', now), db'.balance = db.balance, UNCHANGED <<now, log>>
  PROVE  PInv'
<1>1. Good(db', log)
  BY GoodContinues DEF PInv
<1>2. NoneExpired(db', now)
  BY NoneExpiredContinues DEF PInv
<1> QED
  BY <1>1, <1>2 DEF PInv

LEMMA CreateKeeps == PInv /\ Create => PInv'
<1> SUFFICES ASSUME PInv, Create PROVE PInv'
  OBVIOUS
<1>1. PICK tx \in Transactions, expiration \in Expirations, review \in Optional(Reviews) :
        /\ db' \in proposal_create(db, [type |-> "proposal_create", payer |-> Miner, tx |-> tx,
                                        expiration |-> expiration, review |-> review], now)
        /\ UNCHANGED <<now, log>>
  BY DEF Create
<1> DEFINE op == [type |-> "proposal_create", payer |-> Miner, tx |-> tx,
                  expiration |-> expiration, review |-> review]
<1>2. op.tx \in Transactions /\ op.expiration \in Nat /\ op.review \subseteq Nat
  BY ProposalsAssumption DEF Optional
<1>3. db' \in proposal_create(db, op, now)
  BY <1>1
<1> HIDE DEF op
<1>4. DbOK(db') /\ Continues(db, db', now) /\ db'.balance = db.balance
  BY <1>2, <1>3, ProposalCreateOK DEF PInv, Good
<1> QED
  BY <1>1, <1>4, StepContinues

LEMMA DeleteKeeps == PInv /\ Delete => PInv'
<1> SUFFICES ASSUME PInv, Delete PROVE PInv'
  OBVIOUS
<1>1. PICK op : db' \in proposal_delete(db, op) /\ UNCHANGED <<now, log>>
  BY DEF Delete
<1>2. DbOK(db') /\ Continues(db, db', now) /\ db'.balance = db.balance
  BY <1>1, ProposalDeleteOK DEF PInv, Good
<1> QED
  BY <1>1, <1>2, StepContinues

LEMMA UpdateAccountKeeps == PInv /\ UpdateAccount => PInv'
<1> SUFFICES ASSUME PInv, UpdateAccount PROVE PInv'
  OBVIOUS
<1>1. PICK op \in Updates : db' \in account_update(db, op) /\ UNCHANGED <<now, log>>
  BY DEF UpdateAccount
<1>2. /\ op.type = "account_update" /\ op.account \in Accounts
      /\ \A au \in op.owner \cup op.active : IsAuthority(au)
  BY ProposalsAssumption, AuthoritiesAssumption
<1>3. DbOK(db') /\ Continues(db, db', now) /\ db'.balance = db.balance
  BY <1>1, <1>2, AccountUpdateOK DEF PInv, Good
<1> QED
  BY <1>1, <1>3, StepContinues

LEMMA ProposalUpdateKeeps ==
  ASSUME PInv, NEW op, op.proposal \in DOMAIN db.proposals, proposal_update(op), UNCHANGED now,
         op.active_add \subseteq Accounts, op.owner_add \subseteq Accounts, op.key_add \subseteq Keys
  PROVE  PInv'
<1> DEFINE id == op.proposal
           p == db.proposals[id]
           q == [p EXCEPT !.active = (@ \cup op.active_add) \ op.active_remove,
                          !.owner = (@ \cup op.owner_add) \ op.owner_remove,
                          !.keys = (@ \cup op.key_add) \ op.key_remove]
           d == [db EXCEPT !.proposals[id] = q]
           e == push_proposal(d, log, id, now)
<1>1. \/ q.review = {} /\ db' = e.db /\ log' = e.log
      \/ db' = d /\ log' = log
  BY DEF proposal_update
<1>2. Good(db, log) /\ DbOK(db) /\ now \in Nat /\ NoneExpired(db, now)
  BY DEF PInv, Good
<1>3. DOMAIN db = Fields /\ ProposalOK(p, db.created[id])
  BY <1>2 DEF DbOK
<1>4. /\ DOMAIN q = ProposalFields /\ q.tx = p.tx /\ q.expiration = p.expiration /\ q.review = p.review
      /\ q.required_active = p.required_active /\ q.required_owner = p.required_owner
      /\ q.active \subseteq Accounts /\ q.owner \subseteq Accounts /\ q.keys \subseteq Keys
  <2>1. /\ DOMAIN p = ProposalFields
        /\ p.active \subseteq Accounts /\ p.owner \subseteq Accounts /\ p.keys \subseteq Keys
    BY <1>3 DEF ProposalOK
  <2> HIDE DEF p
  <2>2. /\ DOMAIN q = ProposalFields /\ q.tx = p.tx /\ q.expiration = p.expiration /\ q.review = p.review
        /\ q.required_active = p.required_active /\ q.required_owner = p.required_owner
        /\ q.active = (p.active \cup op.active_add) \ op.active_remove
        /\ q.owner = (p.owner \cup op.owner_add) \ op.owner_remove
        /\ q.keys = (p.keys \cup op.key_add) \ op.key_remove
    BY <2>1 DEF ProposalFields
  <2> HIDE DEF q
  <2> QED
    BY <2>1, <2>2
<1>5. ProposalOK(q, db.created[id])
  <2> HIDE DEF q, p
  <2> QED
    BY <1>3, <1>4 DEF ProposalOK
<1> HIDE DEF q
<1>6. /\ DOMAIN d = Fields /\ d.balance = db.balance /\ d.created = db.created
      /\ d.active = db.active /\ d.owner = db.owner
      /\ DOMAIN d.proposals = DOMAIN db.proposals /\ d.proposals[id] = q
      /\ \A i \in DOMAIN d.proposals : i # id => d.proposals[i] = db.proposals[i]
  BY <1>3 DEF Fields
<1> HIDE DEF d
<1>7. DbOK(d)
  <2>1. \A i \in DOMAIN d.proposals : ProposalOK(d.proposals[i], d.created[i])
    BY <1>2, <1>5, <1>6 DEF DbOK
  <2> QED
    BY <1>2, <1>6, <2>1 DEF DbOK, AuthoritiesOK
<1>8. Continues(db, d, now)
  <2>1. Len(db.created) \in Nat
    BY <1>2, LenCreated
  <2>2. \A i \in DOMAIN d.proposals : i \in DOMAIN db.proposals /\ d.proposals[i].expiration = db.proposals[i].expiration
    BY <1>4, <1>6
  <2> QED
    BY <1>6, <2>1, <2>2 DEF Continues
<1>9. Good(d, log) /\ NoneExpired(d, now)
  BY <1>2, <1>6, <1>7, <1>8, GoodContinues, NoneExpiredContinues
<1>10. CASE db' = d /\ log' = log
  BY <1>2, <1>9, <1>10 DEF PInv
<1>11. CASE q.review = {} /\ db' = e.db /\ log' = e.log
  <2>1. ~NeedsMiner(d.proposals[id].tx) /\ id \in DOMAIN d.proposals
    BY <1>5, <1>6, <1>11 DEF ProposalOK
  <2>2. e = push_proposal(d, log, id, now)
    OBVIOUS
  <2> HIDE DEF e, id
  <2>3. /\ e.ok \in BOOLEAN
        /\ e.ok => Good(e.db, e.log) /\ Continues(d, e.db, now)
        /\ ~e.ok => e.db = d /\ e.log = log
    BY <1>2, <1>9, <2>1, <2>2, PushDone
  <2>4. CASE e.ok
    BY <1>2, <1>9, <1>11, <2>3, <2>4, NoneExpiredContinues DEF PInv
  <2>5. CASE ~e.ok
    BY <1>2, <1>9, <1>11, <2>3, <2>5 DEF PInv
  <2> QED
    BY <2>3, <2>4, <2>5
<1> QED
  BY <1>1, <1>10, <1>11

LEMMA UpdateKeeps ==
  ASSUME NEW field, NEW who, PInv, Update(field, who),
         \/ field \in {"active_add", "active_remove", "owner_add", "owner_remove"} /\ who \subseteq Accounts
         \/ field \in {"key_add", "key_remove"} /\ who \subseteq Keys
  PROVE  PInv'
<1>1. PICK id \in DOMAIN db.proposals, x \in who :
        proposal_update(UpdateOp(Miner, id, field, x)) /\ UNCHANGED now
  BY Zenon DEF Update
<1> DEFINE op == UpdateOp(Miner, id, field, x)
<1>2. /\ op.proposal = id
      /\ op.active_add \subseteq Accounts /\ op.owner_add \subseteq Accounts /\ op.key_add \subseteq Keys
  <2>1. op.proposal = id
    BY DEF UpdateOp
  <2>2. /\ op.active_add = IF field = "active_add" THEN {x} ELSE {}
        /\ op.owner_add = IF field = "owner_add" THEN {x} ELSE {}
        /\ op.key_add = IF field = "key_add" THEN {x} ELSE {}
    BY DEF UpdateOp, NoChange
  <2> HIDE DEF op
  <2> QED
    BY <2>1, <2>2
<1> HIDE DEF op
<1>3. op.proposal \in DOMAIN db.proposals /\ proposal_update(op) /\ UNCHANGED now
  BY <1>1, <1>2 DEF op
<1> QED
  BY <1>2, <1>3, ProposalUpdateKeeps

LEMMA EndBlockKeeps == PInv /\ EndBlock => PInv'
<1> SUFFICES ASSUME PInv, EndBlock PROVE PInv'
  OBVIOUS
<1>1. PICK t \in now + 1..MaxTime, m \in MinerAuthorities \cup {db.active[Miner]} :
        LET e == clear_expired_proposals([db EXCEPT !.active[Miner] = m], log, t)
        IN  now' = t /\ db' = e.db /\ log' = e.log
  BY DEF EndBlock
<1> DEFINE d == [db EXCEPT !.active[Miner] = m]
           e == clear_expired_proposals(d, log, t)
<1>2. now' = t /\ db' = e.db /\ log' = e.log
  BY <1>1
<1>3. Good(db, log) /\ DbOK(db) /\ now \in Nat /\ DOMAIN db = Fields
  BY DEF PInv, Good, DbOK
<1>4. t \in Nat
  BY <1>3, ProposalsAssumption
<1>5. /\ DOMAIN d = Fields /\ d.balance = db.balance /\ d.created = db.created /\ d.proposals = db.proposals
      /\ AuthoritiesOK(d)
  <2>1. /\ DOMAIN d = Fields /\ d.balance = db.balance /\ d.created = db.created /\ d.proposals = db.proposals
        /\ d.active = [db.active EXCEPT ![Miner] = m] /\ d.owner = db.owner
    BY <1>3 DEF Fields
  <2>2. AuthoritiesOK(db)
    BY <1>3 DEF DbOK
  <2>3. IsAuthority(m)
    BY <2>2, AuthoritiesAssumption, ProposalsAssumption DEF AuthoritiesOK
  <2> HIDE DEF d
  <2>4. AuthoritiesOK(d)
    BY <2>1, <2>2, <2>3, ProposalsAssumption DEF AuthoritiesOK
  <2> QED
    BY <2>1, <2>4
<1> HIDE DEF d
<1>6. DbOK(d) /\ Continues(db, d, t)
  BY <1>3, <1>5, FewerProposals
<1>7. Good(d, log)
  BY <1>3, <1>5, <1>6, GoodContinues
<1>8. e = clear_expired_proposals(d, log, t)
  OBVIOUS
<1> HIDE DEF e
<1>9. Good(e.db, e.log) /\ NoneExpired(e.db, t)
  BY <1>4, <1>7, <1>8, AllCleared
<1> QED
  BY <1>2, <1>4, <1>9 DEF PInv

LEMMA PNext == PInv /\ [Next]_vars => PInv'
<1> SUFFICES ASSUME PInv, [Next]_vars PROVE PInv'
  OBVIOUS
<1>1. CASE Create
  BY <1>1, CreateKeeps
<1>2. CASE Approve
  BY <1>2, UpdateKeeps, AuthoritiesAssumption DEF Approve
<1>3. CASE Withdraw
  BY <1>3, UpdateKeeps, AuthoritiesAssumption DEF Withdraw
<1>4. CASE ApproveByKey
  BY <1>4, UpdateKeeps, AuthoritiesAssumption DEF ApproveByKey
<1>5. CASE Delete
  BY <1>5, DeleteKeeps
<1>6. CASE UpdateAccount
  BY <1>6, UpdateAccountKeeps
<1>7. CASE EndBlock
  BY <1>7, EndBlockKeeps
<1>8. CASE UNCHANGED vars
  BY <1>8 DEF vars, PInv
<1> QED
  BY <1>1, <1>2, <1>3, <1>4, <1>5, <1>6, <1>7, <1>8, Zenon DEF Next

\* Every operation and every block keeps the database of proposals sound, its
\* history complete and nothing of it expired.
THEOREM PInvariant == Spec => []PInv
<1>1. Init => PInv
  BY PInit
<1>2. PInv /\ [Next]_vars => PInv'
  BY PNext
<1> QED
  BY <1>1, <1>2, PTL DEF Spec

\* No proposal is left past its expiration after a block, whatever the executed
\* proposals create or delete while clear_expired_proposals walks the index.
THEOREM ExpiredTheorem == Spec => []ExpiredGone
<1>1. PInv => ExpiredGone
  BY DEF PInv, NoneExpired, ExpiredGone
<1> QED
  BY <1>1, PInvariant, PTL

\* The history explains the state: push_proposal executes a proposal once and in
\* one piece or leaves no trace of it, and the balances are what the executed
\* transfers make of them.
THEOREM HistoryTheorem == Spec => []HistoryExplains
<1>1. PInv => HistoryExplains
  BY HistoryIs DEF PInv, Good
<1> QED
  BY <1>1, PInvariant, PTL

\* Whatever is executed in the name of the miner account was up for review for
\* more than miner_proposal_review_period.
THEOREM ReviewTheorem == Spec => []MinerReviewed
<1>1. PInv => MinerReviewed
  BY Zenon DEF PInv, Good, Reviewed, MinerReviewed, ForMiner
<1> QED
  BY <1>1, PInvariant, PTL

-----------------------------------------------------------------------------
(* Sets of numbers in their order.                                          *)

Sorted(s, S) ==
  /\ \A x \in S : \E i \in DOMAIN s : s[i] = x
  /\ \A i, j \in DOMAIN s : i < j => s[i] < s[j]

LEMMA OrderExists ==
  ASSUME NEW S, IsFiniteSet(S), S \subseteq Nat
  PROVE  \E s \in [1..Cardinality(S) -> S] : Sorted(s, S)
<1> DEFINE C == {A \in SUBSET S : \E s \in [1..Cardinality(A) -> A] : Sorted(s, A)}
<1>1. ASSUME NEW A \in SUBSET S, \A x \in A : A \ {x} \in C
      PROVE  A \in C
  <2>1. CASE A = {}
    <3>1. Cardinality(A) = 0
      BY <2>1, FS_EmptySet
    <3> DEFINE s == [i \in 1..0 |-> i]
    <3>2. s \in [1..Cardinality(A) -> A] /\ Sorted(s, A)
      BY <2>1, <3>1 DEF Sorted
    <3> QED
      BY <3>2
  <2>2. CASE A # {}
    <3>0. IsFiniteSet(A) /\ A \subseteq Nat
      BY FS_Subset
    <3>1. PICK x \in A : \A y \in A : x <= y
      BY <2>2, <3>0, LeastNat
    <3> DEFINE n == Cardinality(A \ {x})
    <3>2. PICK t \in [1..n -> A \ {x}] : Sorted(t, A \ {x})
      BY <1>1
    <3>3. n \in Nat /\ Cardinality(A) = n + 1
      <4>1. IsFiniteSet(A \ {x}) /\ Cardinality(A \ {x}) = Cardinality(A) - 1 /\ Cardinality(A) \in Nat
        BY <3>0, FS_RemoveElement, FS_CardinalityType
      <4>2. Cardinality(A \ {x}) \in Nat
        BY <4>1, FS_CardinalityType
      <4> QED
        BY <4>1, <4>2
    <3> HIDE DEF n
    <3> DEFINE s == [i \in 1..(n + 1) |-> IF i = 1 THEN x ELSE t[i - 1]]
    <3>4. \A i \in 1..n : t[i] \in A /\ t[i] # x /\ x < t[i] /\ t[i] \in Nat
      <4> SUFFICES ASSUME NEW i \in 1..n PROVE t[i] \in A /\ t[i] # x /\ x < t[i] /\ t[i] \in Nat
        OBVIOUS
      <4>1. t[i] \in A \ {x}
        BY <3>2
      <4>2. t[i] \in Nat /\ x \in Nat /\ x <= t[i]
        BY <3>0, <3>1, <4>1
      <4> QED
        BY <4>1, <4>2
    <3>5. \A i \in 1..(n + 1) : i = 1 \/ i - 1 \in 1..n
      BY <3>3
    <3>6. s \in [1..(n + 1) -> A]
      BY <3>4, <3>5
    <3>7. ASSUME NEW y \in A PROVE \E i \in DOMAIN s : s[i] = y
      <4>1. CASE y = x
        <5>1. 1 \in 1..(n + 1) /\ s[1] = x
          BY <3>3
        <5> QED
          BY <4>1, <5>1
      <4>2. CASE y # x
        <5>1. PICK i \in 1..n : t[i] = y
          BY <3>2, <4>2 DEF Sorted
        <5>2. i + 1 \in 1..(n + 1) /\ i + 1 # 1 /\ (i + 1) - 1 = i
          BY <3>3
        <5>3. s[i + 1] = y
          BY <5>1, <5>2
        <5> QED
          BY <5>2, <5>3
      <4> QED
        BY <4>1, <4>2
    <3>8. ASSUME NEW i \in DOMAIN s, NEW j \in DOMAIN s, i < j PROVE s[i] < s[j]
      <4>1. i \in 1..(n + 1) /\ j \in 1..(n + 1) /\ j # 1 /\ j - 1 \in 1..n /\ s[j] = t[j - 1]
        BY <3>3, <3>8
      <4>2. CASE i = 1
        <5>1. s[i] = x
          BY <4>1, <4>2
        <5> HIDE DEF s
        <5> QED
          BY <3>4, <4>1, <5>1
      <4>3. CASE i # 1
        <5>1. s[i] = t[i - 1] /\ i - 1 \in 1..n /\ i - 1 < j - 1
          BY <3>3, <3>8, <4>1, <4>3
        <5>2. t[i - 1] < t[j - 1]
          BY <3>2, <4>1, <5>1 DEF Sorted
        <5> HIDE DEF s
        <5> QED
          BY <4>1, <5>1, <5>2
      <4> QED
        BY <4>2, <4>3
    <3> HIDE DEF s
    <3>9. Sorted(s, A)
      BY <3>7, <3>8 DEF Sorted
    <3> QED
      BY <3>3, <3>6, <3>9
  <2> QED
    BY <2>1, <2>2
<1> HIDE DEF C
<1>2. S \in C
  BY <1>1, FiniteSetInduction
<1> QED
  BY <1>2 DEF C

LEMMA InOrderFacts ==
  ASSUME NEW S, IsFiniteSet(S), S \subseteq Nat
  PROVE  /\ InOrder(S) \in Seq(S) /\ DOMAIN InOrder(S) = 1..Len(InOrder(S))
         /\ \A x \in S : \E i \in 1..Len(InOrder(S)) : InOrder(S)[i] = x
         /\ \A i, j \in 1..Len(InOrder(S)) : i # j => InOrder(S)[i] # InOrder(S)[j]
<1> DEFINE n == Cardinality(S)
<1>0. n \in Nat
  BY FS_CardinalityType
<1>1. InOrder(S) \in [1..n -> S] /\ Sorted(InOrder(S), S)
  <2>1. \E s \in [1..n -> S] : Sorted(s, S)
    BY OrderExists
  <2> QED
    BY <2>1, Zenon DEF InOrder, Sorted
<1> HIDE DEF n
<1> DEFINE s == InOrder(S)
<1> HIDE DEF s
<1>2. s \in [1..n -> S] /\ Sorted(s, S)
  BY <1>1 DEF s
<1>3. s \in Seq(S) /\ Len(s) = n /\ DOMAIN s = 1..n
  BY <1>0, <1>2
<1>4. \A i, j \in 1..n : i # j => s[i] # s[j]
  <2> SUFFICES ASSUME NEW i \in 1..n, NEW j \in 1..n, i # j PROVE s[i] # s[j]
    OBVIOUS
  <2>1. s[i] \in Nat /\ s[j] \in Nat
    BY <1>2
  <2>2. i < j \/ j < i
    OBVIOUS
  <2>3. s[i] < s[j] \/ s[j] < s[i]
    BY <1>2, <1>3, <2>2 DEF Sorted
  <2> QED
    BY <2>1, <2>3
<1>5. \A x \in S : \E i \in 1..n : s[i] = x
  BY <1>2, <1>3 DEF Sorted
<1> QED
  BY <1>3, <1>4, <1>5 DEF s

\* The members of an authority, each once.
LEMMA MembersFacts ==
  ASSUME NEW au, IsAuthority(au)
  PROVE  /\ Members(au) \in Seq(DOMAIN au.keys \cup DOMAIN au.accounts)
         /\ \A i, j \in 1..Len(Members(au)) : i # j => Members(au)[i] # Members(au)[j]
<1> DEFINE K == DOMAIN au.keys
           A == DOMAIN au.accounts
           k == InOrder(K)
           a == InOrder(A)
<1>1. /\ IsFiniteSet(K) /\ IsFiniteSet(A) /\ K \subseteq Nat /\ A \subseteq Nat /\ K \cap A = {}
      /\ Members(au) = k \o a
  <2>1. K \subseteq Keys /\ A \subseteq Accounts
    BY DEF IsAuthority
  <2>2. Keys \subseteq Nat /\ Accounts \subseteq Nat /\ Accounts \cap Keys = {}
    BY ProposalsAssumption
  <2>3. IsFiniteSet(K) /\ IsFiniteSet(A)
    BY <2>1, AuthoritiesAssumption, FS_Subset
  <2>4. Members(au) = k \o a
    BY DEF Members
  <2> QED
    BY <2>1, <2>2, <2>3, <2>4
<1>2. k \in Seq(K) /\ \A i, j \in 1..Len(k) : i # j => k[i] # k[j]
  BY <1>1, InOrderFacts
<1>3. a \in Seq(A) /\ \A i, j \in 1..Len(a) : i # j => a[i] # a[j]
  BY <1>1, InOrderFacts
<1> HIDE DEF K, A, k, a
<1>4. /\ k \o a \in Seq(K \cup A) /\ Len(k \o a) = Len(k) + Len(a)
      /\ Len(k) \in Nat /\ Len(a) \in Nat
      /\ \A i \in 1..Len(k) : (k \o a)[i] = k[i] /\ k[i] \in K
      /\ \A i \in 1..(Len(k) + Len(a)) : i > Len(k) =>
           (k \o a)[i] = a[i - Len(k)] /\ i - Len(k) \in 1..Len(a) /\ a[i - Len(k)] \in A
  BY <1>2, <1>3
<1>5. ASSUME NEW i \in 1..(Len(k) + Len(a)), NEW j \in 1..(Len(k) + Len(a)), i # j
      PROVE  (k \o a)[i] # (k \o a)[j]
  <2>1. CASE i <= Len(k) /\ j <= Len(k)
    BY <1>2, <1>4, <1>5, <2>1
  <2>2. CASE i > Len(k) /\ j > Len(k)
    <3>1. i - Len(k) # j - Len(k)
      BY <1>4, <1>5
    <3> QED
      BY <1>3, <1>4, <2>2, <3>1
  <2>3. CASE i <= Len(k) /\ j > Len(k)
    <3>1. (k \o a)[i] \in K /\ (k \o a)[j] \in A
      BY <1>4, <2>3
    <3> QED
      BY <1>1, <3>1
  <2>4. CASE i > Len(k) /\ j <= Len(k)
    <3>1. (k \o a)[j] \in K /\ (k \o a)[i] \in A
      BY <1>4, <2>4
    <3> QED
      BY <1>1, <3>1
  <2> QED
    BY <1>4, <2>1, <2>2, <2>3, <2>4
<1> QED
  BY <1>1, <1>4, <1>5 DEF K, A

-----------------------------------------------------------------------------
(* The weight of those who approve.                                         *)

LEMMA WeightMonotone ==
  ASSUME NEW au, IsAuthority(au), NEW S, NEW T, S \subseteq T, NEW ks, NEW ls, ks \subseteq ls
  PROVE  Weight(au, S, ks) \in Nat /\ Weight(au, T, ls) \in Nat /\ Weight(au, S, ks) <= Weight(au, T, ls)
<1> DEFINE A == T \cap DOMAIN au.accounts
           B == S \cap DOMAIN au.accounts
           K == ls \cap DOMAIN au.keys
           L == ks \cap DOMAIN au.keys
<1>1. /\ IsFiniteSet(A) /\ B \in SUBSET A /\ \A a \in A : au.accounts[a] \in Nat
      /\ IsFiniteSet(K) /\ L \in SUBSET K /\ \A k \in K : au.keys[k] \in Nat
  BY AuthoritiesAssumption, FS_Subset DEF IsAuthority
<1>2. /\ SumFunctionOnSet(au.accounts, B) \in Nat /\ SumFunctionOnSet(au.accounts, A) \in Nat
      /\ SumFunctionOnSet(au.accounts, B) <= SumFunctionOnSet(au.accounts, A)
  BY <1>1, SumSubset
<1>3. /\ SumFunctionOnSet(au.keys, L) \in Nat /\ SumFunctionOnSet(au.keys, K) \in Nat
      /\ SumFunctionOnSet(au.keys, L) <= SumFunctionOnSet(au.keys, K)
  BY <1>1, SumSubset
<1>4. /\ Weight(au, S, ks) = SumFunctionOnSet(au.accounts, B) + SumFunctionOnSet(au.keys, L)
      /\ Weight(au, T, ls) = SumFunctionOnSet(au.accounts, A) + SumFunctionOnSet(au.keys, K)
  BY DEF Weight
<1> HIDE DEF A, B, K, L
<1> QED
  BY <1>2, <1>3, <1>4

LEMMA WeightWithKey ==
  ASSUME NEW au, IsAuthority(au), NEW S, NEW ks, NEW k \in DOMAIN au.keys, k \notin ks
  PROVE  Weight(au, S, ks \cup {k}) = Weight(au, S, ks) + au.keys[k]
<1> DEFINE L == ks \cap DOMAIN au.keys
           A == S \cap DOMAIN au.accounts
<1>1. IsFiniteSet(L) /\ (\A x \in L : au.keys[x] \in Nat) /\ k \notin L
      /\ (ks \cup {k}) \cap DOMAIN au.keys = L \cup {k} /\ au.keys[k] \in Nat
  BY AuthoritiesAssumption, FS_Subset DEF IsAuthority
<1>2. IsFiniteSet(A) /\ (\A x \in A : au.accounts[x] \in Nat)
  BY AuthoritiesAssumption, FS_Subset DEF IsAuthority
<1>3. SumFunctionOnSet(au.keys, L) \in Nat /\ SumFunctionOnSet(au.accounts, A) \in Nat
  BY <1>1, <1>2, SumNat
<1>4. SumFunctionOnSet(au.keys, L \cup {k}) = au.keys[k] + SumFunctionOnSet(au.keys, L)
  BY <1>1, SumAdd DEF IntValued
<1>5. /\ Weight(au, S, ks) = SumFunctionOnSet(au.accounts, A) + SumFunctionOnSet(au.keys, L)
      /\ Weight(au, S, ks \cup {k}) = SumFunctionOnSet(au.accounts, A) + SumFunctionOnSet(au.keys, L \cup {k})
  BY <1>1, Zenon DEF Weight
<1> HIDE DEF A, L
<1> QED
  BY <1>1, <1>3, <1>4, <1>5

LEMMA WeightWithAccount ==
  ASSUME NEW au, IsAuthority(au), NEW S, NEW ks, NEW a \in DOMAIN au.accounts, a \notin S
  PROVE  Weight(au, S \cup {a}, ks) = Weight(au, S, ks) + au.accounts[a]
<1> DEFINE L == ks \cap DOMAIN au.keys
           A == S \cap DOMAIN au.accounts
<1>1. IsFiniteSet(L) /\ \A x \in L : au.keys[x] \in Nat
  BY AuthoritiesAssumption, FS_Subset DEF IsAuthority
<1>2. IsFiniteSet(A) /\ (\A x \in A : au.accounts[x] \in Nat) /\ a \notin A
      /\ (S \cup {a}) \cap DOMAIN au.accounts = A \cup {a} /\ au.accounts[a] \in Nat
  BY AuthoritiesAssumption, FS_Subset DEF IsAuthority
<1>3. SumFunctionOnSet(au.keys, L) \in Nat /\ SumFunctionOnSet(au.accounts, A) \in Nat
  BY <1>1, <1>2, SumNat
<1>4. SumFunctionOnSet(au.accounts, A \cup {a}) = au.accounts[a] + SumFunctionOnSet(au.accounts, A)
  BY <1>2, SumAdd DEF IntValued
<1>5. /\ Weight(au, S, ks) = SumFunctionOnSet(au.accounts, A) + SumFunctionOnSet(au.keys, L)
      /\ Weight(au, S \cup {a}, ks) = SumFunctionOnSet(au.accounts, A \cup {a}) + SumFunctionOnSet(au.keys, L)
  BY <1>2, Zenon DEF Weight
<1> HIDE DEF A, L
<1> QED
  BY <1>2, <1>3, <1>4, <1>5

\* Those who approve are the least closed set that holds the approvals.
LEMMA ApprovingLeast ==
  ASSUME NEW d, \A a \in Accounts : IsAuthority(d.active[a]), NEW S \in SUBSET Accounts, NEW ks
  PROVE  /\ S \subseteq Approving(d, S, ks) /\ Approving(d, S, ks) \subseteq Accounts
         /\ Closed(d, Approving(d, S, ks), ks)
<1> DEFINE P == Approving(d, S, ks)
<1>1. P = {a \in Accounts : \A G \in {X \in SUBSET Accounts : S \subseteq X /\ Closed(d, X, ks)} : a \in G}
  BY DEF Approving
<1>2. S \subseteq P /\ P \subseteq Accounts
      /\ \A G \in SUBSET Accounts : S \subseteq G /\ Closed(d, G, ks) => P \subseteq G
  BY <1>1
<1>3. ASSUME NEW a \in Accounts, Meets(d.active[a], P, ks) PROVE a \in P
  <2>1. ASSUME NEW G \in SUBSET Accounts, S \subseteq G, Closed(d, G, ks) PROVE a \in G
    <3>1. P \subseteq G
      BY <1>2, <2>1
    <3> HIDE DEF P
    <3>2. /\ Weight(d.active[a], P, ks) \in Nat /\ Weight(d.active[a], G, ks) \in Nat
          /\ Weight(d.active[a], P, ks) <= Weight(d.active[a], G, ks)
      BY <3>1, WeightMonotone
    <3>3. d.active[a].threshold \in Nat
      BY DEF IsAuthority
    <3>4. Meets(d.active[a], G, ks)
      BY <1>3, <3>2, <3>3 DEF Meets
    <3> QED
      BY <2>1, <3>4 DEF Closed
  <2> QED
    BY <1>1, <2>1
<1> HIDE DEF P
<1>4. Closed(d, P, ks)
  BY <1>3 DEF Closed
<1> QED
  BY <1>2, <1>4 DEF P

-----------------------------------------------------------------------------
(* The search.  G stands for a set that holds every account it grants.      *)

States(G) == {s \in SignStates : s.approved_by \subseteq G}

LevelOK(G, v) ==
  \A a \in Accounts : \A s \in States(G) : v[a][s] \in States(G) /\ (v[a][s].ok => a \in G)

DeeperOK(G, r, deeper) == r # 0 => LevelOK(G, deeper)

LEMMA CountedFacts ==
  ASSUME NEW G \in SUBSET Accounts, NEW s \in States(G), NEW w \in Nat, NEW au, IsAuthority(au)
  PROVE  Counted(s, w, au) \in States(G) /\ Counted(s, w, au).weight = s.weight + w
<1>1. s \in SignStates /\ s.approved_by \subseteq G /\ au.threshold \in Nat
  BY DEF States, IsAuthority
<1>2. s.weight + w \in Nat /\ (s.weight + w >= au.threshold) \in BOOLEAN
  BY <1>1 DEF SignStates
<1> DEFINE v == s.weight + w
           b == s.weight + w >= au.threshold
<1>3. Counted(s, w, au) = [s EXCEPT !.weight = v, !.done = b]
  BY DEF Counted
<1> HIDE DEF v, b
<1>4. v \in Nat /\ b \in BOOLEAN
  BY <1>2 DEF v, b
<1>5. [s EXCEPT !.weight = v, !.done = b] \in States(G) /\ [s EXCEPT !.weight = v, !.done = b].weight = v
  BY <1>1, <1>4 DEF States, SignStates
<1> QED
  BY <1>3, <1>5 DEF v

\* A member adds to the weight only if it approves.
LEMMA MemberStep ==
  ASSUME NEW G \in SUBSET Accounts, NEW sigs \in SUBSET Keys, NEW r \in Nat, NEW deeper, DeeperOK(G, r, deeper),
         NEW au, IsAuthority(au), NEW s \in States(G), NEW m \in DOMAIN au.keys \cup DOMAIN au.accounts
  PROVE  LET t == CheckMember(s, m, au, sigs, r, deeper)
         IN  /\ t \in States(G)
             /\ \/ t.weight = s.weight
                \/ m \in DOMAIN au.keys /\ m \in sigs /\ t.weight = s.weight + au.keys[m]
                \/ m \in DOMAIN au.accounts /\ m \in G /\ t.weight = s.weight + au.accounts[m]
<1> DEFINE t == CheckMember(s, m, au, sigs, r, deeper)
           n == deeper[m][s]
<1>0. /\ DOMAIN au.keys \subseteq Keys /\ DOMAIN au.accounts \subseteq Accounts /\ Accounts \cap Keys = {}
      /\ (m \in DOMAIN au.keys => au.keys[m] \in Nat) /\ (m \in DOMAIN au.accounts => au.accounts[m] \in Nat)
  BY ProposalsAssumption DEF IsAuthority
<1>s. s \in SignStates /\ s.approved_by \subseteq G
  BY DEF States
<1>1. CASE m \in Keys
  <2>1. m \in DOMAIN au.keys /\ t = CheckKey(s, m, au, sigs)
    BY <1>0, <1>1 DEF CheckMember
  <2>2. CASE m \notin sigs
    BY <2>1, <2>2 DEF CheckKey
  <2>3. CASE m \in sigs
    <3> DEFINE u == [s EXCEPT !.used = @ \cup {m}]
    <3>1. t = Counted(u, au.keys[m], au)
      BY <2>1, <2>3 DEF CheckKey
    <3>2. u \in States(G) /\ u.weight = s.weight
      BY <1>1, <1>s DEF States, SignStates
    <3> HIDE DEF u
    <3>3. t \in States(G) /\ t.weight = s.weight + au.keys[m]
      BY <1>0, <2>1, <3>1, <3>2, CountedFacts
    <3> QED
      BY <2>1, <2>3, <3>3
  <2> QED
    BY <2>2, <2>3
<1>2. CASE m \notin Keys
  <2>1. m \in DOMAIN au.accounts /\ m \in Accounts /\ au.accounts[m] \in Nat /\ t = AccountChecked(s, m, au, r, n)
    BY <1>0, <1>2 DEF CheckMember, CheckAccount
  <2>2. CASE m \in s.approved_by
    <3>1. t = Counted(s, au.accounts[m], au)
      BY <2>1, <2>2 DEF AccountChecked
    <3>2. t \in States(G) /\ t.weight = s.weight + au.accounts[m]
      BY <2>1, <3>1, CountedFacts
    <3> QED
      BY <1>s, <2>1, <2>2, <3>2
  <2>3. CASE m \notin s.approved_by /\ r = 0
    <3>1. t = [s EXCEPT !.ok = FALSE, !.done = TRUE]
      BY <2>1, <2>3 DEF AccountChecked
    <3> HIDE DEF t
    <3>2. t \in States(G) /\ t.weight = s.weight
      BY <1>s, <3>1 DEF States, SignStates
    <3> QED
      BY <3>2 DEF t
  <2>4. CASE m \notin s.approved_by /\ r # 0
    <3>1. n \in States(G) /\ (n.ok => m \in G)
      BY <2>1, <2>4 DEF DeeperOK, LevelOK
    <3> HIDE DEF n
    <3>2. n \in SignStates /\ n.approved_by \subseteq G
      BY <3>1 DEF States
    <3>3. CASE n.ok
      <4> DEFINE u == [s EXCEPT !.approved_by = n.approved_by \cup {m}, !.used = n.used]
      <4>1. t = Counted(u, au.accounts[m], au)
        BY <2>1, <2>4, <3>3 DEF AccountChecked
      <4>2. u \in States(G) /\ u.weight = s.weight
        BY <1>s, <2>1, <3>1, <3>2, <3>3 DEF States, SignStates
      <4> HIDE DEF u
      <4>3. t \in States(G) /\ t.weight = s.weight + au.accounts[m]
        BY <2>1, <4>1, <4>2, CountedFacts
      <4> QED
        BY <2>1, <3>1, <3>3, <4>3
    <3>4. CASE ~n.ok
      <4>1. t = [s EXCEPT !.approved_by = n.approved_by, !.used = n.used]
        BY <2>1, <2>4, <3>4 DEF AccountChecked
      <4> HIDE DEF t
      <4>2. t \in States(G) /\ t.weight = s.weight
        BY <1>s, <3>2, <4>1 DEF States, SignStates
      <4> QED
        BY <4>2 DEF t
    <3> QED
      BY <3>3, <3>4
  <2> QED
    BY <2>2, <2>3, <2>4
<1> QED
  BY <1>1, <1>2

\* The members seen when i of them are done with.
Seen(m, i) == {m[j] : j \in 1..i}

\* check_authority returns TRUE only when those in G and the signatures meet the
\* authority, and remembers no account outside G.
LEMMA MembersSound ==
  ASSUME NEW G \in SUBSET Accounts, NEW sigs \in SUBSET Keys, NEW r \in Nat, NEW deeper, DeeperOK(G, r, deeper),
         NEW au, IsAuthority(au), NEW s \in States(G)
  PROVE  LET t == CheckMembers(s, au, sigs, r, deeper)
         IN  t \in States(G) /\ (t.ok => Meets(au, G, sigs))
<1> DEFINE m == Members(au)
           N == Len(m)
           x == [s EXCEPT !.ok = TRUE, !.done = FALSE, !.weight = 0]
           Step(i, v) == IF v.done THEN v ELSE CheckMember(v, m[i], au, sigs, r, deeper)
           F == CHOOSE f : f = [i \in 0..N |-> IF i = 0 THEN x ELSE Step(i, f[i - 1])]
<1>1. m \in Seq(DOMAIN au.keys \cup DOMAIN au.accounts) /\ \A i, j \in 1..N : i # j => m[i] # m[j]
  BY MembersFacts
<1>2. x \in States(G) /\ x.weight = 0
  BY DEF States, SignStates
<1>3. CheckMembers(s, au, sigs, r, deeper) = [F[N] EXCEPT !.ok = F[N].ok /\ F[N].weight >= au.threshold]
  BY Zenon DEF CheckMembers
<1> HIDE DEF m, x
<1>4. N \in Nat /\ \A i \in 1..N : m[i] \in DOMAIN au.keys \cup DOMAIN au.accounts
  BY <1>1
<1> HIDE DEF N
<1>5. ASSUME NEW i \in 1..N, NEW v \in States(G) PROVE Step(i, v) \in States(G)
  BY <1>4, <1>5, MemberStep
<1> HIDE DEF Step
<1>6. F = [i \in 0..N |-> IF i = 0 THEN x ELSE Step(i, F[i - 1])]
  <2> DEFINE g == [i \in 1..N |-> [v \in States(G) |-> Step(i, v)]]
  <2>1. \A i \in 1..N : \A v \in States(G) : g[i][v] = Step(i, v) /\ g[i][v] \in States(G)
    BY <1>5
  <2> HIDE DEF g
  <2>2. PICK f \in [0..N -> States(G)] : f[0] = x /\ \A i \in 1..N : f[i] = g[i][f[i - 1]]
    <3>1. StaysIn(States(G), N, g)
      BY <2>1 DEF StaysIn
    <3>2. \E f : IsIteration(f, States(G), x, N, g)
      BY <1>2, <1>4, <3>1, Iterates
    <3> QED
      BY <3>2 DEF IsIteration
  <2> DEFINE h == [i \in 0..N |-> IF i = 0 THEN x ELSE Step(i, f[i - 1])]
  <2>3. ASSUME NEW i \in 0..N PROVE f[i] = h[i]
    <3>1. CASE i = 0
      BY <2>2, <3>1
    <3>2. CASE i # 0
      <4>1. i \in 1..N /\ i - 1 \in 0..N
        BY <1>4, <3>2
      <4>2. f[i - 1] \in States(G)
        BY <2>2, <4>1
      <4>3. f[i] = Step(i, f[i - 1])
        BY <2>1, <2>2, <4>1, <4>2
      <4> QED
        BY <3>2, <4>3
    <3> QED
      BY <3>1, <3>2
  <2>4. f = h
    BY <2>2, <2>3
  <2> QED
    BY <2>4, Zenon
<1> HIDE DEF F
<1>7. F[0] = x /\ \A i \in 1..N : F[i] = Step(i, F[i - 1])
  BY <1>4, <1>6
<1> DEFINE W(i) == Weight(au, G \cap Seen(m, i), sigs \cap Seen(m, i))
           I == [i \in 0..N |-> {v \in States(G) : v.weight <= W(i)}]
<1>8. \A i \in 0..N : W(i) \in Nat
  BY WeightMonotone
<1>9. F[0] \in I[0]
  <2>1. 0 \in 0..N /\ W(0) \in Nat
    BY <1>4, <1>8
  <2> HIDE DEF W
  <2> QED
    BY <1>2, <1>7, <2>1
<1>10. ASSUME NEW i \in 1..N, F[i - 1] \in I[i - 1] PROVE F[i] \in I[i]
  <2> DEFINE v == F[i - 1]
             y == m[i]
  <2>1. i - 1 \in 0..N /\ i \in 0..N
    BY <1>4
  <2>2. v \in States(G) /\ v.weight <= W(i - 1) /\ v.weight \in Nat
    BY <1>10, <2>1 DEF States, SignStates
  <2>3. F[i] = Step(i, v)
    BY <1>7
  <2>4. W(i - 1) \in Nat /\ W(i) \in Nat
    BY <1>8, <2>1
  <2>5. Seen(m, i) = Seen(m, i - 1) \cup {y} /\ y \notin Seen(m, i - 1)
    <3>1. \A j : j \in 1..i <=> j \in 1..(i - 1) \/ j = i
      BY <1>4
    <3>2. \A j \in 1..(i - 1) : j \in 1..N /\ j # i
      BY <1>4
    <3>3. \A j \in 1..(i - 1) : m[j] # m[i]
      BY <1>1, <3>2
    <3> QED
      BY <3>1, <3>3 DEF Seen
  <2>6. W(i - 1) <= W(i)
    BY <2>5, WeightMonotone
  <2>7. y \in DOMAIN au.keys \cup DOMAIN au.accounts
    BY <1>4
  <2>8. F[i] \in States(G)
    BY <1>5, <2>2, <2>3
  <2> HIDE DEF v
  <2>9. F[i].weight <= W(i)
    <3>1. CASE v.done
      <4>1. F[i] = v
        BY <2>3, <3>1 DEF Step
      <4> HIDE DEF W
      <4> QED
        BY <2>2, <2>4, <2>6, <4>1
    <3>2. CASE ~v.done
      <4> DEFINE t == CheckMember(v, y, au, sigs, r, deeper)
      <4>1. F[i] = t
        BY <2>3, <3>2 DEF Step
      <4>2. \/ t.weight = v.weight
            \/ y \in DOMAIN au.keys /\ y \in sigs /\ t.weight = v.weight + au.keys[y]
            \/ y \in DOMAIN au.accounts /\ y \in G /\ t.weight = v.weight + au.accounts[y]
        BY <2>2, <2>7, MemberStep
      <4> HIDE DEF t, y
      <4>3. CASE t.weight = v.weight
        <5> HIDE DEF W
        <5> QED
          BY <2>2, <2>4, <2>6, <4>1, <4>3
      <4>4. CASE y \in DOMAIN au.keys /\ y \in sigs /\ t.weight = v.weight + au.keys[y]
        <5>1. /\ y \notin Accounts /\ G \cap Seen(m, i) = G \cap Seen(m, i - 1)
              /\ sigs \cap Seen(m, i) = (sigs \cap Seen(m, i - 1)) \cup {y}
              /\ y \notin sigs \cap Seen(m, i - 1) /\ au.keys[y] \in Nat
          BY <2>5, <4>4, ProposalsAssumption DEF IsAuthority
        <5> DEFINE A == G \cap Seen(m, i - 1)
                   K == sigs \cap Seen(m, i - 1)
        <5>2. W(i) = Weight(au, A, K \cup {y}) /\ W(i - 1) = Weight(au, A, K) /\ y \notin K
          BY <5>1, Zenon
        <5> HIDE DEF A, K
        <5>3. Weight(au, A, K \cup {y}) = Weight(au, A, K) + au.keys[y]
          BY <4>4, <5>2, WeightWithKey
        <5> HIDE DEF W
        <5> QED
          BY <2>2, <2>4, <4>1, <4>4, <5>1, <5>2, <5>3
      <4>5. CASE y \in DOMAIN au.accounts /\ y \in G /\ t.weight = v.weight + au.accounts[y]
        <5>1. /\ y \notin Keys /\ sigs \cap Seen(m, i) = sigs \cap Seen(m, i - 1)
              /\ G \cap Seen(m, i) = (G \cap Seen(m, i - 1)) \cup {y}
              /\ y \notin G \cap Seen(m, i - 1) /\ au.accounts[y] \in Nat
          BY <2>5, <4>5, ProposalsAssumption DEF IsAuthority
        <5> DEFINE A == G \cap Seen(m, i - 1)
                   K == sigs \cap Seen(m, i - 1)
        <5>2. W(i) = Weight(au, A \cup {y}, K) /\ W(i - 1) = Weight(au, A, K) /\ y \notin A
          BY <5>1, Zenon
        <5> HIDE DEF A, K
        <5>3. Weight(au, A \cup {y}, K) = Weight(au, A, K) + au.accounts[y]
          BY <4>5, <5>2, WeightWithAccount
        <5> HIDE DEF W
        <5> QED
          BY <2>2, <2>4, <4>1, <4>5, <5>1, <5>2, <5>3
      <4> QED
        BY <4>2, <4>3, <4>4, <4>5
    <3> QED
      BY <3>1, <3>2
  <2> HIDE DEF W
  <2> QED
    BY <2>1, <2>8, <2>9
<1> HIDE DEF I
<1>11. F[N] \in I[N] /\ N \in 0..N
  BY <1>4, <1>9, <1>10, LoopInvariant
<1>12. F[N] \in States(G) /\ F[N].weight <= W(N)
  <2> HIDE DEF W
  <2> QED
    BY <1>11 DEF I
<1> DEFINE T == [F[N] EXCEPT !.ok = F[N].ok /\ F[N].weight >= au.threshold]
<1>13. T \in States(G) /\ (T.ok => F[N].weight >= au.threshold)
  <2> DEFINE e == F[N]
             b == e.ok /\ e.weight >= au.threshold
  <2>1. T = [e EXCEPT !.ok = b]
    OBVIOUS
  <2>2. e \in SignStates /\ e.approved_by \subseteq G
    BY <1>12 DEF States
  <2>3. b \in BOOLEAN /\ (b => e.weight >= au.threshold)
    BY <2>2 DEF SignStates
  <2> HIDE DEF e, b
  <2>4. [e EXCEPT !.ok = b] \in States(G) /\ [e EXCEPT !.ok = b].ok = b
    BY <2>2, <2>3 DEF States, SignStates
  <2> HIDE DEF T
  <2> QED
    BY <2>1, <2>3, <2>4 DEF e
<1> HIDE DEF T
<1>14. ASSUME T.ok PROVE Meets(au, G, sigs)
  <2>1. /\ W(N) \in Nat /\ Weight(au, G, sigs) \in Nat /\ W(N) <= Weight(au, G, sigs)
    BY WeightMonotone
  <2>2. F[N].weight \in Nat /\ au.threshold \in Nat
    BY <1>12 DEF States, SignStates, IsAuthority
  <2> HIDE DEF W
  <2> QED
    BY <1>12, <1>13, <1>14, <2>1, <2>2 DEF Meets
<1> QED
  BY <1>3, <1>13, <1>14 DEF T

Row(d, sigs, r, deeper) ==
  [a \in Accounts |-> [s \in SignStates |-> CheckMembers(s, d.active[a], sigs, r, deeper)]]

Levels(d, sigs, f) == f = [r \in 0..MaxDepth |-> Row(d, sigs, r, Below(f, r))]

\* The recursion of check_authority is defined.
LEMMA LevelIs ==
  ASSUME NEW d, \A a \in Accounts : IsAuthority(d.active[a]), NEW sigs \in SUBSET Keys
  PROVE  Levels(d, sigs, check_authority(d, sigs))
<1> DEFINE D == [Accounts -> [SignStates -> SignStates]]
           x == Row(d, sigs, 0, <<>>)
           g == [r \in 1..MaxDepth |-> [v \in D |-> Row(d, sigs, r, v)]]
<1>0. MaxDepth \in Nat /\ Accounts \in SUBSET Accounts /\ States(Accounts) = SignStates
  BY ProposalsAssumption DEF States, SignStates
<1>1. ASSUME NEW r \in Nat, NEW v, r = 0 \/ v \in D PROVE Row(d, sigs, r, v) \in D
  <2>1. DeeperOK(Accounts, r, v)
    BY <1>0, <1>1 DEF DeeperOK, LevelOK
  <2>2. ASSUME NEW a \in Accounts, NEW s \in SignStates
        PROVE  CheckMembers(s, d.active[a], sigs, r, v) \in SignStates
    BY <1>0, <2>1, MembersSound
  <2> QED
    BY <2>2 DEF Row
<1>2. x \in D
  BY <1>1
<1>3. \A r \in 1..MaxDepth : \A v \in D : g[r][v] = Row(d, sigs, r, v) /\ g[r][v] \in D
  <2> SUFFICES ASSUME NEW r \in 1..MaxDepth, NEW v \in D PROVE g[r][v] = Row(d, sigs, r, v) /\ g[r][v] \in D
    OBVIOUS
  <2>1. r \in Nat /\ Row(d, sigs, r, v) \in D
    BY <1>0, <1>1
  <2> QED
    BY <2>1
<1> HIDE DEF D, x, g
<1>4. StaysIn(D, MaxDepth, g)
  BY <1>3 DEF StaysIn
<1>5. \E f : IsIteration(f, D, x, MaxDepth, g)
  BY <1>0, <1>2, <1>4, Iterates
<1>6. PICK f : f \in [0..MaxDepth -> D] /\ f[0] = x /\ \A r \in 1..MaxDepth : f[r] = g[r][f[r - 1]]
  BY <1>5 DEF IsIteration
<1> DEFINE h == [r \in 0..MaxDepth |-> Row(d, sigs, r, Below(f, r))]
<1>7. ASSUME NEW r \in 0..MaxDepth PROVE f[r] = h[r]
  <2>1. CASE r = 0
    <3>1. Below(f, 0) = <<>>
      BY DEF Below
    <3>2. h[r] = Row(d, sigs, 0, <<>>)
      BY <2>1, <3>1
    <3> QED
      BY <1>6, <2>1, <3>2 DEF x
  <2>2. CASE r # 0
    <3>1. r \in 1..MaxDepth /\ r - 1 \in 0..MaxDepth /\ Below(f, r) = f[r - 1]
      BY <1>0, <2>2 DEF Below
    <3>2. f[r - 1] \in D /\ f[r] = g[r][f[r - 1]]
      BY <1>6, <3>1
    <3>3. f[r] = Row(d, sigs, r, f[r - 1])
      BY <1>3, <3>1, <3>2
    <3>4. h[r] = Row(d, sigs, r, Below(f, r))
      OBVIOUS
    <3> HIDE DEF h
    <3> QED
      BY <3>1, <3>3, <3>4
  <2> QED
    BY <2>1, <2>2
<1>8. f = h
  BY <1>6, <1>7
<1>9. Levels(d, sigs, f)
  BY <1>8, Zenon DEF Levels
<1>10. check_authority(d, sigs) = CHOOSE v : Levels(d, sigs, v)
  BY Zenon DEF check_authority, Levels, Row
<1> QED
  BY <1>9, <1>10, Zenon

\* No level of the search grants an account outside a closed set, whatever it
\* remembers of accounts within.
LEMMA LevelSound ==
  ASSUME NEW d, \A a \in Accounts : IsAuthority(d.active[a]), NEW sigs \in SUBSET Keys,
         NEW G \in SUBSET Accounts, Closed(d, G, sigs)
  PROVE  \A r \in 0..MaxDepth : LevelOK(G, check_authority(d, sigs)[r])
<1> DEFINE v == check_authority(d, sigs)
           T == {r \in Nat : r <= MaxDepth => LevelOK(G, v[r])}
<1>0. MaxDepth \in Nat
  BY ProposalsAssumption
<1>1. Levels(d, sigs, v)
  BY LevelIs
<1> HIDE DEF v
<1>2. ASSUME NEW r \in Nat, r <= MaxDepth, DeeperOK(G, r, Below(v, r)) PROVE LevelOK(G, v[r])
  <2>1. r \in 0..MaxDepth
    BY <1>0, <1>2
  <2>2. v[r] = Row(d, sigs, r, Below(v, r))
    BY <1>1, <2>1 DEF Levels
  <2> SUFFICES ASSUME NEW a \in Accounts, NEW s \in States(G)
               PROVE  v[r][a][s] \in States(G) /\ (v[r][a][s].ok => a \in G)
    BY DEF LevelOK
  <2> DEFINE t == CheckMembers(s, d.active[a], sigs, r, Below(v, r))
  <2>3. s \in SignStates
    BY DEF States
  <2>4. v[r][a][s] = t
    BY <2>2, <2>3 DEF Row
  <2>5. t \in States(G) /\ (t.ok => Meets(d.active[a], G, sigs))
    BY <1>2, MembersSound
  <2> HIDE DEF t
  <2> QED
    BY <2>4, <2>5 DEF Closed
<1>3. ASSUME NEW r \in Nat, \A m \in Nat : m < r => m \in T PROVE r \in T
  <2>1. CASE r = 0
    <3>1. DeeperOK(G, r, Below(v, r))
      BY <2>1 DEF DeeperOK
    <3> QED
      BY <1>2, <3>1
  <2>2. CASE r # 0 /\ r <= MaxDepth
    <3>1. r - 1 \in Nat /\ r - 1 < r /\ r - 1 <= MaxDepth /\ Below(v, r) = v[r - 1]
      BY <1>0, <2>2 DEF Below
    <3>2. LevelOK(G, v[r - 1])
      BY <1>3, <3>1
    <3>3. DeeperOK(G, r, Below(v, r))
      BY <3>1, <3>2 DEF DeeperOK
    <3> QED
      BY <1>2, <3>3
  <2> QED
    BY <2>1, <2>2
<1> HIDE DEF T
<1>4. Nat \subseteq T
  BY <1>3, NatSetInduction
<1> QED
  BY <1>0, <1>4 DEF T, v

LEMMA OwnerSound ==
  ASSUME NEW d, \A a \in Accounts : IsAuthority(d.active[a]) /\ IsAuthority(d.owner[a]),
         NEW sigs \in SUBSET Keys, NEW G \in SUBSET Accounts, Closed(d, G, sigs),
         NEW a \in Accounts, NEW s \in States(G)
  PROVE  LET t == CheckOwner(d, sigs, a, s)
         IN  t \in States(G) /\ (t.ok => Meets(d.owner[a], G, sigs))
<1> DEFINE v == check_authority(d, sigs)
<1>0. MaxDepth \in Nat
  BY ProposalsAssumption
<1>1. \A r \in 0..MaxDepth : LevelOK(G, v[r])
  BY LevelSound
<1> HIDE DEF v
<1>2. DeeperOK(G, MaxDepth, Below(v, MaxDepth))
  <2>1. CASE MaxDepth = 0
    BY <2>1 DEF DeeperOK
  <2>2. CASE MaxDepth # 0
    <3>1. MaxDepth - 1 \in 0..MaxDepth /\ Below(v, MaxDepth) = v[MaxDepth - 1]
      BY <1>0, <2>2 DEF Below
    <3> QED
      BY <1>1, <3>1 DEF DeeperOK
  <2> QED
    BY <2>1, <2>2
<1>3. CheckOwner(d, sigs, a, s) = CheckMembers(s, d.owner[a], sigs, MaxDepth, Below(v, MaxDepth))
  BY DEF CheckOwner, v
<1> QED
  BY <1>0, <1>2, <1>3, MembersSound

LEMMA ActiveSound ==
  ASSUME NEW d, \A a \in Accounts : IsAuthority(d.active[a]) /\ IsAuthority(d.owner[a]),
         NEW sigs \in SUBSET Keys, NEW G \in SUBSET Accounts, Closed(d, G, sigs),
         NEW a \in Accounts, NEW s \in States(G)
  PROVE  LET t == ActiveChecked(d, sigs, a, s)
         IN  t \in States(G) /\ (t.ok => s.ok /\ (a \in G \/ Meets(d.owner[a], G, sigs)))
<1> DEFINE t == ActiveChecked(d, sigs, a, s)
           c == CheckActive(d, sigs, a, s)
           o == CheckOwner(d, sigs, a, c)
<1> SUFFICES t \in States(G) /\ (t.ok => s.ok /\ (a \in G \/ Meets(d.owner[a], G, sigs)))
  OBVIOUS
<1>0. MaxDepth \in 0..MaxDepth
  BY ProposalsAssumption
<1>1. c \in States(G) /\ (c.ok => a \in G)
  <2>1. LevelOK(G, check_authority(d, sigs)[MaxDepth])
    BY <1>0, LevelSound
  <2> QED
    BY <2>1 DEF CheckActive, LevelOK
<1>2. t = IF ~s.ok \/ a \in s.approved_by THEN s ELSE IF c.ok THEN c ELSE o
  BY DEF ActiveChecked
<1> HIDE DEF c, t
<1>3. o \in States(G) /\ (o.ok => Meets(d.owner[a], G, sigs))
  BY <1>1, OwnerSound
<1>4. s.approved_by \subseteq G
  BY DEF States
<1> HIDE DEF o
<1>5. CASE ~s.ok \/ a \in s.approved_by
  BY <1>2, <1>4, <1>5
<1>6. CASE ~(~s.ok \/ a \in s.approved_by)
  BY <1>1, <1>2, <1>3, <1>6
<1> QED
  BY <1>5, <1>6

\* One round per account of a list, each of which keeps the states of G and says
\* no when an earlier one did.
Rounds(G, list, good, g) ==
  \A i \in 1..Len(list) : \A v \in States(G) :
    g[i][v] \in States(G) /\ (g[i][v].ok => v.ok /\ list[i] \in good)

Follows(F, G, x, n, g) ==
  F[0] = x /\ \A i \in 1..n : F[i - 1] \in States(G) => F[i] = g[i][F[i - 1]]

LEMMA RoundsSound ==
  ASSUME NEW G, NEW list, Len(list) \in Nat, NEW good, NEW g, Rounds(G, list, good, g),
         NEW x \in States(G), NEW F, Follows(F, G, x, Len(list), g)
  PROVE  /\ F[Len(list)] \in States(G)
         /\ F[Len(list)].ok => x.ok /\ \A i \in 1..Len(list) : list[i] \in good
<1> DEFINE N == Len(list)
           I == [i \in 0..N |-> {v \in States(G) : v.ok => x.ok /\ \A j \in 1..i : list[j] \in good}]
<1>0. N \in Nat /\ F[0] = x /\ \A i \in 1..N : F[i - 1] \in States(G) => F[i] = g[i][F[i - 1]]
  BY DEF Follows
<1>1. F[0] \in I[0]
  <2>1. 0 \in 0..N
    BY <1>0
  <2> QED
    BY <1>0, <2>1
<1>2. ASSUME NEW i \in 1..N, F[i - 1] \in I[i - 1] PROVE F[i] \in I[i]
  <2>1. i - 1 \in 0..N /\ i \in 0..N
    BY <1>0
  <2>2. F[i - 1] \in States(G) /\ (F[i - 1].ok => x.ok /\ \A j \in 1..(i - 1) : list[j] \in good)
    BY <1>2, <2>1
  <2>3. F[i] \in States(G) /\ (F[i].ok => F[i - 1].ok /\ list[i] \in good)
    BY <1>0, <2>2 DEF Rounds
  <2>4. \A j \in 1..i : j = i \/ j \in 1..(i - 1)
    BY <1>0
  <2> QED
    BY <2>1, <2>2, <2>3, <2>4
<1>3. N \in 0..N
  BY <1>0
<1> HIDE DEF I
<1>4. F[N] \in I[N]
  BY <1>0, <1>1, <1>2, <1>3, LoopInvariant
<1> QED
  BY <1>3, <1>4 DEF I

LEMMA CheckedSound ==
  ASSUME NEW d, \A a \in Accounts : IsAuthority(d.active[a]) /\ IsAuthority(d.owner[a]),
         NEW sigs \in SUBSET Keys, NEW G \in SUBSET Accounts, Closed(d, G, sigs),
         NEW tx, Required(tx, RequiredActive) \subseteq Accounts, Required(tx, RequiredOwner) \subseteq Accounts,
         Required(tx, RequiredKeys) \subseteq Keys,
         NEW by_active \in SUBSET G, NEW by_owner \in SUBSET G, Checked(d, tx, sigs, by_active, by_owner).ok
  PROVE  /\ \A a \in Required(tx, RequiredActive) : a \in G \/ Meets(d.owner[a], G, sigs)
         /\ \A a \in Required(tx, RequiredOwner) : a \in by_owner \/ Meets(d.owner[a], G, sigs)
<1> DEFINE A == Required(tx, RequiredActive)
           O == Required(tx, RequiredOwner)
           actives == InOrder(A)
           owners == InOrder(O)
           start == [ok |-> Required(tx, RequiredKeys) \subseteq sigs, done |-> FALSE, weight |-> 0,
                     approved_by |-> by_active \cup by_owner, used |-> Required(tx, RequiredKeys)]
           N == Len(actives)
           M == Len(owners)
           E == CHOOSE f : f = [i \in 0..N |-> IF i = 0 THEN start ELSE ActiveChecked(d, sigs, actives[i], f[i - 1])]
           F == CHOOSE f : f = [i \in 0..M |-> IF i = 0 THEN E[N] ELSE OwnerChecked(d, sigs, owners[i], f[i - 1], by_owner)]
<1>1. Checked(d, tx, sigs, by_active, by_owner) = F[M]
  BY Zenon DEF Checked
<1>2. start \in States(G)
  BY DEF States, SignStates
<1>3. A \subseteq Accounts /\ O \subseteq Accounts /\ IsFiniteSet(A) /\ IsFiniteSet(O) /\ Accounts \subseteq Nat
  BY AuthoritiesAssumption, ProposalsAssumption, FS_Subset
<1> HIDE DEF A, O, start
<1>4. /\ actives \in Seq(A) /\ \A a \in A : \E i \in 1..N : actives[i] = a
      /\ owners \in Seq(O) /\ \A a \in O : \E i \in 1..M : owners[i] = a
  BY <1>3, InOrderFacts
<1> HIDE DEF actives, owners
<1>5. /\ N \in Nat /\ M \in Nat
      /\ \A i \in 1..N : actives[i] \in Accounts
      /\ \A i \in 1..M : owners[i] \in Accounts
  <2>1. actives \in Seq(A) /\ owners \in Seq(O)
    BY <1>4
  <2>2. N \in Nat /\ M \in Nat /\ (\A i \in 1..N : actives[i] \in A) /\ \A i \in 1..M : owners[i] \in O
    BY <2>1
  <2> QED
    BY <1>3, <2>2
<1> DEFINE goodA == {a \in Accounts : a \in G \/ Meets(d.owner[a], G, sigs)}
           goodO == {a \in Accounts : a \in by_owner \/ Meets(d.owner[a], G, sigs)}
           g == [i \in 1..N |-> [v \in States(G) |-> ActiveChecked(d, sigs, actives[i], v)]]
           h == [i \in 1..M |-> [v \in States(G) |-> OwnerChecked(d, sigs, owners[i], v, by_owner)]]
<1>6. \A i \in 1..N : \A v \in States(G) : g[i][v] = ActiveChecked(d, sigs, actives[i], v)
  OBVIOUS
<1>7. \A i \in 1..M : \A v \in States(G) : h[i][v] = OwnerChecked(d, sigs, owners[i], v, by_owner)
  OBVIOUS
<1> HIDE DEF g, h
<1>8. Rounds(G, actives, goodA, g)
  <2> SUFFICES ASSUME NEW i \in 1..N, NEW v \in States(G)
               PROVE  g[i][v] \in States(G) /\ (g[i][v].ok => v.ok /\ actives[i] \in goodA)
    BY DEF Rounds
  <2> DEFINE a == actives[i]
  <2>1. a \in Accounts /\ g[i][v] = ActiveChecked(d, sigs, a, v)
    BY <1>5, <1>6
  <2> HIDE DEF a
  <2>2. /\ ActiveChecked(d, sigs, a, v) \in States(G)
        /\ ActiveChecked(d, sigs, a, v).ok => v.ok /\ (a \in G \/ Meets(d.owner[a], G, sigs))
    BY <2>1, ActiveSound
  <2> QED
    BY <2>1, <2>2 DEF a
<1>9. Rounds(G, owners, goodO, h)
  <2> SUFFICES ASSUME NEW i \in 1..M, NEW v \in States(G)
               PROVE  h[i][v] \in States(G) /\ (h[i][v].ok => v.ok /\ owners[i] \in goodO)
    BY DEF Rounds
  <2> DEFINE a == owners[i]
             t == CheckOwner(d, sigs, a, v)
  <2>1. a \in Accounts /\ h[i][v] = OwnerChecked(d, sigs, a, v, by_owner)
    BY <1>5, <1>7
  <2> HIDE DEF a
  <2>2. t \in States(G) /\ (t.ok => Meets(d.owner[a], G, sigs))
    BY <2>1, OwnerSound
  <2>3. h[i][v] = IF ~v.ok \/ a \in by_owner THEN v ELSE t
    BY <2>1 DEF OwnerChecked
  <2> HIDE DEF t
  <2>4. h[i][v] \in States(G) /\ (h[i][v].ok => v.ok /\ a \in goodO)
    <3>1. CASE ~v.ok \/ a \in by_owner
      BY <2>1, <2>3, <3>1
    <3>2. CASE ~(~v.ok \/ a \in by_owner)
      BY <2>1, <2>2, <2>3, <3>2
    <3> QED
      BY <3>1, <3>2
  <2> QED
    BY <2>4 DEF a
<1> HIDE DEF goodA, goodO
<1>10. E = [i \in 0..N |-> IF i = 0 THEN start ELSE ActiveChecked(d, sigs, actives[i], E[i - 1])]
  <2>1. StaysIn(States(G), N, g)
    BY <1>8 DEF StaysIn, Rounds
  <2>2. \E f : IsIteration(f, States(G), start, N, g)
    BY <1>2, <1>5, <2>1, Iterates
  <2>3. PICK f : f \in [0..N -> States(G)] /\ f[0] = start /\ \A i \in 1..N : f[i] = g[i][f[i - 1]]
    BY <2>2 DEF IsIteration
  <2> DEFINE w == [i \in 0..N |-> IF i = 0 THEN start ELSE ActiveChecked(d, sigs, actives[i], f[i - 1])]
  <2>4. ASSUME NEW i \in 0..N PROVE f[i] = w[i]
    <3>1. CASE i = 0
      BY <2>3, <3>1
    <3>2. CASE i # 0
      <4>1. i \in 1..N /\ i - 1 \in 0..N
        BY <1>5, <3>2
      <4>2. f[i - 1] \in States(G)
        BY <2>3, <4>1
      <4>3. f[i] = ActiveChecked(d, sigs, actives[i], f[i - 1])
        BY <1>6, <2>3, <4>1, <4>2
      <4> QED
        BY <3>2, <4>3
    <3> QED
      BY <3>1, <3>2
  <2>5. f = w
    BY <2>3, <2>4
  <2> QED
    BY <2>5, Zenon
<1> HIDE DEF E
<1>11. Follows(E, G, start, N, g)
  <2>1. 0 \in 0..N /\ \A i \in 1..N : i \in 0..N /\ i # 0
    BY <1>5
  <2>2. E[0] = start
    BY <1>10, <2>1
  <2>3. ASSUME NEW i \in 1..N, E[i - 1] \in States(G) PROVE E[i] = g[i][E[i - 1]]
    <3>1. E[i] = ActiveChecked(d, sigs, actives[i], E[i - 1])
      BY <1>10, <2>1
    <3> QED
      BY <1>6, <2>3, <3>1
  <2> QED
    BY <2>2, <2>3 DEF Follows
<1>12. E[N] \in States(G) /\ (E[N].ok => \A i \in 1..N : actives[i] \in goodA)
  BY <1>2, <1>5, <1>8, <1>11, RoundsSound
<1>13. F = [i \in 0..M |-> IF i = 0 THEN E[N] ELSE OwnerChecked(d, sigs, owners[i], F[i - 1], by_owner)]
  <2>1. StaysIn(States(G), M, h)
    BY <1>9 DEF StaysIn, Rounds
  <2>2. \E f : IsIteration(f, States(G), E[N], M, h)
    BY <1>5, <1>12, <2>1, Iterates
  <2>3. PICK f : f \in [0..M -> States(G)] /\ f[0] = E[N] /\ \A i \in 1..M : f[i] = h[i][f[i - 1]]
    BY <2>2 DEF IsIteration
  <2> DEFINE w == [i \in 0..M |-> IF i = 0 THEN E[N] ELSE OwnerChecked(d, sigs, owners[i], f[i - 1], by_owner)]
  <2>4. ASSUME NEW i \in 0..M PROVE f[i] = w[i]
    <3>1. CASE i = 0
      BY <2>3, <3>1
    <3>2. CASE i # 0
      <4>1. i \in 1..M /\ i - 1 \in 0..M
        BY <1>5, <3>2
      <4>2. f[i - 1] \in States(G)
        BY <2>3, <4>1
      <4>3. f[i] = OwnerChecked(d, sigs, owners[i], f[i - 1], by_owner)
        BY <1>7, <2>3, <4>1, <4>2
      <4> QED
        BY <3>2, <4>3
    <3> QED
      BY <3>1, <3>2
  <2>5. f = w
    BY <2>3, <2>4
  <2> QED
    BY <2>5, Zenon
<1> HIDE DEF F
<1>14. Follows(F, G, E[N], M, h)
  <2>1. 0 \in 0..M /\ \A i \in 1..M : i \in 0..M /\ i # 0
    BY <1>5
  <2>2. F[0] = E[N]
    BY <1>13, <2>1
  <2>3. ASSUME NEW i \in 1..M, F[i - 1] \in States(G) PROVE F[i] = h[i][F[i - 1]]
    <3>1. F[i] = OwnerChecked(d, sigs, owners[i], F[i - 1], by_owner)
      BY <1>13, <2>1
    <3> QED
      BY <1>7, <2>3, <3>1
  <2> QED
    BY <2>2, <2>3 DEF Follows
<1>15. F[M].ok => E[N].ok /\ \A i \in 1..M : owners[i] \in goodO
  BY <1>5, <1>9, <1>12, <1>14, RoundsSound
<1>16. E[N].ok /\ \A i \in 1..M : owners[i] \in goodO
  BY <1>1, <1>15
<1> QED
  BY <1>4, <1>12, <1>16 DEF goodA, goodO, A, O

-----------------------------------------------------------------------------
(* What a proposal requires.                                                *)

LEMMA RequiredFacts ==
  ASSUME NEW tx \in Transactions, \A i \in DOMAIN tx : tx[i].type # "proposal_update"
  PROVE  /\ Required(tx, RequiredActive) \subseteq Accounts /\ Required(tx, RequiredKeys) = {}
         /\ Required(tx, RequiredOwner) \subseteq Required(tx, RequiredActive)
<1>1. ASSUME NEW i \in DOMAIN tx
      PROVE  /\ RequiredActive(tx[i]) \subseteq Accounts /\ RequiredKeys(tx[i]) = {}
             /\ RequiredOwner(tx[i]) \subseteq RequiredActive(tx[i])
  <2> DEFINE op == tx[i]
  <2>1. /\ op.type \in {"transfer", "account_update", "proposal_create", "proposal_delete"}
        /\ op.type = "transfer" => op.from \in Accounts
        /\ op.type = "account_update" => op.account \in Accounts
        /\ op.type \notin {"transfer", "account_update"} => op.payer \in Accounts
    BY TransactionsAssumption, AuthoritiesAssumption
  <2> HIDE DEF op
  <2>2. RequiredKeys(op) = {}
    BY <2>1 DEF RequiredKeys
  <2>3. RequiredActive(op) \subseteq Accounts
    BY <2>1 DEF RequiredActive
  <2>4. RequiredOwner(op) \subseteq RequiredActive(op)
    BY <2>1 DEF RequiredActive, RequiredOwner
  <2> QED
    BY <2>2, <2>3, <2>4 DEF op
<1> QED
  BY <1>1 DEF Required

\* In any database with well-formed authorities the search of sign_state grants
\* only what the approvals grant.
LEMMA SearchSound ==
  ASSUME NEW d, DbOK(d), NEW id \in DOMAIN d.proposals,
         is_authorized_to_execute(d, d.proposals[id])
  PROVE  Granted(d, d.proposals[id])
<1> DEFINE p == d.proposals[id]
           S == p.active \cup p.owner
           G == Approving(d, S, p.keys)
<1>1. /\ \A a \in Accounts : IsAuthority(d.active[a]) /\ IsAuthority(d.owner[a])
      /\ ProposalOK(p, d.created[id]) /\ d.created[id] \in Creation
  BY DEF DbOK, AuthoritiesOK
<1> HIDE DEF p
<1>2. /\ p.tx \in Transactions /\ \A i \in DOMAIN p.tx : p.tx[i].type # "proposal_update"
      /\ p.required_owner = Required(p.tx, RequiredOwner)
      /\ p.required_active = Required(p.tx, RequiredActive) \ p.required_owner
      /\ p.active \subseteq Accounts /\ p.owner \subseteq Accounts /\ p.keys \subseteq Keys
  BY <1>1 DEF ProposalOK, Creation
<1>3. /\ Required(p.tx, RequiredActive) \subseteq Accounts /\ Required(p.tx, RequiredKeys) = {}
      /\ Required(p.tx, RequiredOwner) \subseteq Required(p.tx, RequiredActive)
  BY <1>2, RequiredFacts
<1>4. S \subseteq G /\ G \subseteq Accounts /\ Closed(d, G, p.keys)
  <2>1. S \in SUBSET Accounts
    BY <1>2
  <2> QED
    BY <1>1, <2>1, ApprovingLeast
<1>5. Checked(d, p.tx, p.keys, p.active, p.owner).ok
  BY DEF is_authorized_to_execute, verify_authority, p
<1>6. Granted(d, p) <=>
        /\ \A a \in p.required_active : a \in G \/ Meets(d.owner[a], G, p.keys)
        /\ \A a \in p.required_owner :
             (a \in G \/ Meets(d.owner[a], G, p.keys)) /\ (a \in p.owner \/ Meets(d.owner[a], G, p.keys))
  BY Zenon DEF Granted
<1>7. p.active \in SUBSET G /\ p.owner \in SUBSET G
  BY <1>4
<1> HIDE DEF G, S
<1>8. /\ \A a \in Required(p.tx, RequiredActive) : a \in G \/ Meets(d.owner[a], G, p.keys)
      /\ \A a \in Required(p.tx, RequiredOwner) : a \in p.owner \/ Meets(d.owner[a], G, p.keys)
  BY <1>1, <1>2, <1>3, <1>4, <1>5, <1>7, CheckedSound
<1> QED
  BY <1>2, <1>3, <1>6, <1>8 DEF p

\* No proposal is found executable that its approvals do not grant: not through
\* the accounts that sign_state remembers, not through authorities that form
\* cycles, nor through ones changed after the approvals, for any depth.
THEOREM AuthorizedTheorem == Spec => []AuthorizedOnlyIfGranted
<1>1. PInv => AuthorizedOnlyIfGranted
  BY SearchSound DEF PInv, Good, AuthorizedOnlyIfGranted
<1> QED
  BY <1>1, PInvariant, PTL
=============================================================================
