------------------------------ MODULE Proposals ------------------------------
(***************************************************************************)
(* Proposed transactions and the authorities that let them execute          *)
(* (proposal_evaluator.cpp, proposal_object.cpp, push_proposal and          *)
(* clear_expired_proposals of the chain database, verify_authority of       *)
(* protocol/transaction.cpp).                                               *)
(*                                                                          *)
(* db is what an undo session restores: balances, authorities, proposals.   *)
(* log is _applied_ops, kept for the whole history here and only for the    *)
(* operations of proposals.  Accounts and keys are numbers, because the     *)
(* code walks its flat maps and sets in order.  A transaction holds one     *)
(* operation and enters as push_transaction lets it in, with its            *)
(* authorities verified; fees are left out.  The temp account, which        *)
(* approves everything, belongs to no authority here.                       *)
(***************************************************************************)
EXTENDS Integers, Sequences, FiniteSets, SequencesExt, FiniteSetsExt, Functions

CONSTANTS
  Accounts,          \* account ids
  Miner,             \* GRAPHENE_MINER_ACCOUNT
  Keys,              \* public keys
  Active0, Owner0,   \* initial authorities of every account
  Balance0,          \* initial balances
  MinerAuthorities,  \* active authorities an election may give the miner account
  Approvers,         \* accounts whose active approval is given or withdrawn
  OwnerApprovers,    \* accounts whose owner approval is
  KeyApprovers,      \* keys whose approval is
  Updates,           \* account_update operations the holders may send
  Transactions,      \* transactions that may be proposed: sequences of operations
  Expirations,       \* expiration times a proposal may ask for
  Reviews,           \* review periods a proposal may ask for
  MaxLifetime,       \* maximum_proposal_lifetime
  MinReview,         \* miner_proposal_review_period
  MaxDepth,          \* max_authority_depth
  MaxApprovals,      \* bound: approvals of each kind of a proposal taken together
  MaxProposals,      \* bound: proposals ever created
  MaxTime            \* bound: head block time

ASSUME ProposalsAssumption ==
  /\ Accounts \subseteq Nat \ {0} /\ Miner \in Accounts /\ Keys \subseteq Nat \ {0}
  /\ Accounts \cap Keys = {}
  /\ MaxLifetime \in Nat /\ MinReview \in Nat /\ MaxDepth \in Nat
  /\ MaxApprovals \in Nat /\ MaxProposals \in Nat /\ MaxTime \in Nat
  /\ Expirations \subseteq Nat /\ Reviews \subseteq Nat /\ Balance0 \in [Accounts -> Nat]
  /\ \A op \in Updates : op.type = "account_update" /\ op.account \in Accounts

\* What a proposed transaction proposes may be proposed on its own.
ASSUME TransactionsAssumption ==
  \A tx \in Transactions :
    /\ Len(tx) \in Nat /\ DOMAIN tx = 1..Len(tx)
    /\ \A i \in DOMAIN tx :
         /\ tx[i].type \in {"transfer", "account_update", "proposal_create", "proposal_update",
                           "proposal_delete"}
         /\ tx[i].type = "transfer" => tx[i].from \in Accounts /\ tx[i].to \in Accounts
         /\ tx[i].type = "account_update" => tx[i].account \in Accounts
         /\ tx[i].type = "proposal_create" =>
              tx[i].tx \in Transactions /\ tx[i].expiration \in Nat /\ tx[i].review \subseteq Nat

VARIABLES
  now,   \* head_block_time
  db,    \* [balance, active, owner, proposals, created]
  log    \* operations applied for proposals: [proposal, op, at]

vars == <<now, db, log>>

\* An optional field is a set of at most one value.
Optional(S) == {{}} \cup {{x} : x \in S}

\* The elements of a set of numbers in their order.
InOrder(S) ==
  CHOOSE s \in [1..Cardinality(S) -> S] :
    /\ \A i, j \in DOMAIN s : i < j => s[i] < s[j]
    /\ \A x \in S : \E i \in DOMAIN s : s[i] = x

-----------------------------------------------------------------------------
(* What the operations require (operation_get_required_authorities).        *)

RequiredActive(op) ==
  CASE op.type = "transfer" -> {op.from}
    [] op.type = "account_update" -> {op.account}
    [] op.type = "proposal_update" -> {op.payer} \cup op.active_add \cup op.active_remove
    [] OTHER -> {op.payer}

RequiredOwner(op) ==
  CASE op.type = "account_update" /\ op.owner # {} -> {op.account}
    [] op.type = "proposal_update" -> op.owner_add \cup op.owner_remove
    [] OTHER -> {}

\* Only proposal_update asks for an authority of keys of its own: all the keys it
\* adds or removes.  It always does, with an authority of no keys if there are none.
RequiredKeys(op) ==
  IF op.type = "proposal_update" THEN op.key_add \cup op.key_remove ELSE {}

Required(tx, Req(_)) == UNION {Req(tx[i]) : i \in DOMAIN tx}

-----------------------------------------------------------------------------
(* Authorities.  An authority is a threshold and the weights of keys and    *)
(* accounts; sign_state collects the accounts found to approve and the      *)
(* signatures found useful.                                                 *)

Authority(t, ks, as) == [threshold |-> t, keys |-> ks, accounts |-> as]

IsAuthority(au) ==
  /\ au.threshold \in Nat
  /\ DOMAIN au.keys \subseteq Keys /\ \A k \in DOMAIN au.keys : au.keys[k] \in Nat
  /\ DOMAIN au.accounts \subseteq Accounts /\ \A a \in DOMAIN au.accounts : au.accounts[a] \in Nat

\* Ids and keys have a fixed width; operations name accounts that exist.
ASSUME AuthoritiesAssumption ==
  /\ IsFiniteSet(Accounts) /\ IsFiniteSet(Keys)
  /\ DOMAIN Active0 = Accounts /\ DOMAIN Owner0 = Accounts
  /\ \A a \in Accounts : IsAuthority(Active0[a]) /\ IsAuthority(Owner0[a])
  /\ \A au \in MinerAuthorities : IsAuthority(au)
  /\ Approvers \subseteq Accounts /\ OwnerApprovers \subseteq Accounts /\ KeyApprovers \subseteq Keys
  /\ \A op \in Updates : \A au \in op.owner \cup op.active : IsAuthority(au)
  /\ \A tx \in Transactions : \A i \in DOMAIN tx :
       /\ tx[i].type = "account_update" => \A au \in tx[i].owner \cup tx[i].active : IsAuthority(au)
       /\ tx[i].type \notin {"transfer", "account_update"} => tx[i].payer \in Accounts

\* The keys before the accounts.
Members(au) == InOrder(DOMAIN au.keys) \o InOrder(DOMAIN au.accounts)

\* ok is what a check returns, done that it returns without looking further, weight
\* its total_weight; the accounts and signatures are the memory of all checks.
SignStates == [ok : BOOLEAN, done : BOOLEAN, weight : Nat,
               approved_by : SUBSET Accounts, used : SUBSET Keys]

\* A member with this weight counts.
Counted(s, w, au) == [s EXCEPT !.weight = @ + w, !.done = s.weight + w >= au.threshold]

CheckKey(s, k, au, sigs) ==
  IF k \in sigs THEN Counted([s EXCEPT !.used = @ \cup {k}], au.keys[k], au) ELSE s

\* An account counts when it is known to approve or when n, the check of its active
\* authority one level deeper, says so; r levels are left.
AccountChecked(s, a, au, r, n) ==
  IF a \in s.approved_by THEN Counted(s, au.accounts[a], au)
  ELSE IF r = 0 THEN [s EXCEPT !.ok = FALSE, !.done = TRUE]
  ELSE IF n.ok
  THEN Counted([s EXCEPT !.approved_by = n.approved_by \cup {a}, !.used = n.used], au.accounts[a], au)
  ELSE [s EXCEPT !.approved_by = n.approved_by, !.used = n.used]

\* A search that remembers an account as approving before it has looked.
CheckAccount_eager(s, a, au, r, deeper) ==
  AccountChecked(s, a, au, r, deeper[a][[s EXCEPT !.approved_by = @ \cup {a}]])

\* A nested check that does not know who has approved.
CheckAccount_forgetful(s, a, au, r, deeper) ==
  AccountChecked(s, a, au, r, deeper[a][[s EXCEPT !.approved_by = {}]])

CheckAccount(s, a, au, r, deeper) == AccountChecked(s, a, au, r, deeper[a][s])

CheckMember(s, m, au, sigs, r, deeper) ==
  IF m \in Keys THEN CheckKey(s, m, au, sigs) ELSE CheckAccount(s, m, au, r, deeper)

\* sign_state::check_authority on an authority with r = max_recursion - depth.
CheckMembers(s, au, sigs, r, deeper) ==
  LET m == Members(au)
      after[i \in 0..Len(m)] ==
        IF i = 0 THEN [s EXCEPT !.ok = TRUE, !.done = FALSE, !.weight = 0]
        ELSE IF after[i - 1].done THEN after[i - 1]
        ELSE CheckMember(after[i - 1], m[i], au, sigs, r, deeper)
      t == after[Len(m)]
  IN  [t EXCEPT !.ok = t.ok /\ t.weight >= au.threshold]

Below(level, r) == IF r = 0 THEN <<>> ELSE level[r - 1]

\* The same on the active authority of an account, for each number of levels left.
check_authority(d, sigs) ==
  LET level[r \in 0..MaxDepth] ==
        LET deeper == Below(level, r)
        IN  [a \in Accounts |-> [s \in SignStates |-> CheckMembers(s, d.active[a], sigs, r, deeper)]]
  IN  level

CheckActive(d, sigs, a, s) == check_authority(d, sigs)[MaxDepth][a][s]

CheckOwner(d, sigs, a, s) ==
  CheckMembers(s, d.owner[a], sigs, MaxDepth, Below(check_authority(d, sigs), MaxDepth))

\* The checks of verify_authority for one account that the transaction requires.
ActiveChecked(d, sigs, a, s) ==
  LET c == CheckActive(d, sigs, a, s)
  IN  IF ~s.ok \/ a \in s.approved_by THEN s
      ELSE IF c.ok THEN c ELSE CheckOwner(d, sigs, a, c)

OwnerChecked(d, sigs, a, s, by_owner) ==
  IF ~s.ok \/ a \in by_owner THEN s ELSE CheckOwner(d, sigs, a, s)

\* The checks of verify_authority in the code's order: keys, active, owner authorities.
Checked(d, tx, sigs, by_active, by_owner) ==
  LET actives == InOrder(Required(tx, RequiredActive))
      owners == InOrder(Required(tx, RequiredOwner))
      start == [ok |-> Required(tx, RequiredKeys) \subseteq sigs, done |-> FALSE, weight |-> 0,
                approved_by |-> by_active \cup by_owner, used |-> Required(tx, RequiredKeys)]
      Active[i \in 0..Len(actives)] ==
        IF i = 0 THEN start ELSE ActiveChecked(d, sigs, actives[i], Active[i - 1])
      Owner[i \in 0..Len(owners)] ==
        IF i = 0 THEN Active[Len(actives)]
        ELSE OwnerChecked(d, sigs, owners[i], Owner[i - 1], by_owner)
  IN  Owner[Len(owners)]

\* What verify_authority makes of the checks s.
verify_authority(s, tx, sigs, allow_committee) ==
  /\ allow_committee \/ Miner \notin Required(tx, RequiredActive)
  /\ s.ok
  /\ sigs \subseteq s.used

\* For a single signature: whether the miner account is asked for, and whether the
\* signature is needed, does not matter.
verify_authority1(s) == s.ok

is_authorized_to_execute(d, p) ==
  LET s == Checked(d, p.tx, p.keys, p.active, p.owner)
  IN  verify_authority(s, p.tx, p.keys, TRUE)

-----------------------------------------------------------------------------
(* Operations.  An evaluation gives the set of its results: none when it    *)
(* throws.                                                                  *)

transfer(d, op) ==
  IF d.balance[op.from] < 1 THEN {}
  ELSE {[d EXCEPT !.balance[op.from] = @ - 1, !.balance[op.to] = @ + 1]}

account_update(d, op) ==
  LET Take(optional, old) == CHOOSE x \in (IF optional = {} THEN {old} ELSE optional) : TRUE
  IN  {[d EXCEPT !.owner[op.account] = Take(op.owner, @), !.active[op.account] = Take(op.active, @)]}

\* A creation that lets a proposal expire with the current block.
CreateAllowed_now(op, t) ==
  /\ op.expiration >= t
  /\ \A r \in op.review : r < op.expiration - t
  /\ Miner \in Required(op.tx, RequiredActive) => \E r \in op.review : r >= MinReview

\* proposal_create_evaluator: a transaction that updates a proposal is refused,
\* because it requires an authority that is not an account's (other.size() == 0).
CreateAllowed(op, t) ==
  /\ op.expiration > t
  /\ op.expiration <= t + MaxLifetime
  /\ \A r \in op.review : r < op.expiration - t
  /\ \A i \in DOMAIN op.tx : op.tx[i].type # "proposal_update"
  /\ Miner \in Required(op.tx, RequiredActive) \cup Required(op.tx, RequiredOwner)
       => \E r \in op.review : r >= MinReview
  /\ op.tx # <<>>

proposal_create(d, op, t) ==
  IF ~CreateAllowed(op, t) THEN {}
  ELSE LET own == Required(op.tx, RequiredOwner)
           p == [tx |-> op.tx, expiration |-> op.expiration,
                 review |-> {op.expiration - r : r \in op.review},
                 required_active |-> Required(op.tx, RequiredActive) \ own,
                 required_owner |-> own,
                 active |-> {}, owner |-> {}, keys |-> {}]
           id == Len(d.created) + 1
       IN  {[d EXCEPT !.proposals = [i \in DOMAIN @ \cup {id} |-> IF i = id THEN p ELSE @[i]],
                      !.created = Append(@, [tx |-> op.tx, at |-> t])]}

Without(ps, id) == [i \in DOMAIN ps \ {id} |-> ps[i]]

proposal_delete(d, op) ==
  IF op.proposal \notin DOMAIN d.proposals THEN {}
  ELSE LET p == d.proposals[op.proposal]
       IN  IF op.payer \notin (IF op.using_owner THEN p.required_owner ELSE p.required_active)
           THEN {}
           ELSE {[d EXCEPT !.proposals = Without(@, op.proposal)]}

evaluate(d, op, t) ==
  CASE op.type = "transfer" -> transfer(d, op)
    [] op.type = "account_update" -> account_update(d, op)
    [] op.type = "proposal_create" -> proposal_create(d, op, t)
    [] op.type = "proposal_delete" -> proposal_delete(d, op)

\* A failed execution that leaves its operations in _applied_ops.
push_proposal_uncut(d, l, id, t) ==
  LET p == d.proposals[id]
      Entry(i) == [proposal |-> id, op |-> p.tx[i], at |-> t]
      run[i \in 0..Len(p.tx)] == IF i = 0 THEN {d} ELSE UNION {evaluate(x, p.tx[i], t) : x \in run[i - 1]}
  IN  [ok |-> run[Len(p.tx)] # {},
       db |-> IF run[Len(p.tx)] = {} THEN d
              ELSE LET x == CHOOSE x \in run[Len(p.tx)] : TRUE IN [x EXCEPT !.proposals = Without(@, id)],
       log |-> l \o [i \in 1..Len(p.tx) |-> Entry(i)]]

\* One operation of a proposal: it is in _applied_ops before it is evaluated.
ApplyProposed(e, id, op, t) ==
  LET l == Append(e.log, [proposal |-> id, op |-> op, at |-> t])
      r == evaluate(e.db, op, t)
  IN  IF ~e.ok THEN e
      ELSE IF r = {} THEN [ok |-> FALSE, db |-> e.db, log |-> l]
      ELSE [ok |-> TRUE, db |-> CHOOSE d \in r : TRUE, log |-> l]

\* database::push_proposal: all the operations or none, and the proposal is gone
\* with them; on a failure the session is undone and _applied_ops cut back.
push_proposal(d, l, id, t) ==
  LET tx == d.proposals[id].tx
      run[i \in 0..Len(tx)] == IF i = 0 THEN [ok |-> TRUE, db |-> d, log |-> l]
                               ELSE ApplyProposed(run[i - 1], id, tx[i], t)
      e == run[Len(tx)]
  IN  IF e.ok THEN [e EXCEPT !.db.proposals = Without(@, id)]
      ELSE [ok |-> FALSE, db |-> d, log |-> SubSeq(e.log, 1, Len(l))]

Expired(d, t) == {i \in DOMAIN d.proposals : d.proposals[i].expiration <= t}

\* The first entry of by_expiration; equal times stay in order of creation.
FirstExpired(d, t) ==
  CHOOSE i \in Expired(d, t) : \A j \in Expired(d, t) :
    \/ d.proposals[i].expiration < d.proposals[j].expiration
    \/ d.proposals[i].expiration = d.proposals[j].expiration /\ i <= j

\* A round of clear_expired_proposals removes the first one, executed or not.
ClearFirst(e, t) ==
  LET i == FirstExpired(e.db, t)
      x == push_proposal(e.db, e.log, i, t)
  IN  IF Expired(e.db, t) = {} THEN e
      ELSE IF is_authorized_to_execute(e.db, e.db.proposals[i]) /\ x.ok THEN x
      ELSE [e EXCEPT !.db.proposals = Without(@, i)]

clear_expired_proposals(d, l, t) ==
  LET n == Cardinality(Expired(d, t))
      round[i \in 0..n] == IF i = 0 THEN [ok |-> TRUE, db |-> d, log |-> l]
                           ELSE ClearFirst(round[i - 1], t)
  IN  round[n]

-----------------------------------------------------------------------------
Init ==
  /\ now = 0
  /\ db = [balance |-> Balance0, active |-> Active0, owner |-> Owner0,
           proposals |-> <<>>, created |-> <<>>]
  /\ log = <<>>

\* No signatures make push_transaction accept a transaction of this operation.
Refused(op) ==
  \A sigs \in SUBSET Keys :
    LET s == Checked(db, <<op>>, sigs, {}, {})
    IN  IF Cardinality(sigs) = 1 THEN ~verify_authority1(s)
        ELSE ~verify_authority(s, <<op>>, sigs, FALSE)

\* Who pays decides who must sign and has no other effect.
RefusedToAll(Op(_)) == \A payer \in Accounts : Refused(Op(payer))

\* A proposal that deletes itself is not among the inputs: the code would remove
\* an object that is gone.
Create ==
  \E tx \in Transactions, expiration \in Expirations, review \in Optional(Reviews) :
    LET Op(payer) == [type |-> "proposal_create", payer |-> payer, tx |-> tx,
                      expiration |-> expiration, review |-> review]
    IN  /\ Len(db.created) < MaxProposals
        /\ CreateAllowed(Op(Miner), now)
        /\ \A i \in DOMAIN tx : tx[i].type = "proposal_delete" => tx[i].proposal # Len(db.created) + 1
        /\ ~RefusedToAll(Op)
        /\ db' \in proposal_create(db, Op(Miner), now)
        /\ UNCHANGED <<now, log>>

\* proposal_update_evaluator::do_evaluate.
UpdateAllowed(op, p) ==
  /\ (\E r \in p.review : now >= r) => op.active_add = {} /\ op.owner_add = {}
  /\ op.active_remove \subseteq p.active
  /\ op.owner_remove \subseteq p.owner

\* An update that executes a proposal as soon as it is authorized, review or not.
proposal_update_eager(op) ==
  LET d == [db EXCEPT !.proposals[op.proposal].active = (@ \cup op.active_add) \ op.active_remove,
                      !.proposals[op.proposal].owner = (@ \cup op.owner_add) \ op.owner_remove,
                      !.proposals[op.proposal].keys = (@ \cup op.key_add) \ op.key_remove]
      e == push_proposal(d, log, op.proposal, now)
  IN  IF is_authorized_to_execute(d, d.proposals[op.proposal])
      THEN db' = e.db /\ log' = e.log
      ELSE db' = d /\ log' = log

\* proposal_update_evaluator::do_apply.
proposal_update(op) ==
  LET p == db.proposals[op.proposal]
      q == [p EXCEPT !.active = (@ \cup op.active_add) \ op.active_remove,
                     !.owner = (@ \cup op.owner_add) \ op.owner_remove,
                     !.keys = (@ \cup op.key_add) \ op.key_remove]
      d == [db EXCEPT !.proposals[op.proposal] = q]
      e == push_proposal(d, log, op.proposal, now)
  IN  IF q.review = {} /\ is_authorized_to_execute(d, q)
      THEN db' = e.db /\ log' = e.log
      ELSE db' = d /\ log' = log

NoChange == [type |-> "proposal_update", active_add |-> {}, active_remove |-> {},
             owner_add |-> {}, owner_remove |-> {}, key_add |-> {}, key_remove |-> {}]

\* An update adds or withdraws one approval.
UpdateOp(payer, id, field, x) ==
  [f \in DOMAIN NoChange \cup {"payer", "proposal"} |->
     CASE f = "payer" -> payer
       [] f = "proposal" -> id
       [] f = field -> {x}
       [] OTHER -> NoChange[f]]

Approvals(id) ==
  LET p == db.proposals[id] IN Cardinality(p.active) + Cardinality(p.owner) + Cardinality(p.keys)

Update(field, who) ==
  \E id \in DOMAIN db.proposals, x \in who :
    /\ UpdateAllowed(UpdateOp(Miner, id, field, x), db.proposals[id])
    /\ Approvals(id) < MaxApprovals \/ field \notin {"active_add", "owner_add", "key_add"}
    /\ ~RefusedToAll(LAMBDA payer : UpdateOp(payer, id, field, x))
    /\ proposal_update(UpdateOp(Miner, id, field, x))
    /\ UNCHANGED now

Approve == Update("active_add", Approvers) \/ Update("owner_add", OwnerApprovers)
Withdraw == Update("active_remove", Approvers) \/ Update("owner_remove", OwnerApprovers)
ApproveByKey == Update("key_add", KeyApprovers) \/ Update("key_remove", KeyApprovers)

Delete ==
  \E id \in DOMAIN db.proposals, payer \in Accounts, using_owner \in BOOLEAN :
    LET op == [type |-> "proposal_delete", payer |-> payer, proposal |-> id,
               using_owner |-> using_owner]
    IN  /\ db' \in proposal_delete(db, op)
        /\ ~Refused(op)
        /\ UNCHANGED <<now, log>>

UpdateAccount ==
  \E op \in Updates :
    /\ ~Refused(op)
    /\ db' \in account_update(db, op)
    /\ db' # db
    /\ UNCHANGED <<now, log>>

\* The end of _apply_block: the new head time, an election if maintenance is due,
\* the expired proposals.
EndBlock ==
  \E t \in now + 1..MaxTime, m \in MinerAuthorities \cup {db.active[Miner]} :
    LET e == clear_expired_proposals([db EXCEPT !.active[Miner] = m], log, t)
    IN  now' = t /\ db' = e.db /\ log' = e.log

Next == Create \/ Approve \/ Withdraw \/ ApproveByKey \/ Delete \/ UpdateAccount \/ EndBlock

Spec == Init /\ [][Next]_vars

-----------------------------------------------------------------------------
(* Properties.                                                              *)

\* After a block no proposal is left that is past its expiration, whatever its
\* transaction does: also one that creates or deletes proposals while the loop
\* of clear_expired_proposals runs.
ExpiredGone == \A i \in DOMAIN db.proposals : db.proposals[i].expiration > now

\* The transfers of the history to and from an account.
Received(l, a) == Cardinality({i \in DOMAIN l : l[i].op.type = "transfer" /\ l[i].op.to = a})
Sent(l, a) == Cardinality({i \in DOMAIN l : l[i].op.type = "transfer" /\ l[i].op.from = a})

\* The history of applied operations explains the state: a proposal executes
\* once and entirely, its operations in their order and none of another proposal
\* between them, or leaves nothing behind, neither in the database, nor in
\* _applied_ops, and one that executed is gone for good.
HistoryExplains ==
  /\ \A i \in DOMAIN log :
       LET id == log[i].proposal
           tx == db.created[id].tx
       IN  /\ id \notin DOMAIN db.proposals
           /\ id \in DOMAIN db.created
           /\ \E s \in 0..(Len(log) - Len(tx)) : \A j \in DOMAIN log :
                IF j - s \in DOMAIN tx
                THEN log[j] = [proposal |-> id, op |-> tx[j - s], at |-> log[i].at]
                ELSE log[j].proposal # id
  /\ \A a \in Accounts : db.balance[a] = Balance0[a] + Received(log, a) - Sent(log, a)

\* No proposal acts in the name of the miner account before everybody had the
\* review period to look at it, even when the proposal was created by another
\* proposal: a proposed operation that needs the miner account executed more than
\* miner_proposal_review_period after its proposal was created.
MinerReviewed ==
  \A i \in DOMAIN log :
    Miner \in RequiredActive(log[i].op) \cup RequiredOwner(log[i].op)
      => log[i].at - db.created[log[i].proposal].at > MinReview

\* The accounts that approve by these approvals and keys: the least set with
\* the approvals in it and every account whose active authority it meets.
Weight(au, S, ks) ==
  SumFunctionOnSet(au.accounts, S \cap DOMAIN au.accounts)
    + SumFunctionOnSet(au.keys, ks \cap DOMAIN au.keys)

Meets(au, S, ks) == Weight(au, S, ks) >= au.threshold

Closed(d, S, ks) == \A a \in Accounts : a \in S \/ ~Meets(d.active[a], S, ks)

Approving(d, S, ks) ==
  LET closed == {G \in SUBSET Accounts : S \subseteq G /\ Closed(d, G, ks)}
  IN  {a \in Accounts : \A G \in closed : a \in G}

Granted(d, p) ==
  LET G == Approving(d, p.active \cup p.owner, p.keys)
  IN  /\ \A a \in p.required_active : a \in G \/ Meets(d.owner[a], G, p.keys)
      /\ \A a \in p.required_owner :
           (a \in G \/ Meets(d.owner[a], G, p.keys)) /\ (a \in p.owner \/ Meets(d.owner[a], G, p.keys))

\* The depth-first search of sign_state, with its memory of approving accounts,
\* its early returns and its bounded depth, grants only what the approvals grant,
\* also when authorities form cycles or changed since the approvals.
AuthorizedOnlyIfGranted ==
  \A i \in DOMAIN db.proposals :
    is_authorized_to_execute(db, db.proposals[i]) => Granted(db, db.proposals[i])

\* Authorities no deeper than the search may go are searched completely: what
\* the approvals of accounts grant is found, in whatever order they are looked
\* at.  (An approving key that is not needed makes verify_authority refuse.)
GrantedIsAuthorized ==
  \A i \in DOMAIN db.proposals :
    db.proposals[i].keys = {} =>
      is_authorized_to_execute(db, db.proposals[i]) \/ ~Granted(db, db.proposals[i])
=============================================================================
