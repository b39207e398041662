----------------------------- MODULE MCProposals -----------------------------
EXTENDS Proposals, TLC

\* Account 1 is the miner account, 2 and 3 are people, 4 and 5 their keys.
No == <<>>
OfKey(k) == Authority(1, k :> 1, No)
Nobody == Authority(1, No, No)
Both == Authority(2, No, (2 :> 1 @@ 3 :> 1))
Second == Authority(1, No, 2 :> 1)
EitherOr == Authority(1, 5 :> 1, 2 :> 1)
ThirdAlone == Authority(1, No, 3 :> 1)

ActiveStart == <<Both, OfKey(4), EitherOr>>
OwnerStart == <<Nobody, OfKey(4), OfKey(5)>>
BalanceStart == <<1, 1, 1>>
Elections == {Second}

Transfer(a, b) == [type |-> "transfer", from |-> a, to |-> b]
Account(a, owner, active) ==
  [type |-> "account_update", account |-> a, owner |-> owner, active |-> active]

UpdateSet == {Account(2, {}, {ThirdAlone})}

PayTwice == <<Transfer(2, 3), Transfer(2, 3)>>
FromMiner == <<Transfer(1, 2)>>
Reset == <<Account(2, {OfKey(5)}, {OfKey(4)}),
           [type |-> "proposal_delete", payer |-> 2, proposal |-> 1, using_owner |-> FALSE]>>
Spawn == <<[type |-> "proposal_create", payer |-> 3, tx |-> FromMiner,
            expiration |-> 3, review |-> {1}]>>

TransactionSet == {PayTwice, FromMiner, Reset, Spawn}
=============================================================================
