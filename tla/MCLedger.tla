------------------------------ MODULE MCLedger ------------------------------
(***************************************************************************)
(* An instance of Ledger: alice issues the assets, signs the blocks and     *)
(* lets bob withdraw; she may hand an asset over to bob.  One rate gives    *)
(* less than one core for one unit, the other just one.                     *)
(***************************************************************************)
EXTENDS Ledger, TLC

CONSTANTS alice, bob, usd, eur

Balances == [x \in Accounts |-> IF x = alice THEN 5 ELSE 0]
OptionSet == {[issuer |-> alice, max |-> 2, exchangeable |-> TRUE, fixed |-> FALSE, core |-> 1, units |-> 1],
              [issuer |-> bob, max |-> 1, exchangeable |-> FALSE, fixed |-> FALSE, core |-> 1, units |-> 2]}
FeeSet == {[asset |-> a, amount |-> 1] : a \in Assets}
CreationFeeSet == {[asset |-> Core, amount |-> 3]} \cup {[asset |-> a, amount |-> 1] : a \in UIAs}
PolicySet == {[kind |-> "cdd", seconds |-> 2, start |-> 1, cliff |-> 0],
              [kind |-> "linear", seconds |-> 3, start |-> 0, cliff |-> 2]}
UIASymmetry == Permutations(UIAs)
=============================================================================
