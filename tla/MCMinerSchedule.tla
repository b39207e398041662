--------------------------- MODULE MCMinerSchedule ---------------------------
EXTENDS MinerSchedule, TLC

CONSTANTS x, y

Stakes == (x :> 3 @@ y :> 4)

Three == [votes |-> {2}, num_miner |-> 3]
Five == [votes |-> {3}, num_miner |-> 5]
Abstain == [votes |-> {1}, num_miner |-> 0]
OpinionSet == {Three, Five, Abstain}

Slow == [block_interval |-> 2, maintenance_interval |-> 6, maintenance_skip_slots |-> 1,
         maximum_miner_count |-> 5]
Fast == [block_interval |-> 3, maintenance_interval |-> 6, maintenance_skip_slots |-> 1,
         maximum_miner_count |-> 3]

ParameterSet == {Slow, Fast}

RewardSwitches == <<2, 4>>
RewardTable == <<0, 4, 0>>
=============================================================================
