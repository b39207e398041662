CONSTANTS
  x = x y = y 
  Miners = {1, 2, 3}
  Stakeholders = {x, y}
  Stake <- Stakes
  Opinions <- OpinionSet
  Opinion0 <- Three
  MinMiners = 1
  Active0 = {1, 2, 3}
  Parameters <- ParameterSet
  Parameters0 <- Slow
  GenesisTime = 3
  Switches <- RewardSwitches
  Rewards <- RewardTable
  Fees = {5}
  Supply0 = 20
  MaxUndoHistory = 4
  Threshold = 70
  Window = 2
  Required = 50
  OwnMiners = {1}
  StaleProduction = FALSE
  Word = 256
  MaxHead = 7
  MaxTime = 14
SPECIFICATION Spec
INVARIANTS SlotsPartitionTime SupplyRecorded BudgetCoversInterval MedianElected
PROPERTIES IrreversibleConfirmed
CHECK_DEADLOCK FALSE
