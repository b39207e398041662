CONSTANTS
  Core = Core usd = usd eur = eur alice = alice bob = bob
  Accounts = {alice, bob}
  Assets = {Core, usd, eur}
  Signer = alice
  Grantor = alice
  Grantee = bob
  Balance0 <- Balances
  Options <- OptionSet
  Amounts = {1, 2}
  Fees <- FeeSet
  CreationFees <- CreationFeeSet
  Policies <- PolicySet
  PaySeconds = {1, 2}
  Pays = {0, 1}
  Limits = {2}
  Period = 2
  Periods = 2
  MaxVestings = 2
  MaxPaid = 2
  MaxTime = 3
SPECIFICATION Spec
INVARIANTS SupplyExplained NothingVestsEarly PeriodLimited
SYMMETRY UIASymmetry
CHECK_DEADLOCK FALSE
