CONSTANTS
  Accounts = {1, 2, 3}
  Miner = 1
  Keys = {4, 5}
  Active0 <- ActiveStart
  Owner0 <- OwnerStart
  Balance0 <- BalanceStart
  MinerAuthorities <- Elections
  Approvers = {3}
  OwnerApprovers = {2}
  KeyApprovers = {4}
  Updates <- UpdateSet
  Transactions <- TransactionSet
  Expirations = {2, 3}
  Reviews = {1}
  MaxLifetime = 2
  MinReview = 1
  MaxDepth = 2
  MaxApprovals = 2
  MaxProposals = 2
  MaxTime = 3
SPECIFICATION Spec
INVARIANTS ExpiredGone HistoryExplains MinerReviewed AuthorizedOnlyIfGranted GrantedIsAuthorized
CHECK_DEADLOCK FALSE
