CONSTANTS
  None = None
  alice = alice bob = bob carol = carol dan = dan s1 = s1 s2 = s2 u1 = u1 u2 = u2
  Authors = {alice}
  Accounts = {alice, bob, carol, dan, s1, s2}
  Consumers = {carol, dan}
  Seeders = {s1, s2}
  Subscribers = {dan}
  URIs = {u1}
  CoAuthorMaps <- Splits
  Prices = {10}
  KeyPartSets = {{}, {s1, s2}}
  Quorum = 2
  Fees = {2}
  Lifetimes = {5}
  SeederPrices = {0}
  Spaces = {2}
  Ratings = {1, 4}
  Balance0 = 12
  Day = 4
  BlockInterval = 2
  MaintenanceInterval = 4
  SkipSlots = 0
  MaxSlots = 2
  MaxTime = 8
  Word = 16
SPECIFICATION Spec
SYMMETRY SeederSymmetry
INVARIANTS Conserved SettledOnce ExpiredReturned CountsMatchPurchases
