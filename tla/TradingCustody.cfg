CONSTANTS
  None = None
  alice = alice bob = bob carol = carol dan = dan s1 = s1 s2 = s2 u1 = u1 u2 = u2
  Authors = {alice}
  Accounts = {alice, s1, s2}
  Consumers = {}
  Seeders = {s1, s2}
  Subscribers = {}
  URIs = {u1}
  CoAuthorMaps <- NoSplits
  Prices = {0}
  KeyPartSets = {{s1}, {s1, s2}}
  Quorum = 1
  Fees = {6, 13}
  Lifetimes = {8, 15, 16}
  SeederPrices = {2, 3}
  Spaces = {2}
  Ratings = {}
  Balance0 = 13
  Day = 8
  BlockInterval = 2
  MaintenanceInterval = 6
  SkipSlots = 1
  MaxSlots = 3
  MaxTime = 18
  Word = 16
SPECIFICATION Spec
INVARIANTS SeedersFunded SeededCounted EscrowNotOverdrawn
