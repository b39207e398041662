CONSTANTS
  None = None
  A1 = A1 A2 = A2 A3 = A3 A4 = A4 B1 = B1 B2 = B2 B3 = B3 B4 = B4 B5 = B5 C4 = C4
  t1 = t1 t2 = t2
  Blocks = {A1, A2, A3, A4, B3, B4, B5, C4}
  Txs = {t1}
  Parent <- TreeParent
  Num <- TreeNum
  Lib <- TreeLib
  Bad = {}
  BlockTxs <- TreeTxs
  DefaultMaxSize = 8
  MaxNum = 5
  Seeded = {}
  Bought = {}
  KeyTx <- KeyTxs
  ProposalTxs = {}
  Crashes = 1
SPECIFICATION FairSpec
INVARIANTS CrashSafeLog HeadLinkable
PROPERTIES StartsFromHead
