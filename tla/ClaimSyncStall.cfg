CONSTANTS
    n1 = n1  n2 = n2  n3 = n3
    B1 = B1  B2 = B2  B3 = B3  F2 = F2  F3 = F3
    None = None
    NotAsked = NotAsked
    Blocks <- LineBlocks
    Parent <- LineParent
    Num <- LineNum
    Lib <- LineLib
    Bad = {}
    Txs = {}
    BlockTxs <- NoTxs
    Nodes = {n1, n2, n3}
    Links <- LinksThree
    Starts <- StartsThree
    Miners = {}
    IdsPerReply = 2
    MinIdsToPrefetch = 1
    MaxBlocksPerPeer = 1
    MaxBlocksToHandle = 2
    MaxBlocksToPrefetch = 1
    MaxConnects <- ConnectsOnce
SPECIFICATION Spec
INVARIANT SyncFinishes
CHECK_DEADLOCK FALSE
