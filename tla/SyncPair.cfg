CONSTANTS
    n1 = n1  n2 = n2  n3 = n3
    B1 = B1  B2 = B2  B3 = B3  F2 = F2  F3 = F3
    None = None
    NotAsked = NotAsked
    Blocks <- ForkBlocks
    Parent <- ForkParent
    Num <- ForkNum
    Lib <- ForkLib
    Bad = {}
    Txs = {}
    BlockTxs <- NoTxs
    Nodes = {n1, n2}
    Links <- LinksTwo
    Starts <- StartsTwo
    Miners = {n1, n2}
    IdsPerReply = 2
    MinIdsToPrefetch = 1
    MaxBlocksPerPeer = 1
    MaxBlocksToHandle = 1
    MaxBlocksToPrefetch = 1
    MaxConnects <- ConnectsOnce
SPECIFICATION FairSpec
INVARIANT SyncFinishes
PROPERTY CatchesUp
CHECK_DEADLOCK FALSE
