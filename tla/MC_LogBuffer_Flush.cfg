CONSTANTS
    w1 = w1
    w2 = w2
    o1 = o1
    o2 = o2
    o3 = o3
    c1 = c1
    x1 = x1
    Panickers = {}
    Early = Early
    Cores <- MCCores
    WriterCore <- MCWriterCore
    Writers <- MCWriters
    Outputs <- MCOutputs
    MsgLen <- MCMsgLen
    HeadStarts <- MCHeadStartsNoWrap
    BufLen = 14
    ItemSize = 2
    MaxEarlyLogOuts = 2
    MaxEloItemsPrinted = 2
    Free = Free
    Null = Null
    Nobody = Nobody

SPECIFICATION Spec

PROPERTY EveryMessageFlushed
