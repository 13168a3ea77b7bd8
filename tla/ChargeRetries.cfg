CONSTANTS
    n1 = n1  n2 = n2
    BR = BR
    e1 = e1  e2 = e2  e3 = e3
    sensor = sensor
    c1 = c1  c2 = c2  c3 = c3
    None = None
    Nodes = {n1, n2}
    Nations = {BR}
    Calls = {c1, c2, c3}
    Txs <- TxsCharge
    TxOf <- TxOfCharge
    InitialCredits = 2
    MaxHeight = 2
    MaxBlockTxs = 2
    MaxBoots = 0
    MaxTries = 2
    MaxPool = 1
    Unlucky = {c1}
SPECIFICATION ChargeFairSpec
INVARIANT NothingRejected
PROPERTIES RefusalIsFinal ApprovedPaidOrBroke
CHECK_DEADLOCK FALSE
