CONSTANTS
    n1 = n1  n2 = n2
    BR = BR  UK = UK  XX = XX
    e1 = e1  e2 = e2  e3 = e3  e4 = e4
    uav1 = uav1  uav2 = uav2  sensor = sensor
    None = None
    Nodes = {n1}
    Nations = {BR, UK}
    Txs <- TxsTwo
    InitialCredits = 2
    MaxHeight = 1
    MaxBlockTxs = 2
    MaxBoots = 1
SPECIFICATION Spec
INVARIANT NoDoubleDebit
CHECK_DEADLOCK FALSE
