CONSTANTS
    w1 = w1  w2 = w2  w3 = w3
    Workers = {w1, w2, w3}
    Received = {0, 1, 3}
    MaxStamps = 3
SPECIFICATION Spec
INVARIANTS StampsIncrease StampsCausal LostToWinners
CHECK_DEADLOCK FALSE
