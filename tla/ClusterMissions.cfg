CONSTANTS
    b1 = b1  b2 = b2  b3 = b3
    e1 = e1
    Brokers = {b1, b3}
    Events = {e1}
    Initial = {b1}
    Rank <- RankLate
    MaxExpiries = 1
    MaxCrashes = 1
SPECIFICATION FairSpec
INVARIANTS TypeOK FliesOnlyIfApproved CopiesBounded
PROPERTY FailoverRescues
CHECK_DEADLOCK FALSE
