CONSTANTS
    b1 = b1  b2 = b2
    s1 = s1
    d1 = d1  d2 = d2
    m1 = m1
    Brokers = {b1, b2}
    Stations = {s1}
    Drones = {d1, d2}
    Missions = {m1}
    Home <- HomeOne
    MaxTries = 2
    MaxCheckouts = 2
    MaxTimeouts = 2
    MaxCrashes = 1
SPECIFICATION FairSpec
INVARIANTS TypeOK MissionConserved ResolvedMeansFlown RedispatchesBounded
PROPERTY NoMissionStuck
CHECK_DEADLOCK FALSE
