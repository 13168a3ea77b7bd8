CONSTANTS
    d1 = d1  d2 = d2
    s1 = s1  s2 = s2
    m1 = m1  m2 = m2
    Drones = {d1, d2}
    Stations = {s1, s2}
    Missions = {m1, m2}
    MaxTries = 2
    MaxFaults = 2
SPECIFICATION FairSpec
INVARIANT StrandedOnlyByCrash
PROPERTIES AbortedReadopted ServedUnlessStranded
CHECK_DEADLOCK FALSE
