CONSTANTS
    b1 = b1  b2 = b2
    r1 = r1
    t1 = t1
    w1 = w1  w2 = w2
    Idle = Idle
    Brokers = {b1, b2}
    Initial = {b1}
    Requisitions = {r1}
    Noise = {t1}
    Workers = {w1, w2}
    TelemetryCap = 1
    PacketCap = 1
    MaxExpiries = 1
SPECIFICATION FairSpec
INVARIANTS TypeOK IntakeConserved BurstAbsorbed ForwardsBounded
PROPERTIES EveryEventSettles DiscoveryFollows
CHECK_DEADLOCK FALSE
