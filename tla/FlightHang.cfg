CONSTANTS
    FlightTimes <- CodeFlightTimes
    PingEvery = 4
    MaxCall = 17
    Lease = 20
    SweepEvery = 4
    MaxMisses = 3
    MaxNow = 36
SPECIFICATION FairSpec
PROPERTY LandedReports
CHECK_DEADLOCK FALSE
