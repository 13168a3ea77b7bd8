CONSTANTS
    Ids = {1, 2, 3, 4, 5}
    SensorOf <- TwoSensors
    Stamps = {0, 2}
    AgingLimit = 1
    MaxClock = 2
    Word = 16
SPECIFICATION Spec
INVARIANTS TypeOK HeapOrdered
PROPERTIES ImplementsBag AgedNotOvertaken
