CONSTANTS
    s1 = s1
    s2 = s2
    unknown = unknown
    Station <- MC_Station
    NoStation <- unknown
    RingStation <- MC_RingNamed
    RingName <- MC_RingNamed
    MaxTask = 1
    MaxChange = 2

SPECIFICATION RouterSpec
VIEW MC_View

PROPERTY StatusDelivered
PROPERTY RefinesStatusChannel
