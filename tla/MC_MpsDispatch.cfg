CONSTANTS
    s1 = s1
    s2 = s2
    unknown = unknown
    Station <- MC_Station
    NoStation <- unknown
    MaxTask = 3

SPECIFICATION Spec
SYMMETRY MC_Symmetry

INVARIANT SingleFlight
INVARIANT FeedbackOrder
INVARIANT IInv
PROPERTY RefinesPendingOperations
