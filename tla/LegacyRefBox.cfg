\* The legacy refbox.cpp: bring-up, the io_service loop with RFID polling
\* and reconnect, signal handling and the destructor.  The process ends
\* (exit, abort, crash), so terminal states are expected.
CONSTANTS
    MpsCount = 2
    MaxMsg = 2
    MaxFlip = 3
SPECIFICATION Spec
INVARIANT TypeOK
PROPERTIES SpsRecovers SignalStops
CHECK_DEADLOCK FALSE
