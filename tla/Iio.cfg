SPECIFICATION FairSpec
INVARIANTS TypeOK UsedWhileLive CleanExit CaptureTuned
PROPERTIES Terminates
CHECK_DEADLOCK FALSE
