\* An exit request between the start of the server and its event loop.
SPECIFICATION FairSpec
CONSTANTS
    NThreads  = 1
    MaxFaults = 0
PROPERTY ExitIsHonoured
CHECK_DEADLOCK FALSE
