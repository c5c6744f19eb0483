\* The default build; the update asks for a second launch during the first.
SPECIFICATION FairSpec
CONSTANTS
    NThreads  = 1
    MaxFaults = 0
INVARIANT StopMeansStopped
CHECK_DEADLOCK FALSE
