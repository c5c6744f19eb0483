\* Two send/poll threads per launch, one failing call.
SPECIFICATION FairSpec
CONSTANTS
    NThreads  = 2
    MaxFaults = 1
INVARIANTS TypeOK FreedLast RunningIsKnown
PROPERTIES UpdateIsSent TerminationEnds
CHECK_DEADLOCK FALSE
