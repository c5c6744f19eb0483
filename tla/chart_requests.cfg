\* Two workers, charts of one or two items, two send/poll threads, one failing call.
SPECIFICATION FairSpec
CONSTANTS
    Workers   = {w1, w2}
    MaxItems  = 2
    NThreads  = 2
    MaxFaults = 1
INVARIANTS TypeOK CallbackOnLiveStorage ReadsComplete LeakOnlyAfterError NobodyAwaitsDiscarded
PROPERTIES RequestAnswered ShutdownCompletes
CHECK_DEADLOCK FALSE
