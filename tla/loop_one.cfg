\* The default build: one send/poll thread; up to two failures of connections,
\* sends or answers.
SPECIFICATION FairSpec
CONSTANTS
    Threads   = {t1}
    NConn     = 2
    Queries   = {q1, q2}
    Blocking  = {q2}
    MaxFaults = 2
    NULL      = NULL
INVARIANTS TypeOK NeverStarved NothingInFlight TopollExact CarriedOnce
PROPERTIES EveryQueryAnswered InFlightAnswered ImplementsService StopWhileWorking
CHECK_DEADLOCK FALSE
