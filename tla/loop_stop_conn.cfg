\* The default build; the only connection is lost, then a query is enqueued.
SPECIFICATION FairSpec
CONSTANTS
    Threads   = {t1}
    NConn     = 1
    Queries   = {q1, q2}
    Blocking  = {}
    MaxFaults = 1
    NULL      = NULL
PROPERTY StopCompletes
CHECK_DEADLOCK FALSE
