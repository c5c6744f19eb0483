\* Two threads; one starves on top of a connection in flight.
SPECIFICATION FairSpec
CONSTANTS
    Threads   = {t1, t2}
    NConn     = 2
    Queries   = {q1, q2}
    Blocking  = {}
    MaxFaults = 0
    NULL      = NULL
PROPERTY StopCompletes
CHECK_DEADLOCK FALSE
