\* Two threads on one queue.
SPECIFICATION Spec
CONSTANTS
    Threads   = {t1, t2}
    NConn     = 2
    Queries   = {q1, q2, q3}
    Blocking  = {q2}
    MaxFaults = 0
    NULL      = NULL
INVARIANT BarrierOrder
CHECK_DEADLOCK FALSE
