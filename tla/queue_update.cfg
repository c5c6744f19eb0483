\* One producer, as while emiss_update.c fills the queue; two send/poll threads.
SPECIFICATION FairSpec
CONSTANTS
    Producers = {p1}
    Consumers = {c1, c2}
    Queries   = {q1, q2, q3}
    Blocking  = {q2}
    NULL      = NULL
INVARIANTS TypeOK LockInv FlagHonest NoUseAfterFree Fifo
PROPERTIES ImplementsFifo EveryQueryTaken DequeueReturns
CHECK_DEADLOCK FALSE
