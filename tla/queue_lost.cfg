SPECIFICATION FairSpec
CONSTANTS
    Producers = {p1, p2}
    Consumers = {c1}
    Queries   = {q1, q2, q3}
    Blocking  = {q2}
    NULL      = NULL
PROPERTY EveryQueryTaken
CHECK_DEADLOCK FALSE
