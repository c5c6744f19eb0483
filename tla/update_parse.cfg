\* Four files of two countries, any of six cells empty, up to two faults.
SPECIFICATION FairSpec
CONSTANTS
    Rows        <- MCRows
    LastCol     <- MCLastCol
    CodesHeader <- MCHeader
    YearCols    <- MCYearCols
    Empty       <- MCEmpty
    Optional    <- MCOptional
    Ignored     <- MCIgnored
    MaxFaults   = 2
    NULL        = NULL
INVARIANTS TypeOK ReferencesStored IdsNameTheirCallbacks RecordedIsSent
PROPERTY UpdateEnds
CHECK_DEADLOCK FALSE
