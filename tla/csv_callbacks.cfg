\* A keyword, rows 0 and 1, columns 0 to 2; files of up to two rows of three fields.
SPECIFICATION FairSpec
CONSTANTS
    NKey = 1
    NRgx = 0
    NRow = 2
    NCol = 3
    Entries <- MCEntries
    Texts   = {0, 1}
    MaxRow  = 1
    MaxCol  = 2
    END     = 255
    NULL    = NULL
INVARIANTS TypeOK ChainSound ColumnsToCome
PROPERTIES ImplementsCallbackSet SearchEnds
CHECK_DEADLOCK FALSE
