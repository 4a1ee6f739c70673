\* Redistribution between two workers, one of which may raise an error at any point; Error declared first.
CONSTANTS
    a = a  b = b  c = c  d = d  e = e
    NULL = NULL
    Garbage = Garbage
    N = 2
    Rows <- MCRows
    Input <- MCInput
    KeyHashes = {1, 2}
    BufferSize = 8
    IntSize = 1
    DataLen = 2
    ErrorDeclaredLast = FALSE
    MaxFailures = 1
SPECIFICATION Spec
INVARIANTS TypeOK RowsConserved DeliveredToOwner AllRowsAggregated FilesOutliveReaders NoSpuriousError
PROPERTIES Termination ExchangeRefinement
CHECK_DEADLOCK FALSE
