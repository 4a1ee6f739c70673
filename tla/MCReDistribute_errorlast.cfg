\* Redistribution with ReDistribute_Error declared last in the status enum.
CONSTANTS
    a = a  b = b  c = c  d = d  e = e
    NULL = NULL
    Garbage = Garbage
    N = 2
    Rows <- MCRows
    Input <- MCInput
    KeyHashes = {1, 2}
    BufferSize = 8
    IntSize = 1
    DataLen = 2
    ErrorDeclaredLast = TRUE
    MaxFailures = 0
SPECIFICATION Spec
INVARIANTS NoSpuriousError
CHECK_DEADLOCK FALSE
