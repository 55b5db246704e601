\* Every list of up to two tags, and longer ones over fewer tags.
CONSTANTS
    Chars <- BothChars
    symbolicNames <- SymbolicTable
    TagLists <- MCTagLists
    Ids = {3, 20}
    Body <- MCBody
    MaxNumber <- Max35
    Encoding <- VarUint

SPECIFICATION Spec

INVARIANTS
    TypeOK
    TagsSurvive
    IteratorMeetsEnd
    WithinBuffer
    FieldsFound
    CopyAlike

\* The tags have been read.
CHECK_DEADLOCK FALSE
