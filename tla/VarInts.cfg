\* Every number of 15 bits, unsigned and signed.
CONSTANTS
    Word <- Bits15
    MaxBytes = 3
    minRes <- MinRes15
    MinShifts <- MinShifts15
    Unsigned <- AllUnsigned
    Signed <- AllSigned
    Beyond = {1, 255}

SPECIFICATION Spec

INVARIANTS
    TypeOK
    RoundTrip
    SizeExact
    BufferFits

\* The number has been read.
CHECK_DEADLOCK FALSE
