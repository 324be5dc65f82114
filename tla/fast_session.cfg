\* Sectors of three bytes, aligned and unaligned bases.
CONSTANTS
    b0 = b0  b1 = b1
    SecSize = 3
    LastSector = 3
    Byte = {b0, b1}
    Old = Old
    Junk = Junk
    NoCache = NoCache
    Base = {3, 7}
    MaxPiece = 4
    MaxLen = 5
SPECIFICATION Spec
INVARIANTS NothingLost AllWritten BelowUntouched
