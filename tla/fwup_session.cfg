\* One task; two images, one of them too long for the area; sessions left half
\* way, and any allocation may fail.
CONSTANTS
    t1 = t1  t2 = t2  img = img  long = long  b0 = b0  b1 = b1
    SecSize = 2
    LastSector = 10
    Byte <- MCByte
    Old = Old
    Junk = Junk
    NoCache = NoCache
    Task = {t1}
    NoTask = NoTask
    CodeUpdStart = 2
    CodeRunStart = 16
    Image = {img, long}
    ImgBase <- MCBase
    ImgBody <- MCBody
    ImgSig <- MCSig
    Sid = {1}
    NoFlag = NoFlag
    Data <- MixedPieces
    QueueSize = 4
    MaxStarts = 2
    HeapFails = {"cache", "verify", "flag"}
SPECIFICATION FairSpec
INVARIANTS FwTypeOK OnlyImageSectors
PROPERTIES RequestsReturn
