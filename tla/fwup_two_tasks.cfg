\* Two tasks share the sessions; read back and flag may fail.
CONSTANTS
    t1 = t1  t2 = t2  img = img  long = long  b0 = b0  b1 = b1
    SecSize = 2
    LastSector = 5
    Byte <- MCByte
    Old = Old
    Junk = Junk
    NoCache = NoCache
    Task = {t1, t2}
    NoTask = NoTask
    CodeUpdStart = 2
    CodeRunStart = 10
    Image = {img}
    ImgBase <- MCBase
    ImgBody <- MCBody
    ImgSig <- MCSig
    Sid = {1, 2}
    NoFlag = NoFlag
    Data <- TwoPieces
    QueueSize = 4
    MaxStarts = 2
    HeapFails = {"verify", "flag"}
SPECIFICATION FairSpec
INVARIANT FlagMeansImage
PROPERTY AnnouncedInstalls
