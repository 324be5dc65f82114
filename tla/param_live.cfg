\* Reset and core, every allocation they make may fail, the modify count wraps.
CONSTANTS
    main = main  t1 = t1  i1 = i1  i2 = i2
    v0 = v0  v1 = v1
    Task = {main, t1}
    Main = main
    Id = {i1}
    Val = {v0}
    Factory <- MCFactory
    Zero <- MCFactory
    Blank = Blank
    NoTask = NoTask
    CountMod = 2
    MaxCount = 2
    HeapFails = {"boot", "write", "verify", "compare", "get"}
SPECIFICATION FairResetSpec
PROPERTIES CallsReturn
