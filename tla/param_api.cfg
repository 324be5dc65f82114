\* One task and the whole API, resets and user defaults included; power cuts,
\* and the allocations of the user defaults may fail.
CONSTANTS
    main = main  t1 = t1  i1 = i1  i2 = i2
    v0 = v0  v1 = v1
    Task = {main}
    Main = main
    Id = {i1, i2}
    Val <- MCVal
    Factory <- MCFactory
    Zero <- MCZero
    Blank = Blank
    NoTask = NoTask
    CountMod = 8
    MaxCount = 3
    HeapFails = {"user", "usrwrite"}
SPECIFICATION Spec
INVARIANTS NeverLoseBoth
PROPERTIES SaveDurable DefaultDurable UserSaveDurable
