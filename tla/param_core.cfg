\* Two tasks, two parameters, power cuts, a heap that never fails.
CONSTANTS
    main = main  t1 = t1  i1 = i1  i2 = i2
    v0 = v0  v1 = v1
    Task = {main, t1}
    Main = main
    Id = {i1, i2}
    Val <- MCVal
    Factory <- MCFactory
    Zero <- MCZero
    Blank = Blank
    NoTask = NoTask
    CountMod = 8
    MaxCount = 4
    HeapFails = {}
SPECIFICATION CoreSpec
INVARIANTS TypeOK NeverLoseBoth GetNeverTorn NextWriteHitsOlder IInv
PROPERTIES SetDurable SaveDurable ImplementsAtomic
