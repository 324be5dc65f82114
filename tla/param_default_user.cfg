\* tls_param_to_default while valid user defaults are in flash.
CONSTANTS
    main = main  t1 = t1  i1 = i1  i2 = i2
    v0 = v0  v1 = v1
    Task = {main}
    Main = main
    Id = {i1, i2}
    Val <- MCVal
    Factory <- MCFactory
    Zero <- MCZero
    Blank = Blank
    NoTask = NoTask
    CountMod = 8
    MaxCount = 3
    HeapFails = {}
SPECIFICATION Spec
PROPERTY DefaultReadsUser
