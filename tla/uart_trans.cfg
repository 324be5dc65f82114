CONSTANTS
    Uart = Uart  a1 = a1  a2 = a2
    Handler = {Uart, a1, a2}
    Msecs <- MCMsecs
    Hz = 500
    MboxSize = 4
    MaxWait = 2
    MaxAge = 2
    MaxWraps = 1
    Size = 8
    CacheLimit = 4
    NetSize = 2
    FifoMax = 1
    Load <- MCLoad
    MaxErrors = 1
    Start = 6
SPECIFICATION FairSpec
INVARIANTS TransTypeOK ForwardedInOrder OneUartTimer RxServed
PROPERTIES ImplementsTimers NeverEarly AllForwarded TimersFire
