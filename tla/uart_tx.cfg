CONSTANTS
    t1 = t1  t2 = t2  m0 = m0  m1 = m1  m2 = m2  m3 = m3
    Task = {t1, t2}
    Host = t1
    Msg = {m0, m1, m3}
    MsgLen <- MCLen
    Writer <- MCWriter
    FifoFull = 2
    Burst = 3
    Trigger = 0
    Callback = {"direct", "posted"}
    FlowCtrl = TRUE
    ClearLate = FALSE
    MayFill = TRUE
SPECIFICATION FairSpec
INVARIANTS UartTxTypeOK InOrder FreedOnce
PROPERTIES EverySent DirectFreed
