\* Everything may fail, and the system task may lag behind the AP.
CONSTANTS
    s1 = s1  s2 = s2  s3 = s3
    Station = {s1, s2}
    NoMac = NoMac
    NumClients = 2
    HostMask = 6
    ServerHost = 4
    LeaseTime = 2
    OfferTime = 1
    Foreign = 3
    MaxFlight = 1
    MaxSys = 2
    Prompt = FALSE
    Fails = {"recv", "tick", "reply", "start", "sys"}
SPECIFICATION FairSpec
INVARIANTS OneSlot
PROPERTIES AbandonedFreed
