CONSTANTS
    s1 = s1  s2 = s2  s3 = s3
    Station = {s1, s2, s3}
    NoMac = NoMac
    NumClients = 2
    HostMask = 6
    ServerHost = 4
    LeaseTime = 2
    OfferTime = 1
    Foreign = 3
    MaxFlight = 2
    MaxSys = 2
    Prompt = TRUE
    Fails = {"recv", "reply", "start"}
SPECIFICATION Spec
INVARIANTS SoftApTypeOK OneHolder LeaseCovered LookupRight
SYMMETRY Symmetry
