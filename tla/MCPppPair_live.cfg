CONSTANTS
    a = a
    b = b
    x = x
    y = y
    none = none
    Insists = TRUE
    Peers = {a, b}
    CI = {x, y, none}
    NoCI = none
    WantOf <- MCWantOf
    AcceptOf <- MCAcceptOf
    HintOf <- MCHintOf
    Adopts <- MCAdopts
    MaxConfReq = 3
    MaxTermReq = 1
    MaxNakLoops = 1
    IdMod = 8
    ChanCap = 6
    TimerCap = 3
    MaxFaults = 2
SPECIFICATION CalmSpec
PROPERTIES CloseReachesPeer Converges
