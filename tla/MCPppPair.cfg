CONSTANTS
    a = a
    b = b
    x = x
    y = y
    none = none
    Insists = TRUE
    Peers = {a, b}
    CI = {x, y, none}
    NoCI = none
    WantOf <- MCWantOf
    AcceptOf <- MCAcceptOf
    HintOf <- MCHintOf
    Adopts <- MCAdopts
    MaxConfReq = 2
    MaxTermReq = 1
    MaxNakLoops = 1
    IdMod = 4
    ChanCap = 3
    TimerCap = 3
    MaxFaults = 4
SPECIFICATION Spec
INVARIANT Agreement
