CONSTANTS
    c1 = c1
    c2 = c2
    CI = {c1, c2}
    NoCI = c1
    MaxConfReq = 2
    MaxTermReq = 2
    MaxNakLoops = 1
    IdMod = 3
    TimerCap = 3
SPECIFICATION FairSpec
INVARIANTS TypeOK TimerArmed UpperOnlyOpened
PROPERTIES OptionsFrozen  TerminationEnds QuietSettles ImplementsLayer
