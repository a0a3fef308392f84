CONSTANTS
    w1 = w1
    w2 = w2
    Who = {w1, w2}
    Delays = {1, 2}
    USEC = 2
    Start = 4
    LastSet = 7
    Cap = 3
SPECIFICATION Spec
INVARIANTS SecondsSorted NeverOversleeps
PROPERTIES ImplementsService EveryCalloutRuns
