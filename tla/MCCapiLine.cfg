CONSTANTS
    Plcis = {1}
    Ptrs = {1, 2}
    Window = 2
    MsgMod = 4
    HandleMod = 3
    MsgStart = 1
    QueueCap = 3
    MaxCalls = 3
SPECIFICATION FairSpec
PROPERTY EndIsReported
INVARIANTS TypeOK OneCallPerPlci SameCalls SameLink ConfirmsFindData  AnsweredOnce
CHECK_DEADLOCK FALSE
