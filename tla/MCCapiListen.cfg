CONSTANTS
    Masks = {0, 1, 2}
    QueueCap = 3
SPECIFICATION Spec
INVARIANT ListenAgrees
PROPERTY ListenSettles
