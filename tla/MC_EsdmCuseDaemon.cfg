\* Set-up failures, a busy bind mount and two different termination
\* signals at any point
CONSTANTS
    HasTarget = TRUE
    MayFail = TRUE
    UmountMayFail = TRUE
    MaySignal = TRUE
    Handlers = {h1, h2}
SPECIFICATION Spec
INVARIANT CheckerUsesLiveShm
PROPERTY TermEnds
