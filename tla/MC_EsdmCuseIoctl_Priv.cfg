\* Two root callers' privileged ioctls
CONSTANTS
    Workers = {w1, w2}
    Uids = {0, 1000}
    HasFallback = TRUE
    MaxReq = 1
    RpcMayFail = FALSE
    ReplyMayFail = FALSE
    ForceFipsEnv = FALSE
    FipsFile = "1"
SPECIFICATION Spec
SYMMETRY WorkerSymmetry
INVARIANT RootNeverRefused
