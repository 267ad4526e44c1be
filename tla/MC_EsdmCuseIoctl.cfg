\* Privileged ioctls of concurrent root and unprivileged callers
CONSTANTS
    Workers = {w1, w2, w3}
    Uids = {0, 1000}
    HasFallback = TRUE
    MaxReq = 1
    RpcMayFail = TRUE
    ReplyMayFail = TRUE
    ForceFipsEnv = FALSE
    FipsFile = "empty"
SPECIFICATION Spec
SYMMETRY WorkerSymmetry
INVARIANT PrivilegeNotLeaked
INVARIANT PrivilegedOpsOnlyForRoot
