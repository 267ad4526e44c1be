\* Two clients calling every client function, with failed borrows, broken
\* connections and invokes returning without their closure
CONSTANTS
    Clients = {c1, c2}
    Ops = {"add_entropy", "reseed_old", "reseed_new", "min_reseed"}
    MaxCalls = 2
    ServerRets <- McServerRets
    ReseedMaxTime = 600
    GetMayFail = TRUE
    MayDisconnect = TRUE
    MayTimeOut = TRUE
SPECIFICATION FairSpec
INVARIANT TypeOK
INVARIANT ReturnsServerAnswer
INVARIANT SecondsOnSuccess
PROPERTY RpcCallRefined
