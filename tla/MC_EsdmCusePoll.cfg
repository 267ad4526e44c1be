\* Two open files polling twice each, two table slots, two status changes.
CONSTANTS
    Files = {f1, f2}
    FH <- FhFromOpen
    NumSlots = 2
    MaxPolls = 2
    MaxPosts = 2
    NoPh = NoPh
SPECIFICATION FairSpec
INVARIANT TypeOK
INVARIANT NoUseAfterDestroy
PROPERTY PollCallsReturn
