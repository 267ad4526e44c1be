\* Two open files: a poll of one file frees the parked handle of the other.
CONSTANTS
    Files = {f1, f2}
    FH <- FhFromOpen
    NumSlots = 2
    MaxPolls = 2
    MaxPosts = 2
    NoPh = NoPh
SPECIFICATION Spec
INVARIANT ReplacesOnlyOwnHandle
