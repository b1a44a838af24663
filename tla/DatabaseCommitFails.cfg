CONSTANTS
    MemoIds <- MCMemoIds
    TagIds <- MCTagIds
    Titles = {"a", "b"}
    Names = {"x", "y"}
    NoRow = NoRow
    Like <- MCLike
    TagLists <- MCTagLists
    MaxCopies = 2
    FaultKinds = {"commit"}
    MaxFaults = 1
    NumMemos = 2
    NumTags = 2
    MixedCase = FALSE
SPECIFICATION Spec
INVARIANTS UpdateMemoDone
