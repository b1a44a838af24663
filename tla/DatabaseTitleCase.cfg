CONSTANTS
    MemoIds <- MCMemoIds
    TagIds <- MCTagIds
    Titles = {"a", "b"}
    Names = {"x", "y"}
    NoRow = NoRow
    Like <- MCLike
    TagLists <- MCTagLists
    MaxCopies = 2
    FaultKinds = {}
    MaxFaults = 0
    NumMemos = 2
    NumTags = 2
    MixedCase = TRUE
SPECIFICATION Spec
INVARIANTS InsertMemoDone
