CONSTANTS
    MemoIds <- MCMemoIds
    TagIds <- MCTagIds
    Titles = {"a", "b"}
    Names = {"x"}
    NoRow = NoRow
    Like <- MCLike
    TagLists <- MCTagLists
    MaxCopies = 2
    FaultKinds = {"open", "pragma", "read", "undo", "write", "commit"}
    MaxFaults = 2
    NumMemos = 2
    NumTags = 1
    MixedCase = TRUE
SPECIFICATION Spec
INVARIANTS DependentsDeletedFirst WritesInTransaction
PROPERTIES OnlyWholeOperationsOnDisk
