CONSTANTS
    MemoIds <- MCMemoIds
    TagIds <- MCTagIds
    Titles = {"a", "b"}
    Names = {"x", "y"}
    NoRow = NoRow
    Like <- MCLike
    TagLists <- MCTagLists
    MaxCopies = 2
    FaultKinds = {"open", "read", "write"}
    MaxFaults = 1
    NumMemos = 2
    NumTags = 2
    MixedCase = FALSE
SPECIFICATION Spec
INVARIANTS TypeOK IntegrityKept NoTransactionLeftOpen TrueMeansDurable NoRepeatedTag
PROPERTIES ImplementsMemoStore
