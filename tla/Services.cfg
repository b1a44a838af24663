CONSTANTS
    MemoIds <- MCMemoIds
    TagIds <- MCTagIds
    Titles = {"", "a", "A"}
    Names = {"", "x", "X"}
    NoRow = NoRow
    TagLists <- MCTagLists
    Like <- MCLike
    EmptyText = ""
    MaxCount = 2
    Requests <- MCRequests
    NoRequest = NoRequest
    NoRq = NoRq
    NumMemos = 3
    NumTags = 2
    Ambiguous = {"a", "A", "x", "X"}
SPECIFICATION Spec
INVARIANTS TypeOK SuccessIsStored AddedIdIsNew FailureHasReason RemovalIsReported OnlyNamedAreRemoved RemovalIsComplete
