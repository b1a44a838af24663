CONSTANTS
    MemoIds = {1, 2, 3}
    TagIds = {1, 2}
    Titles <- MCTexts
    Names <- MCTexts
    NoRow = NoRow
    Texts <- MCTexts
    EmptyText = ""
    LikeTexts <- MCLikeTexts
    NoBound = NoBound
    Databases <- MCDatabases
    MemoRequests <- MCMemoRequests
    TagRequests <- MCTagRequests
    OtherFilters <- MCOtherFilters
    MaxCount = 2
    NoRange = NoRange
    NoRequest = NoRequest
SPECIFICATION Spec
INVARIANTS MemosAsAskedFor TagsAsAskedFor OnlyRealMemos TagsResolve
