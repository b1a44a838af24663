CONSTANTS
    MemoIds <- MCMemoIds
    TagIds <- MCTagIds
    Titles = {"", "a", "A"}
    Names = {"x"}
    NoRow = NoRow
    TagLists <- MCTagLists
    Like <- MCLike
    EmptyText = ""
    MaxCount = 100
    Requests <- MCRequests
    NoRequest = NoRequest
    NoRq = NoRq
    NumMemos = 2
    NumTags = 1
    Ambiguous = {"a", "A"}
SPECIFICATION Spec
INVARIANTS AddedIdIsNewlyInserted
