CONSTANTS
    MemoIds <- MCMemoIds
    TagIds <- MCTagIds
    Titles = {"", "a", "b"}
    Names = {"x", "y"}
    NoRow = NoRow
    TagLists <- MCTagLists
    Like <- MCLike
    EmptyText = ""
    MaxCount = 2
    Requests <- MCRequests
    NoRequest = NoRequest
    NoRq = NoRq
    Calls <- MCCalls
    Wants <- MCWants
    NoCall = NoCall
    NumMemos = 2
    NumTags = 1
SPECIFICATION SystemSpec
INVARIANTS RetryActsOnce AnsweredIsKept
PROPERTIES AnsweredIsFinal
