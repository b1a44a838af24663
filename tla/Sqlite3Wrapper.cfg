CONSTANTS
    Quote = Quote
    Nul = Nul
    Other = Other
    Characters = {Quote, Nul, Other}
    MaxLength = 4
    MaxRows = 2
    MaxCalls = 2
SPECIFICATION Spec
INVARIANTS ReadsBack RowsReachTheirCaller TrueMeansAllRows
