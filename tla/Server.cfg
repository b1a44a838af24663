CONSTANTS
    c1 = c1
    c2 = c2
    Procs = {1, 2, 3, 4, 5, 6, 7, 8, 9, 10}
    Calls = {c1, c2}
    Wishes <- MCWishes
    NoClass = NoClass
    NoProc = NoProc
    NoCall = NoCall
SPECIFICATION MCSpec
INVARIANTS TypeOK OneListener TagsAlive RegisteredAreHeld StateTellsOperation HandledOnce
PROPERTIES CallsEnd DestructorEnds ImplementsRpc
