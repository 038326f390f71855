CONSTANTS
    s1 = s1
    s2 = s2
    s3 = s3
    Senders = {s1, s2, s3}
    Limit = 2
    LastMonth = 2
    Max = 2
    u1 = u1
    e1 = e1
    ig1 = ig1
    a1 = a1
    a2 = a2
    c1 = c1
    c2 = c2
    Nothing = Nothing
    Library = 4
    MaxPosts = 5
    PageSize = 2
    Concurrency = 2
    Size = 5
    Wanted = 4
    MaxPages = 8
    MaxMoves = 1
SPECIFICATION MCSpec
INVARIANTS
    WithinCap
    ReadIsComplete
    EachPostOnce
    
PROPERTIES
    BlockedThenFree
    
    
    PickerSettles
CHECK_DEADLOCK FALSE
