CONSTANTS
    ann = ann
    ben = ben
    w1 = w1
    w2 = w2
    r1 = r1
    r2 = r2
    Users = {ann, ben}
    Workspaces = {w1, w2}
    Founder = ann
    FirstWorkspace = w1
    Requests = {r1, r2}
    MaxRows = 3
    MaxRequests = 4
    NoOne = NoOne
    Instagram = {i1}
    k1 = k1
    p1 = p1
    p2 = p2
    q1 = q1
    q2 = q2
    Nothing = Nothing
    s1 = s1
    s2 = s2
    Senders = {s1, s2}
    Limit = 1
    LastMonth = 2
    Max = 2
    t1 = t1
    t2 = t2
    Ticks = {t1, t2}
    Horizon = 15
    f1 = f1
    f2 = f2
    LastDay = 2
    MaxTotal = 2
    Runs = {f1, f2}
    MaxRuns = 2
    u1 = u1
    u2 = u2
    e1 = e1
    NReels = 2
    Editors = {e1}
    ListMax = 2
    MaxCampaigns = 2
    ig1 = ig1
    m1 = m1
    v1 = v1
    l1 = l1
    l2 = l2
    Messages = {m1}
    Clicks = {v1}
    Lists = {l1, l2}
    Shown = 2
    MonthDays = 2
    NoMessage = Nothing
    b1 = b1
    b2 = b2
    NRows = 2
    MaxImports = 2
SPECIFICATION MCSpec
SYMMETRY Symmetry
INVARIANTS
    OwnerRemains
    AccountsAreBacked
    WebhookVerifies
    CountedWithinLimit
    OneTick
    HealthHolds
    
    
    RowsHandled
PROPERTIES
    AccessIsGranted
    
    HistoryHolds
    
CHECK_DEADLOCK FALSE
