CONSTANTS
    p1 = p1
    u1 = u1
    u2 = u2
    e1 = e1
    NReels = 2
    Posts = {p1}
    Urls = {u1, u2}
    Editors = {e1}
    ListMax = 2
    MaxCampaigns = 1
    MaxRequests = 2
SPECIFICATION Spec
INVARIANT LinksAsSaved
CHECK_DEADLOCK FALSE
