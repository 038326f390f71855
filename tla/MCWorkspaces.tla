----------------------------- MODULE MCWorkspaces -----------------------------
(***************************************************************************)
(* Eight models that share nothing, explored side by side: in a behaviour  *)
(* one of them moves and the others keep their initial states.  What is    *)
(* found is what eight explorations would find.                            *)
(*                                                                         *)
(* The people of a workspace (WorkspaceAccess, EXTENDed, and so are        *)
(* ConnectedAccounts, UsageCounter, TickSchedule, FollowerRows,            *)
(* CampaignRows, ReportNumbers and ImportTable), its connections, its      *)
(* monthly counter, the poll tick, the follower history, its campaigns,    *)
(* their reports and their import.                                         *)
(***************************************************************************)
EXTENDS WorkspaceAccess, ConnectedAccounts, UsageCounter, TickSchedule, FollowerRows,
        CampaignRows, ReportNumbers, ImportTable, TLC

CONSTANTS
    ann, ben, w1, w2, r1, r2,
    k1, p1, p2, q1, q2, Nothing,
    s1, s2,
    t1, t2,
    f1, f2,
    u1, u2, ig1,
    m1, v1, l1, l2,
    b1, b2

VARIABLES
    part,
    lock, cNextId, cMade, cReq,
    month, period, pc, start, found, charged,
    tLock,
    provider, today, total, ends, runs,
    links, check, asked,
    hour, slugs,
    tab

Connections ==
    INSTANCE AccountConnections WITH
        Keys <- {k1}, Profiles <- {p1, p2}, Requests <- {q1, q2},
        MaxIds <- 6, MaxRequests <- 5, None <- Nothing,
        nextId <- cNextId, made <- cMade, req <- cReq
Usage == INSTANCE WorkspaceUsage
Tick == INSTANCE PollTick WITH MaxExtra <- 1, lock <- tLock
Followers == INSTANCE FollowerHistory
Campaigns ==
    INSTANCE Campaigns WITH
        Posts <- {ig1}, Urls <- {u1, u2}, MaxRequests <- 2, count <- asked
Reports == INSTANCE Reports WITH LastHour <- 6
Importing == INSTANCE ImportQueue WITH Tabs <- {b1, b2}

MCInit ==
    /\ part \in {"access", "connections", "usage", "tick", "followers", "campaigns",
                 "reports", "imports"}
    /\ Init /\ Connections!Init /\ Usage!Init /\ Tick!Init /\ Followers!Init
    /\ Campaigns!Init /\ Reports!Init /\ Importing!Init
    /\ part # "tick" => mode = "cron"
    /\ part # "followers" => provider = "META" /\ total = 0 /\ ends = [d \in {0} |-> 0]
    /\ part # "reports" => log = [m \in {m1} |-> Nothing] /\ slug = 0

OfConnections == <<account, connection, remote, lock, cNextId, cMade, cReq, collided>>
OfUsage == <<month, period, count, pc, start, found, charged, owed>>
OfTick == <<mode, now, due, tLock, tick, beat, worker, extra, missed, raced>>
OfFollowers == <<provider, today, total, ends, snap, run, runs>>
OfCampaigns == <<reels, row, links, edit, check, asked, overlap>>
OfReports == <<hour, log, clicked, slug, slugs, list, crossed, page>>
OfImports == <<staged, stored, tab, imported, skipped, mixed>>

MCNext ==
    \/ /\ part = "access" /\ Next
       /\ UNCHANGED <<part, OfConnections, OfUsage, OfTick, OfFollowers, OfCampaigns, OfReports, OfImports>>
    \/ /\ part = "connections" /\ Connections!Next
       /\ UNCHANGED <<part, vars, OfUsage, OfTick, OfFollowers, OfCampaigns, OfReports, OfImports>>
    \/ /\ part = "usage" /\ Usage!Next
       /\ UNCHANGED <<part, vars, OfConnections, OfTick, OfFollowers, OfCampaigns, OfReports, OfImports>>
    \/ /\ part = "tick" /\ Tick!Next
       /\ UNCHANGED <<part, vars, OfConnections, OfUsage, OfFollowers, OfCampaigns, OfReports, OfImports>>
    \/ /\ part = "followers" /\ Followers!Next
       /\ UNCHANGED <<part, vars, OfConnections, OfUsage, OfTick, OfCampaigns, OfReports, OfImports>>
    \/ /\ part = "campaigns" /\ Campaigns!Next
       /\ UNCHANGED <<part, vars, OfConnections, OfUsage, OfTick, OfFollowers, OfReports, OfImports>>
    \/ /\ part = "reports" /\ Reports!Next
       /\ UNCHANGED <<part, vars, OfConnections, OfUsage, OfTick, OfFollowers, OfCampaigns, OfImports>>
    \/ /\ part = "imports" /\ Importing!Next
       /\ UNCHANGED <<part, vars, OfConnections, OfUsage, OfTick, OfFollowers, OfCampaigns, OfReports>>

MCVars ==
    <<part, vars, OfConnections, OfUsage, OfTick, OfFollowers, OfCampaigns, OfReports, OfImports>>

MCSpec == MCInit /\ [][MCNext]_MCVars

\* The two requests, ticks, runs, lists or tabs of a model can be told apart by their
\* history only, and every property is a safety property.  As one model moves, to exchange
\* all pairs together is to exchange its own.
Other ==
    r1 :> r2 @@ r2 :> r1 @@ q1 :> q2 @@ q2 :> q1 @@ s1 :> s2 @@ s2 :> s1
    @@ t1 :> t2 @@ t2 :> t1 @@ f1 :> f2 @@ f2 :> f1 @@ u1 :> u2 @@ u2 :> u1
    @@ l1 :> l2 @@ l2 :> l1 @@ b1 :> b2 @@ b2 :> b1
Symmetry == {[v \in DOMAIN Other |-> IF exchanged THEN Other[v] ELSE v] : exchanged \in BOOLEAN}
=============================================================================
