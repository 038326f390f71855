------------------------------- MODULE Reports -------------------------------
(***************************************************************************)
(* What the dashboard and the shared reports say of a campaign             *)
(* (app/api/dashboard/stats/route.ts, lib/reports/data.ts, the GET of      *)
(* app/api/automations/route.ts), and the clicks they count                *)
(* (app/r/[slug]/route.ts).                                                *)
(*                                                                         *)
(* A page is put together from many queries outside a transaction, while   *)
(* the worker writes rows and visitors click, and days pass.  The first    *)
(* queries of a page are asked together and answered in any order; those   *)
(* of its chart follow, of the report together, of the dashboard in turn.  *)
(*                                                                         *)
(* Time goes by half days, of which the even begins at midnight.  A row    *)
(* stands for its status and the moment it was created.  Names, keywords,  *)
(* the ten latest rows and the counts of campaigns are left out, and so    *)
(* are other campaigns and the deletion of this one.                       *)
(***************************************************************************)
EXTENDS ReportNumbers

CONSTANT
    LastHour     \* bound: the last half day; the first is that before a midnight

VARIABLES
    hour,        \* the half day it is
    slugs        \* slugs made so far

vars == <<hour, log, clicked, slug, slugs, list, crossed, page>>

-----------------------------------------------------------------------------
\* What a query counts.

\* A bug: the day after begins in the day's window.
DayWindowClosed(d) == Midnight(d) .. Midnight(d + 1)

\* From its midnight up to the next.
DayWindow(d) == Midnight(d) .. (Midnight(d + 1) - 1)

\* The queries of a page that are asked together.
OfList == {"sent", "clicks"}
OfReport == {"sent", "clicks"}
OfDashboard == {"today", "week", "month", "sent", "clicks"}

First(kind) ==
    CASE kind = "list" -> OfList [] kind = "report" -> OfReport [] kind = "dashboard" -> OfDashboard

NoPage == [pc |-> "none", kind |-> "none", today |-> 0, before |-> {}, clicksBefore |-> {},
           got |-> <<>>, bars |-> <<>>]

Init ==
    /\ hour = 2 * Shown + 1
    /\ log \in [Messages -> {NoMessage} \union [at : 0 .. hour, status : {"SENT"}]]
    /\ clicked = [c \in Clicks |-> 0]
    /\ slug \in {0, 1} /\ slugs = 1
    /\ list = [l \in Lists |-> [pc |-> "none", slug |-> 0]]
    /\ crossed = FALSE
    /\ page = NoPage

-----------------------------------------------------------------------------
\* The world.

Pass ==
    /\ hour < LastHour /\ hour' = hour + 1
    /\ UNCHANGED <<log, clicked, slug, slugs, list, crossed, page>>

\* The worker creates a row, and settles it; SENT stays, and FAILED is FAILED or SKIPPED.
Record(r) ==
    /\ log[r] = NoMessage
    /\ log' = [log EXCEPT ![r] = [at |-> hour, status |-> "PENDING"]]
    /\ UNCHANGED <<hour, clicked, slug, slugs, list, crossed, page>>

Settle(r) ==
    /\ log[r] # NoMessage /\ log[r].status # "SENT"
    /\ \E s \in {"SENT", "FAILED"} : log' = [log EXCEPT ![r].status = s]
    /\ UNCHANGED <<hour, clicked, slug, slugs, list, crossed, page>>

\* A visitor follows a tracked link.
Click(c) ==
    /\ clicked[c] = 0
    /\ clicked' = [clicked EXCEPT ![c] = hour]
    /\ UNCHANGED <<hour, log, slug, slugs, list, crossed, page>>

-----------------------------------------------------------------------------
\* The list of campaigns gives each its slug.

ReadList(l) ==
    /\ list[l].pc = "none"
    /\ list' = [list EXCEPT ![l] = [pc |-> IF slug = 0 THEN "assign" ELSE "answered",
                                    slug |-> slug]]
    /\ UNCHANGED <<hour, log, clicked, slug, slugs, crossed, page>>

\* One that was read without gets one, even if it has one by now.
AssignSlug(l) ==
    /\ list[l].pc = "assign"
    /\ slugs' = slugs + 1 /\ slug' = slugs'
    /\ list' = [list EXCEPT ![l] = [pc |-> "answered", slug |-> slugs']]
    /\ crossed' = (crossed \/ slug # 0)
    /\ UNCHANGED <<hour, log, clicked, page>>

-----------------------------------------------------------------------------
\* A page.

\* A report is opened by its slug, one of those a list has answered; the dashboard
\* takes its days from the clock now.
Open(kind) ==
    /\ page = NoPage
    /\ kind = "report" => \E l \in Lists : list[l].pc = "answered" /\ list[l].slug = slug
    /\ kind = "list" => \A l \in Lists : list[l].pc # "assign"
    /\ page' = [NoPage EXCEPT !.pc = "first", !.kind = kind, !.today = Day(hour),
                              !.before = Sent, !.clicksBefore = ClicksMade]
    /\ UNCHANGED <<hour, log, clicked, slug, slugs, list, crossed>>

Count(q) ==
    CASE q = "sent" -> Cardinality(Sent)
      [] q = "clicks" -> Cardinality(ClicksMade)
      [] q = "today" -> Cardinality(Since(Sent, Midnight(page.today)))
      [] q = "week" -> Cardinality(Since(Sent, Midnight(WeekStart(page.today))))
      [] q = "month" -> Cardinality(Since(Sent, Midnight(MonthStart(page.today))))

Answered(f, q, n) == [x \in DOMAIN f \union {q} |-> IF x = q THEN n ELSE f[x]]

Ask(q) ==
    /\ page.pc = "first" /\ q \in First(page.kind) \ DOMAIN page.got
    /\ page' = [page EXCEPT !.got = Answered(@, q, Count(q))]
    /\ UNCHANGED <<hour, log, clicked, slug, slugs, list, crossed>>

\* The report's days are taken from the clock when its chart is begun.
BeginChart ==
    /\ page.pc = "first" /\ DOMAIN page.got = First(page.kind)
    /\ page' = [page EXCEPT !.pc = "chart",
                            !.today = IF page.kind = "report" THEN Day(hour) ELSE @]
    /\ UNCHANGED <<hour, log, clicked, slug, slugs, list, crossed>>

\* The messages of the days, and in the report the clicks, each asked for apart.
Bars ==
    CASE page.kind = "list" -> {}
      [] page.kind = "report" -> {"sent", "clicks"} \X ChartDays(page.today)
      [] page.kind = "dashboard" -> {"sent"} \X ChartDays(page.today)

Missing == Bars \ DOMAIN page.bars

SentOn(d) == Cardinality({r \in Sent : log[r].at \in DayWindow(d)})
ClicksOn(d) == Cardinality({c \in ClicksMade : clicked[c] \in DayWindow(d)})

\* The dashboard asks for its days in turn.
AskDay(bar) ==
    /\ page.pc = "chart" /\ bar \in Missing
    /\ page.kind = "dashboard" => \A b \in Missing : bar[2] <= b[2]
    /\ page' = [page EXCEPT !.bars = Answered(@, bar,
                    IF bar[1] = "sent" THEN SentOn(bar[2]) ELSE ClicksOn(bar[2]))]
    /\ UNCHANGED <<hour, log, clicked, slug, slugs, list, crossed>>

Respond ==
    /\ page.pc = "chart" /\ Missing = {}
    /\ page' = [page EXCEPT !.pc = "answered"]
    /\ UNCHANGED <<hour, log, clicked, slug, slugs, list, crossed>>

Next ==
    \/ Pass
    \/ \E r \in Messages : Record(r) \/ Settle(r)
    \/ \E c \in Clicks : Click(c)
    \/ \E l \in Lists : ReadList(l) \/ AssignSlug(l)
    \/ \E kind \in {"list", "report", "dashboard"} : Open(kind)
    \/ \E q \in OfDashboard : Ask(q)
    \/ \E bar \in {"sent", "clicks"} \X (0 .. Day(LastHour)) : AskDay(bar)
    \/ BeginChart \/ Respond

Spec == Init /\ [][Next]_vars
=============================================================================
