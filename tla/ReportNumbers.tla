---------------------------- MODULE ReportNumbers ----------------------------
(***************************************************************************)
(* The rows and clicks that the dashboard and the reports count, the       *)
(* numbers of a page, and what is expected of them.  Reports has the steps *)
(* that change them.                                                       *)
(***************************************************************************)
EXTENDS Integers, FiniteSets

CONSTANTS
    Messages,    \* messages of the log that may come to be
    Clicks,      \* clicks that may come to be
    Lists,       \* requests for the list of campaigns
    Shown,       \* days of a chart (7 in the code)
    MonthDays,   \* days of a month
    NoMessage

ASSUME ReportAssumption ==
    /\ IsFiniteSet(Messages) /\ IsFiniteSet(Clicks)
    /\ Shown \in Nat \ {0} /\ MonthDays \in Nat \ {0}

VARIABLES
    log,         \* the rows, or NoMessage
    clicked,     \* the half day of each click, 0 before it
    slug,        \* reportShareSlug, 0 for none
    list,        \* the requests for the list
    crossed,     \* history: two lists made a slug, each for a campaign without
    page         \* the report or dashboard being put together

Day(h) == h \div 2
Midnight(d) == 2 * d
MonthStart(d) == d - (d % MonthDays)

\* The days of a chart that ends today, and a day too many for the week.
ChartDays(today) == {d \in 0 .. today : d + Shown > today}
WeekStart(today) == IF today < Shown THEN 0 ELSE today - Shown

Sent == {r \in Messages : log[r] # NoMessage /\ log[r].status = "SENT"}
Since(rows, h) == {r \in rows : log[r].at >= h}
ClicksMade == {c \in Clicks : clicked[c] # 0}

-----------------------------------------------------------------------------
\* What is expected of the pages.

\* The bars of a chart added up, day by day.
Bar(what, d) == IF <<what, d>> \in DOMAIN page.bars THEN page.bars[<<what, d>>] ELSE 0
Total(what) ==
    LET upTo[n \in 0 .. page.today + 1] == IF n = 0 THEN 0 ELSE upTo[n - 1] + Bar(what, n - 1)
    IN  upTo[page.today + 1]

RowsOfChart(rows) == {r \in rows : Day(log[r].at) \in ChartDays(page.today)}
ClicksOfChart(clicks) == {c \in clicks : Day(clicked[c]) \in ChartDays(page.today)}

\* A number that was true at some moment between the opening of the page and now.
Told(n, before, after) == Cardinality(before) <= n /\ n <= Cardinality(after)

ToldSince(n, h) == Told(n, Since(page.before, h), Since(Sent, h))

\* Every number of a page, the sums of its charts included, was true at some moment
\* while the page was put together: whatever was sent, clicked or settled in between
\* and though midnight passed, nothing is counted twice or falls between two days.
\* And the address of a report that a list has answered leads to the report, unless
\* two lists gave the campaign its first slug, both having read it without.
PagesAreTrue ==
    /\ page.pc = "answered" =>
        /\ Told(page.got["sent"], page.before, Sent)
        /\ Told(page.got["clicks"], page.clicksBefore, ClicksMade)
        /\ page.kind = "dashboard" =>
            /\ ToldSince(page.got["today"], Midnight(page.today))
            /\ ToldSince(page.got["week"], Midnight(WeekStart(page.today)))
            /\ ToldSince(page.got["month"], Midnight(MonthStart(page.today)))
        /\ page.kind # "list" =>
            Told(Total("sent"), RowsOfChart(page.before), RowsOfChart(Sent))
        /\ page.kind = "report" =>
            Told(Total("clicks"), ClicksOfChart(page.clicksBefore), ClicksOfChart(ClicksMade))
    /\ ~crossed => \A l \in Lists : list[l].pc = "answered" => list[l].slug = slug
=============================================================================
