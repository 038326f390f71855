----------------------------- MODULE CampaignRows -----------------------------
(***************************************************************************)
(* The rows of Automation, the requests that save them, and what is        *)
(* expected of both.  Campaigns has the routes, the pages and the check    *)
(* that write them.                                                        *)
(***************************************************************************)
EXTENDS Integers, Sequences

CONSTANTS
    NReels,         \* reels 1 .. NReels may be published
    Editors,        \* requests that may be under way at once
    ListMax,        \* the newest media that the check fetches, 25
    MaxCampaigns    \* bound: campaigns that may be created

ASSUME CampaignAssumption == NReels \in Nat /\ ListMax \in Nat /\ MaxCampaigns \in Nat

VARIABLES
    reels,    \* reels published so far
    row,      \* [Ids -> a row of Automation with its TrackedLinks, or NoRow]
    edit,     \* [Editors -> the request's position]
    overlap   \* history: [Ids -> whether two saves of the campaign overlapped]

Ids == 1 .. MaxCampaigns
Reels == 1 .. NReels

Live(i) == row[i].st = "live"

\* A campaign that waits gets the first reel after its creation, whatever was
\* published or saved while the check was under way, unless so many reels have
\* come since that the first is no longer among the newest media.  (A save from a
\* form opened on a bound campaign sets the reel of the form, whatever it waits for.)
Waits(i) == Live(i) /\ row[i].next
BoundToNext ==
    [][\A i \in Ids :
          Waits(i) /\ Live(i)' /\ row'[i].post \in Reels /\ row'[i].post # row[i].post
          /\ UNCHANGED edit
             => row'[i].post = row[i].since + 1 \/ reels - ListMax > row[i].since]_row

\* The activatedAt of an active campaign, from which comments are answered, is the
\* moment it was last switched on, provided no two saves of it overlapped.
ActivatedInTime ==
    \A i \in Ids : Live(i) /\ row[i].active /\ ~overlap[i] => row[i].activated = row[i].on

\* The destinations a form gives, the first one first.
Given(t) ==
    (IF t.first = "" THEN <<>> ELSE <<t.first>>) \o (IF t.second = "" THEN <<>> ELSE <<t.second>>)

UrlsOf(i) == [k \in DOMAIN row[i].links |-> row[i].links[k].url]

\* After a save the campaign's links are those of the form in their order, unless
\* two saves of it, or of one it is a copy of, overlapped, or the first of two links
\* was cleared.
LinksAsAsked ==
    \A e \in Editors :
        edit[e].pc = "saved" /\ Live(edit[e].id) /\ ~overlap[edit[e].id]
        /\ ~(edit[e].two /\ edit[e].t.first = "")
           => UrlsOf(edit[e].id) = Given(edit[e].t)

\* A save does what its form asked for, of the switch and of the links.
SavedAsAsked == ActivatedInTime /\ LinksAsAsked

\* What the comments on the PATCH route say of the links, for every save that
\* overlapped no other.
LinksAsSaved ==
    \A e \in Editors :
        edit[e].pc = "saved" /\ Live(edit[e].id) /\ ~overlap[edit[e].id]
           => UrlsOf(edit[e].id) = Given(edit[e].t)
=============================================================================
