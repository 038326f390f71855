------------------------------- MODULE MCPages -------------------------------
(***************************************************************************)
(* Seven models that share nothing, explored side by side: in a behaviour  *)
(* one of them moves and the others keep their initial states.             *)
(*                                                                         *)
(* The hourly counter of an account (DmRateLimiter, EXTENDed as            *)
(* PostInsights and ConversationList are), campaigns and their editors,    *)
(* the inbox page and the reading of its list, the post picker, the        *)
(* overview of the posts, and the matching of keywords.                    *)
(***************************************************************************)
EXTENDS DmRateLimiter, PostInsights, ConversationList, TLC

CONSTANTS
    s1, s2, s3,
    u1, e1, ig1,
    a1, a2, c1, c2, Nothing

VARIABLES
    part,
    reels, row, links, edit, check, count, overlap,
    selected, list, guard, listing, open, pane, loading, sending,
    order, after, pages, pageSize, limit,
    account, known, shown, posts, error, requests, post,
    cursor, working, available, denied,
    text, campaign, answer

Campaigns ==
    INSTANCE Campaigns WITH
        NReels <- 2, Posts <- {ig1}, Urls <- {u1}, Editors <- {e1}, ListMax <- 2,
        MaxCampaigns <- 1, MaxRequests <- 2
Inbox ==
    INSTANCE Inbox WITH
        Accounts <- {a1, a2}, Threads <- {c1, c2}, Home <- [c \in {c1, c2} |-> a1],
        None <- Nothing
Paging == INSTANCE ConversationPaging
Picker == INSTANCE PostPicker WITH Accounts <- {a1, a2}, None <- Nothing
Overview == INSTANCE Overview

\* Texts of three characters of those that meet in a word, and of two of any.
Strings(chars, n) == UNION {[1 .. k -> chars] : k \in 0 .. n}
InWords == {"e", "acute", "O", "0", "haraka", "ka", "i sign", " "}
Others == {"E", "e acute", "0 fa", "yeh", "zwnj", "emoji", "dot"}
Words ==
    Strings(InWords \union Others, 1)
    \union {<<"e", "acute">>, <<"0", "o">>, <<"ka", "i sign">>, <<"yeh fa", " ", "o">>}
Matcher ==
    INSTANCE KeywordMatcher WITH
        Texts <- Strings(InWords, 3) \union Strings(InWords \union Others, 2),
        Keywords <- {<<>>, <<<<"ka">>, <<"e">>>>} \union {<<k>> : k \in Words},
        asked <- campaign

OfCampaigns == <<reels, row, links, edit, check, count, overlap>>
OfInbox == <<selected, list, guard, listing, open, pane, loading, sending>>
OfPaging == <<order, broken, moved, results, after, pages, pageSize, limit, step>>
OfPicker == <<account, known, shown, posts, error, requests, post>>
OfOverview == <<phase, target, media, cursor, working, asked, insights, available, denied, overview>>
OfMatcher == <<text, campaign, answer>>

MCInit ==
    /\ part \in {"limiter", "campaigns", "inbox", "paging", "picker", "overview", "matcher"}
    /\ Init /\ Campaigns!Init /\ Inbox!Init /\ Paging!Init
    /\ Picker!Init /\ Overview!Init /\ Matcher!Init
    /\ part # "inbox" => selected = a1
    /\ part # "paging" => broken = {}
    /\ part # "picker" => account = Nothing
    /\ part # "overview" => target = 1

MCNext ==
    \/ /\ part = "limiter" /\ Next
       /\ UNCHANGED <<part, OfCampaigns, OfInbox, OfPaging, OfPicker, OfOverview, OfMatcher>>
    \/ /\ part = "campaigns" /\ Campaigns!Next
       /\ UNCHANGED <<part, vars, OfInbox, OfPaging, OfPicker, OfOverview, OfMatcher>>
    \/ /\ part = "inbox" /\ Inbox!Next
       /\ UNCHANGED <<part, vars, OfCampaigns, OfPaging, OfPicker, OfOverview, OfMatcher>>
    \/ /\ part = "paging" /\ Paging!Next
       /\ UNCHANGED <<part, vars, OfCampaigns, OfInbox, OfPicker, OfOverview, OfMatcher>>
    \/ /\ part = "picker" /\ Picker!Next
       /\ UNCHANGED <<part, vars, OfCampaigns, OfInbox, OfPaging, OfOverview, OfMatcher>>
    \/ /\ part = "overview" /\ Overview!Next
       /\ UNCHANGED <<part, vars, OfCampaigns, OfInbox, OfPaging, OfPicker, OfMatcher>>
    \/ /\ part = "matcher" /\ Matcher!Next
       /\ UNCHANGED <<part, vars, OfCampaigns, OfInbox, OfPaging, OfPicker, OfOverview>>

MCVars == <<part, vars, OfCampaigns, OfInbox, OfPaging, OfPicker, OfOverview, OfMatcher>>

\* Each model is fair in the behaviours in which it moves.
MCSpec ==
    /\ MCInit /\ [][MCNext]_MCVars
    /\ \/ part = "limiter" /\ Fairness
       \/ part = "campaigns" /\ Campaigns!Fairness
       \/ part = "inbox" /\ Inbox!Fairness
       \/ part = "picker" /\ Picker!Fairness
       \/ part \in {"paging", "overview", "matcher"}

\* The properties, by the names they have in their modules.
PendingIsBound == part = "campaigns" => Campaigns!PendingIsBound
InboxSettles == part = "inbox" => Inbox!InboxSettles
PickerSettles == part = "picker" => Picker!PickerSettles
MatchesAsMeant == Matcher!MatchesAsMeant
=============================================================================
