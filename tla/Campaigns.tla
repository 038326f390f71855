------------------------------ MODULE Campaigns ------------------------------
(***************************************************************************)
(* The rows of Automation and who writes them: the routes under            *)
(* app/api/automations, called by the campaign builder and the campaign    *)
(* pages, and the check that binds a campaign waiting for "the next reel"  *)
(* to a reel (lib/automation/attach-next-reel.ts).                         *)
(*                                                                         *)
(* One Instagram account is modelled.  Its reels are numbered in the order *)
(* they are published, and the number of the last one is the only clock: a *)
(* campaign created at n waits for reel n + 1.  Texts, keywords and the    *)
(* settings of the steps of a campaign are left out.                       *)
(***************************************************************************)
EXTENDS CampaignRows, FiniteSets

CONSTANTS
    Posts,        \* posts a user may pick
    Urls,         \* destinations of tracked links
    MaxRequests   \* bound: requests a behaviour has, those that delete apart

VARIABLES
    links,    \* links created so far
    check,    \* the position of attachPendingNextReels
    count     \* requests so far

vars == <<reels, row, links, edit, check, count, overlap>>

NoPost == 0
NoRow == [st |-> "none"]
Gone == [st |-> "gone"]
Never == -1

\* What the builder lets a user choose: the scope of the trigger, the post with
\* "specific", and the two destinations ("" for none).
Triggers ==
    {[any |-> FALSE, next |-> FALSE, post |-> p] : p \in Posts} \union
    {[any |-> TRUE, next |-> FALSE, post |-> NoPost],
     [any |-> FALSE, next |-> TRUE, post |-> NoPost]}

Targets == [first : Urls \union {""}, second : Urls \union {""}]

NoEdit == [pc |-> "idle"]
NoCheck == [pc |-> "idle", pending |-> <<>>, seen |-> {}]

Init ==
    /\ reels = 0
    /\ row = [i \in Ids |-> NoRow]
    /\ links = 0
    /\ edit = [e \in Editors |-> NoEdit]
    /\ check = NoCheck
    /\ count = 0
    /\ overlap = [i \in Ids |-> FALSE]

-----------------------------------------------------------------------------
\* Instagram.

Publish ==
    /\ reels < NReels
    /\ reels' = reels + 1
    /\ UNCHANGED <<row, links, edit, check, count, overlap>>

-----------------------------------------------------------------------------
\* Campaigns are made.

Fresh(i) == row[i] = NoRow /\ \A j \in Ids : j < i => row[j] # NoRow

\* POST: the destinations that are given become links, the first one first.
NewLinks(t) ==
    [k \in 1 .. Len(Given(t)) |-> [id |-> links + k, url |-> Given(t)[k]]]

\* createdAt and activatedAt are times of now; on is history, the moment the
\* campaign was last switched on.  The links are in the order of their createdAt.
NewRow(trigger, active, ls) ==
    [st |-> "live", any |-> trigger.any, next |-> trigger.next, post |-> trigger.post,
     active |-> active, activated |-> IF active THEN reels ELSE Never, since |-> reels,
     on |-> IF active THEN reels ELSE Never, links |-> ls]

Create(i) ==
    /\ Fresh(i) /\ count < MaxRequests
    /\ count' = count + 1
    /\ \E trigger \in Triggers, t \in Targets, active \in BOOLEAN :
          /\ row' = [row EXCEPT ![i] = NewRow(trigger, active, NewLinks(t))]
          /\ links' = links + Len(NewLinks(t))
    /\ UNCHANGED <<reels, edit, check, overlap>>

\* POST /import: a campaign for a post no campaign of the account has.
Import(i) ==
    /\ Fresh(i) /\ count < MaxRequests
    /\ count' = count + 1
    /\ \E p \in Posts, u \in Urls \union {""}, active \in BOOLEAN :
          /\ \A j \in Ids : Live(j) => row[j].post # p
          /\ row' = [row EXCEPT ![i] =
                        NewRow([any |-> FALSE, next |-> FALSE, post |-> p], active,
                               NewLinks([first |-> u, second |-> ""]))]
          /\ links' = links + Len(NewLinks([first |-> u, second |-> ""]))
    /\ UNCHANGED <<reels, edit, check, overlap>>

\* POST /duplicate: the row with its links anew, paused, created now.
Duplicate(i) ==
    /\ Fresh(i) /\ count < MaxRequests
    /\ count' = count + 1
    /\ \E j \in Ids :
          /\ Live(j)
          /\ row' = [row EXCEPT ![i] =
                        [row[j] EXCEPT !.active = FALSE, !.activated = Never, !.since = reels,
                             !.on = Never,
                             !.links = [k \in DOMAIN @ |-> [@[k] EXCEPT !.id = links + k]]]]
          /\ links' = links + Len(row[j].links)
          /\ overlap' = [overlap EXCEPT ![i] = overlap[j]]
    /\ UNCHANGED <<reels, edit, check>>

-----------------------------------------------------------------------------
\* PATCH and DELETE.

SavingLinks == {"find1", "write1", "find2", "write2", "saved"}
Saving(i) == {e \in Editors : edit[e].pc \in {"update"} \union SavingLinks /\ edit[e].id = i}

\* The builder loads the campaign, and its user changes what he likes.
Open(e, i) ==
    /\ edit[e].pc = "idle" /\ Live(i) /\ count < MaxRequests
    /\ count' = count + 1
    /\ edit' = [edit EXCEPT ![e] =
                   [pc |-> "form", id |-> i,
                    trigger |-> [any |-> row[i].any, next |-> row[i].next, post |-> row[i].post]]]
    /\ UNCHANGED <<reels, row, links, check, overlap>>

\* A request on the campaign as it is read: a whole form, or a switch.
Request(e, i, form, active) ==
    /\ edit' = [edit EXCEPT ![e] =
                   [pc |-> "update", id |-> i, form |-> form, active |-> active,
                    was |-> row[i].active]]
    /\ overlap' = [overlap EXCEPT ![i] = @ \/ Saving(i) # {}]

\* handleSubmit sends the whole form and the route reads the campaign; or the
\* user leaves, or the campaign is gone.
Submit(e) ==
    LET i == edit[e].id IN
    /\ edit[e].pc = "form"
    /\ \/ /\ Live(i)
          /\ \E trigger \in Triggers \union {edit[e].trigger}, t \in Targets, active \in BOOLEAN :
                Request(e, i, [whole |-> TRUE, trigger |-> trigger, t |-> t], active)
       \/ edit' = [edit EXCEPT ![e] = NoEdit] /\ UNCHANGED overlap
    /\ UNCHANGED <<reels, row, links, check, count>>

\* The pages' switch: a PATCH of isActive alone, with the opposite of what the
\* page showed.
Switch(e, i) ==
    /\ edit[e].pc = "idle" /\ Live(i) /\ count < MaxRequests
    /\ count' = count + 1
    /\ \E active \in BOOLEAN : Request(e, i, [whole |-> FALSE], active)
    /\ UNCHANGED <<reels, row, links, check>>

\* A bug: only the creation of a campaign sets activatedAt.
ActivatedOnce(e, i) == row[i].activated

\* activatedAt is now when the save turns on a campaign it read as off.
Activated(e, i) ==
    IF edit[e].active /\ ~edit[e].was THEN reels ELSE row[i].activated

\* Any-post and next-reel campaigns carry no post.
Carried(trigger) == IF trigger.any \/ trigger.next THEN NoPost ELSE trigger.post

\* The row is written; a campaign deleted meanwhile makes the update throw.
Update(e) ==
    LET i == edit[e].id
        form == edit[e].form
        on == [row[i] EXCEPT !.active = edit[e].active, !.activated = Activated(e, i),
                             !.on = IF edit[e].active /\ ~row[i].active THEN reels ELSE @]
    IN
    /\ edit[e].pc = "update"
    /\ \/ /\ Live(i) /\ form.whole
          /\ row' = [row EXCEPT ![i] =
                        [on EXCEPT !.any = form.trigger.any, !.next = form.trigger.next,
                                   !.post = Carried(form.trigger)]]
          /\ edit' = [edit EXCEPT ![e] = [pc |-> "find1", id |-> i, t |-> form.t,
                                          found |-> 0, two |-> Len(row[i].links) > 1]]
       \/ /\ Live(i) /\ ~form.whole
          /\ row' = [row EXCEPT ![i] = on]
          /\ edit' = [edit EXCEPT ![e] = NoEdit]
       \/ ~Live(i) /\ edit' = [edit EXCEPT ![e] = NoEdit] /\ UNCHANGED row
    /\ UNCHANGED <<reels, links, check, count, overlap>>

\* A bug: the newest link is taken for the primary one.
PrimaryNewest(i) == IF row[i].links = <<>> THEN 0 ELSE row[i].links[Len(row[i].links)].id

\* The primary link is the oldest, the secondary the one after it.
Primary(i) == IF row[i].links = <<>> THEN 0 ELSE row[i].links[1].id
Secondary(i) == IF Len(row[i].links) < 2 THEN 0 ELSE row[i].links[2].id

FindPrimary(e) ==
    /\ edit[e].pc = "find1"
    /\ edit' = [edit EXCEPT ![e].pc = "write1",
                            ![e].found = IF Live(edit[e].id) THEN Primary(edit[e].id) ELSE 0]
    /\ UNCHANGED <<reels, row, links, check, count, overlap>>

FindSecondary(e) ==
    /\ edit[e].pc = "find2"
    /\ edit' = [edit EXCEPT ![e].pc = "write2",
                            ![e].found = IF Live(edit[e].id) THEN Secondary(edit[e].id) ELSE 0]
    /\ UNCHANGED <<reels, row, links, check, count, overlap>>

Without(s, k) == [n \in 1 .. Len(s) - 1 |-> IF n < k THEN s[n] ELSE s[n + 1]]

\* A link is deleted, changed or created; one that is gone makes the statement
\* throw and the request end.
WriteLink(e, url, next) ==
    LET i == edit[e].id
        has == Live(i) /\ \E k \in DOMAIN row[i].links : row[i].links[k].id = edit[e].found
        done == [edit EXCEPT ![e] = next]
    IN  \/ /\ url = "" /\ edit[e].found = 0
           /\ edit' = done /\ UNCHANGED <<row, links>>
        \/ /\ url = "" /\ edit[e].found # 0 /\ has
           /\ \E k \in DOMAIN row[i].links :
                 /\ row[i].links[k].id = edit[e].found
                 /\ row' = [row EXCEPT ![i].links = Without(@, k)]
           /\ edit' = done /\ UNCHANGED links
        \/ /\ url # "" /\ edit[e].found # 0 /\ has
           /\ row' = [row EXCEPT ![i].links =
                         [k \in DOMAIN @ |-> IF @[k].id = edit[e].found
                                             THEN [@[k] EXCEPT !.url = url] ELSE @[k]]]
           /\ edit' = done /\ UNCHANGED links
        \/ /\ url # "" /\ edit[e].found = 0 /\ Live(i)
           /\ row' = [row EXCEPT ![i].links = Append(@, [id |-> links + 1, url |-> url])]
           /\ links' = links + 1 /\ edit' = done
        \/ /\ (edit[e].found # 0 /\ ~has) \/ (url # "" /\ ~Live(i))
           /\ edit' = [edit EXCEPT ![e] = NoEdit] /\ UNCHANGED <<row, links>>

WritePrimary(e) ==
    /\ edit[e].pc = "write1"
    /\ WriteLink(e, edit[e].t.first, [edit[e] EXCEPT !.pc = "find2"])
    /\ UNCHANGED <<reels, check, count, overlap>>

WriteSecondary(e) ==
    /\ edit[e].pc = "write2"
    /\ WriteLink(e, edit[e].t.second, [edit[e] EXCEPT !.pc = "saved"])
    /\ UNCHANGED <<reels, check, count, overlap>>

Leave(e) ==
    /\ edit[e].pc = "saved"
    /\ edit' = [edit EXCEPT ![e] = NoEdit]
    /\ UNCHANGED <<reels, row, links, check, count, overlap>>

Delete(i) ==
    /\ Live(i)
    /\ row' = [row EXCEPT ![i] = Gone]
    /\ UNCHANGED <<reels, links, edit, check, count, overlap>>

-----------------------------------------------------------------------------
\* attachPendingNextReels.

Pending == {i \in Ids : Live(i) /\ row[i].next}

\* A bug: the reels are counted from the last change of the row.
BaselineNow(i) == reels

\* The reels count from the creation of the campaign.
Baseline(i) == row[i].since

\* The campaigns that wait.
ReadPending ==
    /\ check.pc = "idle" /\ Pending # {}
    /\ \E order \in [1 .. Cardinality(Pending) -> Pending] :
          /\ \A k, l \in DOMAIN order : k < l => order[k] < order[l]
          /\ check' = [NoCheck EXCEPT !.pc = "fetch",
                          !.pending = [k \in DOMAIN order |->
                                          [id |-> order[k], since |-> Baseline(order[k])]]]
    /\ UNCHANGED <<reels, row, links, edit, count, overlap>>

\* The newest media, of which the reels.
FetchReels ==
    /\ check.pc = "fetch"
    /\ check' = [check EXCEPT !.pc = "bind",
                              !.seen = {r \in Reels : r <= reels /\ r > reels - ListMax}]
    /\ UNCHANGED <<reels, row, links, edit, count, overlap>>

\* The fetch fails, or the process dies: the next interval checks again.
CheckFails ==
    /\ check.pc # "idle"
    /\ check' = NoCheck
    /\ UNCHANGED <<reels, row, links, edit, count, overlap>>

\* A bug: the newest reel after the creation is taken.
NextReelNewest(since) ==
    {r \in check.seen : r > since /\ \A q \in check.seen : q <= r}

\* The earliest reel of the list after the creation.
NextReel(since) ==
    {r \in check.seen : r > since /\ \A q \in check.seen : q > since => r <= q}

\* The update of the next campaign of the list; one that is gone makes it throw.
Bind(i) ==
    LET c == Head(check.pending)
        rest == IF Tail(check.pending) = <<>> THEN NoCheck
                ELSE [check EXCEPT !.pending = Tail(@)]
    IN  /\ check.pc = "bind" /\ c.id = i
        /\ \/ NextReel(c.since) = {} /\ check' = rest /\ UNCHANGED row
           \/ \E r \in NextReel(c.since) :
                 /\ Live(c.id)
                 /\ row' = [row EXCEPT ![c.id].post = r, ![c.id].next = FALSE]
                 /\ check' = rest
           \/ NextReel(c.since) # {} /\ ~Live(c.id) /\ check' = NoCheck /\ UNCHANGED row
        /\ UNCHANGED <<reels, links, edit, count, overlap>>

Check == ReadPending \/ FetchReels \/ CheckFails \/ \E i \in Ids : Bind(i)

Save(e) ==
    \/ Submit(e) \/ Update(e) \/ FindPrimary(e) \/ WritePrimary(e) \/ FindSecondary(e)
    \/ WriteSecondary(e) \/ Leave(e) \/ \E i \in Ids : Open(e, i) \/ Switch(e, i)

Next ==
    \/ Publish \/ Check
    \/ \E e \in Editors : Save(e)
    \/ \E i \in Ids : Create(i) \/ Import(i) \/ Duplicate(i) \/ Delete(i)

\* The check comes round with every poll; its fetch does not fail every time, and
\* the process does not die every time it comes to the same campaign.
Fairness ==
    /\ WF_vars(ReadPending) /\ SF_vars(FetchReels)
    /\ \A i \in Ids : SF_vars(Bind(i))

Spec == Init /\ [][Next]_vars /\ Fairness

-----------------------------------------------------------------------------
\* What is expected of the campaigns.

Scopes == [any : BOOLEAN, next : BOOLEAN, post : Posts \union Reels \union {NoPost}]
Links == [id : Nat \ {0}, url : Urls]

CampaignRecords ==
    [st : {"live"}, any : BOOLEAN, next : BOOLEAN, post : Posts \union Reels \union {NoPost},
     active : BOOLEAN, activated : {Never} \union Nat, since : Nat,
     on : {Never} \union Nat, links : Seq(Links)]

Forms == [whole : {TRUE}, trigger : Scopes, t : Targets] \union [whole : {FALSE}]

EditRecords ==
    {NoEdit} \union [pc : {"form"}, id : Ids, trigger : Scopes]
    \union [pc : {"update"}, id : Ids, form : Forms, active : BOOLEAN, was : BOOLEAN]
    \union [pc : SavingLinks, id : Ids, t : Targets, found : Nat, two : BOOLEAN]

TypeOK ==
    /\ reels \in 0 .. NReels /\ links \in Nat /\ count \in Nat
    /\ row \in [Ids -> {NoRow, Gone} \union CampaignRecords]
    /\ \A i \in Ids : Live(i) =>
          /\ row[i].since <= reels
          /\ \A k \in DOMAIN row[i].links : row[i].links[k].id <= links
    /\ edit \in [Editors -> EditRecords]
    /\ overlap \in [Ids -> BOOLEAN]
    /\ check \in [pc : {"idle", "fetch", "bind"}, pending : Seq([id : Ids, since : Nat]),
                  seen : SUBSET Reels]

\* A campaign whose reel has been published does not wait for ever, also when a
\* save from a form opened before the binding makes it wait again.
PendingIsBound ==
    \A i \in Ids : Waits(i) /\ row[i].since < reels ~> ~Waits(i)
=============================================================================
