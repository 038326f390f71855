---------------------------- MODULE CampaignsProofs ----------------------------
(***************************************************************************)
(* Machine-checked proofs about campaigns, their posts, import and         *)
(* reports.                                                                *)
(*                                                                         *)
(* Campaigns, for any number of campaigns, reels, editors, posts and       *)
(* destinations: a save does what its form asked for, and a campaign that  *)
(* waits gets the first reel after its creation.  As long as no two saves  *)
(* of a campaign overlapped, a save under way is the only one of it, and   *)
(* what it has read of the row still is so (SavesInOrder, Known), over     *)
(* rows whose links are told apart by their ids (RowsInOrder); and the     *)
(* check's list of reels misses none but newer and too old ones            *)
(* (ChecksInOrder).                                                        *)
(*                                                                         *)
(* ImportQueue, for any number of tabs, rows and imports: no row is lost.  *)
(* What is left of an import is held in the storage and in tabs, and only  *)
(* copied from one to the other.  Behind each of them everything is        *)
(* handled (Behind); and as long as two of them are of different imports,  *)
(* all imports so far are excepted (Alone).  So when a tab writes its rest *)
(* over what is stored, both are of one import, and what the write takes   *)
(* away had been handled.                                                  *)
(*                                                                         *)
(* Reports, for any number of messages, clicks, lists and days of a chart: *)
(* every number a page tells was true at some moment while the page was    *)
(* put together. What a page was told stays true as more is sent and       *)
(* clicked (WorldStep), so each number is held against what was there when *)
(* the page was opened and what is there now (NumbersTold, BarsTold); and  *)
(* the days of a chart, which neither overlap nor leave a gap, add up      *)
(* (SumTold).                                                              *)
(*                                                                         *)
(* PostPicker, for any accounts: the grid of the account the user stays    *)
(* with is not overwritten by what was asked for earlier (OneLive).        *)
(***************************************************************************)
EXTENDS Campaigns, ImportTable, ReportNumbers, FiniteSetTheorems, SequenceTheorems,
        WellFoundedInduction, NaturalsInduction, TLAPS

CONSTANTS
    Tabs,       \* tabs of the user's browser
    LastHour,   \* bound: the last half day of the reports
    Accounts,   \* the connected accounts
    None        \* no account yet, no posts

VARIABLES
    tab,        \* the page of each tab, its queue, and the save under way
    hour,       \* the half day it is
    slugs,      \* slugs made so far
    account, known, shown, posts, error, requests, post   \* of the picker

Queue == INSTANCE ImportQueue

Pages == INSTANCE Reports

Picker == INSTANCE PostPicker

-----------------------------------------------------------------------------
(* Campaigns.                                                              *)

FirstId(ls) == IF ls = <<>> THEN 0 ELSE ls[1].id
SecondId(ls) == IF Len(ls) < 2 THEN 0 ELSE ls[2].id

(* What a save under way knows of the links of its campaign.               *)
Known(k, ls) ==
  /\ k.pc \in {"find1", "write1"} => k.two = (Len(ls) > 1)
  /\ k.pc = "write1" => k.found = FirstId(ls)
  /\ k.pc = "write2" => k.found = SecondId(ls)
  /\ k.pc \in {"find2", "write2"} /\ ~(k.two /\ k.t.first = "") =>
       IF k.t.first = "" THEN ls = <<>> ELSE Len(ls) > 0 /\ ls[1].url = k.t.first
  /\ k.pc = "saved" /\ ~(k.two /\ k.t.first = "") =>
       [n \in DOMAIN ls |-> ls[n].url] = Given(k.t)

(* The links of a campaign are told apart by their ids, in their order.    *)
InOrder(ls) == \A n, m \in DOMAIN ls : n < m => ls[n].id < ls[m].id

(* A row whose saves did not overlap has the switch and at most two links. *)
RowsInOrder ==
  \A i \in Ids : Live(i) =>
    /\ InOrder(row[i].links)
    /\ ~overlap[i] => Len(row[i].links) <= 2 /\ (row[i].active => row[i].activated = row[i].on)

(* A save that overlaps no other is the only one of its campaign, and what *)
(* it read of the row is the row.                                          *)
SavesInOrder ==
  \A e \in Editors :
    /\ edit[e].pc # "idle" => row[edit[e].id] # NoRow
    /\ edit[e].pc \in {"update"} \union SavingLinks /\ ~overlap[edit[e].id] =>
         /\ \A f \in Saving(edit[e].id) : f = e
         /\ Live(edit[e].id) =>
              IF edit[e].pc = "update" THEN edit[e].was = row[edit[e].id].active
              ELSE Known(edit[e], row[edit[e].id].links)

(* The check knows when the campaigns it is at were created, and a reel it *)
(* has not seen is newer than those it has, or too old for it.             *)
ChecksInOrder ==
  /\ check.pc # "idle" => check.pending # <<>>
  /\ \A n \in DOMAIN check.pending :
       /\ row[check.pending[n].id] # NoRow
       /\ Live(check.pending[n].id) => check.pending[n].since = row[check.pending[n].id].since
  /\ check.pc = "bind" =>
       /\ \A r \in check.seen : r <= reels
       /\ \A r \in 1 .. reels :
            r \in check.seen \/ r <= reels - ListMax \/ \A q \in check.seen : q < r

CampInv == TypeOK /\ RowsInOrder /\ SavesInOrder /\ ChecksInOrder

(* A sequence of one, and of two, of a set.                                *)
LEMMA Singles ==
  ASSUME NEW S, NEW x \in S
  PROVE  /\ <<x>> \in Seq(S) /\ Len(<<x>>) = 1 /\ <<x>>[1] = x
         /\ <<>> \o <<x>> = <<x>> /\ <<x>> \o <<>> = <<x>>
OBVIOUS

LEMMA Pairs ==
  ASSUME NEW S, NEW x \in S, NEW y \in S
  PROVE  /\ <<x>> \o <<y>> \in Seq(S) /\ Len(<<x>> \o <<y>>) = 2
         /\ (<<x>> \o <<y>>)[1] = x /\ (<<x>> \o <<y>>)[2] = y
<1>1. PICK a, b : a = <<x>> /\ b = <<y>>
  OBVIOUS
<1>2. a \in Seq(S) /\ b \in Seq(S) /\ Len(a) = 1 /\ Len(b) = 1 /\ a[1] = x /\ b[1] = y
  BY <1>1, Singles
<1>3. /\ a \o b \in Seq(S) /\ Len(a \o b) = 2
      /\ (a \o b)[1] = a[1] /\ (a \o b)[2] = b[1]
  BY <1>2, ConcatProperties
<1> QED
  BY <1>1, <1>2, <1>3

(* The destinations of a form, one by one.                                 *)
LEMMA GivenIs ==
  ASSUME NEW t \in Targets
  PROVE  /\ Given(t) \in Seq(Urls)
         /\ t.first = "" /\ t.second = "" => Given(t) = <<>>
         /\ t.first # "" /\ t.second = "" => Given(t) = <<t.first>>
         /\ t.first = "" /\ t.second # "" => Given(t) = <<t.second>>
         /\ t.first # "" /\ t.second # "" => Len(Given(t)) = 2 /\ Given(t)[1] = t.first
                                             /\ Given(t)[2] = t.second
         /\ Len(Given(t)) \in 0 .. 2
<1>1. t.first \in Urls \union {""} /\ t.second \in Urls \union {""}
  BY DEF Targets
<1>2. CASE t.first = "" /\ t.second = ""
  <2>1. Given(t) = <<>> \o <<>>
    BY <1>2 DEF Given
  <2>2. Given(t) = <<>>
    BY <2>1
  <2>3. Given(t) \in Seq(Urls) /\ Len(Given(t)) = 0
    BY <2>2
  <2>4. Len(Given(t)) \in 0 .. 2
    BY <2>3
  <2> QED
    BY <1>2, <2>2, <2>3, <2>4, Zenon
<1>3. ASSUME NEW x \in Urls, Given(t) = <<x>>
      PROVE  Given(t) \in Seq(Urls) /\ Len(Given(t)) = 1
  BY <1>3, Singles
<1>4. CASE t.first = "" /\ t.second # ""
  <2>1. t.second \in Urls
    BY <1>1, <1>4
  <2>2. Given(t) = <<>> \o <<t.second>>
    BY <1>4 DEF Given
  <2>3. Given(t) = <<t.second>>
    BY <2>1, <2>2, Singles
  <2>4. Given(t) \in Seq(Urls) /\ Len(Given(t)) = 1
    BY <1>3, <2>1, <2>3
  <2>5. Len(Given(t)) \in 0 .. 2
    BY <2>4
  <2> QED
    BY <1>4, <2>3, <2>4, <2>5, Zenon
<1>5. CASE t.first # "" /\ t.second = ""
  <2>1. t.first \in Urls
    BY <1>1, <1>5
  <2>2. Given(t) = <<t.first>> \o <<>>
    BY <1>5 DEF Given
  <2>3. Given(t) = <<t.first>>
    BY <2>1, <2>2, Singles
  <2>4. Given(t) \in Seq(Urls) /\ Len(Given(t)) = 1
    BY <1>3, <2>1, <2>3
  <2>5. Len(Given(t)) \in 0 .. 2
    BY <2>4
  <2> QED
    BY <1>5, <2>3, <2>4, <2>5, Zenon
<1>6. CASE t.first # "" /\ t.second # ""
  <2>1. t.first \in Urls /\ t.second \in Urls
    BY <1>1, <1>6
  <2>2. Given(t) = <<t.first>> \o <<t.second>>
    BY <1>6 DEF Given
  <2>3. /\ Given(t) \in Seq(Urls) /\ Len(Given(t)) = 2
        /\ Given(t)[1] = t.first /\ Given(t)[2] = t.second
    BY <2>1, <2>2, Pairs
  <2>4. Len(Given(t)) \in 0 .. 2
    BY <2>3
  <2> QED
    BY <1>6, <2>3, <2>4, Zenon
<1> QED
  BY <1>2, <1>4, <1>5, <1>6

(* What is in the row of a campaign, and in a request.                     *)
LEMMA RowIs ==
  ASSUME TypeOK, NEW i \in Ids
  PROVE  /\ Live(i) => /\ row[i] \in CampaignRecords /\ row[i] # NoRow
                       /\ row[i].links \in Seq(Links) /\ row[i].since \in Nat
         /\ ~Live(i) => row[i] \in {NoRow, Gone}
<1>1. row[i] \in {NoRow, Gone} \union CampaignRecords
  BY DEF TypeOK
<1>2. NoRow.st = "none" /\ Gone.st = "gone"
  BY DEF NoRow, Gone
<1>3. \A r \in CampaignRecords :
        r.st = "live" /\ r.links \in Seq(Links) /\ r.since \in Nat
  BY DEF CampaignRecords
<1> QED
  BY <1>1, <1>2, <1>3 DEF Live

LEMMA EditIs ==
  ASSUME TypeOK, NEW e \in Editors
  PROVE  /\ edit[e].pc \in {"idle", "form", "update"} \union SavingLinks
         /\ edit[e].pc # "idle" => edit[e].id \in Ids
         /\ edit[e].pc = "form" => edit[e].trigger \in Scopes
         /\ edit[e].pc = "update" =>
              /\ edit[e].form \in Forms
              /\ edit[e].active \in BOOLEAN /\ edit[e].was \in BOOLEAN
         /\ edit[e].pc \in SavingLinks =>
              /\ edit[e] \in [pc : SavingLinks, id : Ids, t : Targets, found : Nat,
                              two : BOOLEAN]
              /\ edit[e].t \in Targets /\ edit[e].found \in Nat
<1>1. edit[e] \in EditRecords
  BY DEF TypeOK
<1>2. CASE edit[e] = NoEdit
  BY <1>2 DEF NoEdit, SavingLinks
<1>3. CASE edit[e] \in [pc : {"form"}, id : Ids, trigger : Scopes]
  BY <1>3 DEF SavingLinks
<1>4. CASE edit[e] \in [pc : {"update"}, id : Ids, form : Forms, active : BOOLEAN,
                        was : BOOLEAN]
  BY <1>4 DEF SavingLinks
<1>5. CASE edit[e] \in [pc : SavingLinks, id : Ids, t : Targets, found : Nat,
                        two : BOOLEAN]
  BY <1>5 DEF SavingLinks
<1> QED
  BY <1>1, <1>2, <1>3, <1>4, <1>5 DEF EditRecords

LEMMA ElementIs ==
  ASSUME NEW S, NEW p \in Seq(S), NEW n \in DOMAIN p
  PROVE  p[n] \in S
OBVIOUS

LEMMA PlansAre ==
  ASSUME NEW p \in Seq([id : Ids, since : Nat]), NEW n \in DOMAIN p
  PROVE  p[n].id \in Ids /\ p[n].since \in Nat
<1>1. p[n] \in [id : Ids, since : Nat]
  BY ElementIs, Zenon
<1> QED
  BY <1>1

LEMMA PendingIs ==
  ASSUME TypeOK
  PROVE  /\ check.pc \in {"idle", "fetch", "bind"} /\ check.seen \subseteq Reels
         /\ check.pending \in Seq([id : Ids, since : Nat])
         /\ \A n \in DOMAIN check.pending :
              check.pending[n].id \in Ids /\ check.pending[n].since \in Nat
<1>1. /\ check.pc \in {"idle", "fetch", "bind"} /\ check.seen \subseteq Reels
      /\ check.pending \in Seq([id : Ids, since : Nat])
  BY DEF TypeOK
<1> QED
  BY <1>1, PlansAre

(* A function on the first numbers is a sequence.                          *)
LEMMA Listed ==
  ASSUME NEW S, NEW n \in Nat, NEW f \in [1 .. n -> S]
  PROVE  f \in Seq(S) /\ Len(f) = n /\ DOMAIN f = 1 .. n
<1>1. DOMAIN f = 1 .. n /\ \A i \in 1 .. n : f[i] \in S
  OBVIOUS
<1>2. f = [i \in 1 .. n |-> f[i]]
  OBVIOUS
<1>3. [i \in 1 .. n |-> f[i]] \in Seq(S)
  BY <1>1
<1>4. Len([i \in 1 .. n |-> f[i]]) = n
  BY <1>1
<1> QED
  BY <1>1, <1>2, <1>3, <1>4

(* Nothing has been created.                                               *)
LEMMA CampInit == Init => CampInv
<1> SUFFICES ASSUME Init PROVE CampInv
  OBVIOUS
<1> USE DEF Init
<1>1. \A i \in Ids : row[i].st = "none"
  BY DEF NoRow
<1>2. \A e \in Editors : edit[e].pc = "idle"
  BY DEF NoEdit
<1>3. /\ check.pc = "idle" /\ check.pending = <<>> /\ check.seen = {}
      /\ check \in [pc : {"idle", "fetch", "bind"}, pending : Seq([id : Ids, since : Nat]),
                    seen : SUBSET Reels]
  BY DEF NoCheck
<1>4. TypeOK
  BY <1>1, <1>3, CampaignAssumption DEF TypeOK, EditRecords, Live
<1>5. RowsInOrder /\ SavesInOrder
  BY <1>1, <1>2 DEF RowsInOrder, SavesInOrder, Live, SavingLinks
<1>6. ChecksInOrder
  BY <1>3 DEF ChecksInOrder
<1> QED
  BY <1>4, <1>5, <1>6 DEF CampInv

(* A campaign is made.                                                     *)
LEMMA MadeStep ==
  ASSUME CampInv, NEW i \in Ids, row[i] = NoRow, NEW r \in CampaignRecords,
         row' = [row EXCEPT ![i] = r], r.since <= reels, InOrder(r.links),
         links' \in Nat, links <= links', \A n \in DOMAIN r.links : r.links[n].id <= links',
         overlap' \in [Ids -> BOOLEAN], \A j \in Ids \ {i} : overlap'[j] = overlap[j],
         ~overlap'[i] => Len(r.links) <= 2 /\ (r.active => r.activated = r.on),
         count' \in Nat, UNCHANGED <<reels, edit, check>>
  PROVE  CampInv'
<1>1. /\ row'[i] = r /\ r.st = "live" /\ r # NoRow /\ ~Live(i)
      /\ \A j \in Ids \ {i} : row'[j] = row[j]
  BY DEF CampInv, TypeOK, NoRow, CampaignRecords, Live
<1>2. TypeOK'
  <2>1. row' \in [Ids -> {NoRow, Gone} \union CampaignRecords]
    BY DEF CampInv, TypeOK
  <2>2. \A j \in Ids : Live(j)' => row'[j].since <= reels /\
                         \A n \in DOMAIN row'[j].links : row'[j].links[n].id <= links'
    <3> SUFFICES ASSUME NEW j \in Ids, j # i, Live(j), NEW n \in DOMAIN row[j].links
                 PROVE  row[j].links[n].id <= links'
      BY <1>1 DEF Live, CampInv, TypeOK
    <3>1. row[j].links \in Seq(Links)
      BY RowIs DEF CampInv
    <3>2. row[j].links[n] \in Links
      BY <3>1
    <3>3. row[j].links[n].id \in Nat
      BY <3>2 DEF Links
    <3>4. row[j].links[n].id <= links /\ links \in Nat
      BY DEF CampInv, TypeOK
    <3> QED
      BY <3>3, <3>4
  <2> QED
    BY <2>1, <2>2 DEF CampInv, TypeOK
<1>3. RowsInOrder'
  BY <1>1 DEF CampInv, RowsInOrder, Live, InOrder
<1>4. SavesInOrder'
  <2> SUFFICES ASSUME NEW e \in Editors, edit[e].pc # "idle"
               PROVE  /\ edit[e].id \in Ids \ {i}
                      /\ edit[e].id \in Ids => Saving(edit[e].id)' = Saving(edit[e].id)
    BY <1>1 DEF CampInv, SavesInOrder, Live, SavingLinks
  <2> QED
    BY EditIs DEF CampInv, SavesInOrder, Saving
<1>5. ChecksInOrder'
  <2>1. \A n \in DOMAIN check.pending : check.pending[n].id \in Ids \ {i}
    BY PendingIs DEF CampInv, ChecksInOrder
  <2> QED
    BY <1>1, <2>1 DEF CampInv, ChecksInOrder, Live
<1> QED
  BY <1>2, <1>3, <1>4, <1>5 DEF CampInv

(* A request is at rest again, or its form is open.                        *)
LEMMA RestStep ==
  ASSUME CampInv, NEW e \in Editors, NEW k \in EditRecords, k.pc \in {"idle", "form"},
         k.pc = "form" => row[k.id] # NoRow,
         edit' = [edit EXCEPT ![e] = k], count' \in Nat,
         UNCHANGED <<reels, row, links, check, overlap>>
  PROVE  CampInv'
<1>1. edit'[e] = k /\ \A f \in Editors \ {e} : edit'[f] = edit[f]
  BY DEF CampInv, TypeOK
<1>2. TypeOK'
  BY DEF CampInv, TypeOK, Live
<1>3. RowsInOrder' /\ ChecksInOrder'
  BY DEF CampInv, RowsInOrder, ChecksInOrder, Live
<1>4. \A j : Saving(j)' \subseteq Saving(j)
  BY <1>1 DEF Saving, SavingLinks
<1>5. SavesInOrder'
  BY <1>1, <1>4 DEF CampInv, SavesInOrder, Live, SavingLinks
<1> QED
  BY <1>2, <1>3, <1>5 DEF CampInv

(* A request reads its campaign.                                           *)
LEMMA RequestStep ==
  ASSUME CampInv, NEW e \in Editors, edit[e].pc \in {"idle", "form"}, NEW i \in Ids, Live(i),
         NEW form \in Forms, NEW active \in BOOLEAN, Request(e, i, form, active),
         count' \in Nat, UNCHANGED <<reels, row, links, check>>
  PROVE  CampInv'
<1>1. row[i] \in CampaignRecords /\ row[i] # NoRow
  BY RowIs DEF CampInv
<1>2. row[i].active \in BOOLEAN
  BY <1>1 DEF CampaignRecords
<1> DEFINE k == [pc |-> "update", id |-> i, form |-> form, active |-> active,
                 was |-> row[i].active]
<1>3. k \in EditRecords
  BY <1>2 DEF EditRecords
<1>4. edit' = [edit EXCEPT ![e] = k]
  BY DEF Request
<1>5. edit'[e] = k /\ \A f \in Editors \ {e} : edit'[f] = edit[f]
  BY <1>4 DEF CampInv, TypeOK
<1>6. /\ \A j \in Ids \ {i} : overlap'[j] = overlap[j]
      /\ overlap'[i] = (overlap[i] \/ Saving(i) # {})
      /\ overlap' \in [Ids -> BOOLEAN]
  BY DEF Request, CampInv, TypeOK
<1>7. TypeOK'
  BY <1>3, <1>4, <1>6 DEF CampInv, TypeOK, Live
<1>8. RowsInOrder' /\ ChecksInOrder'
  BY <1>6 DEF CampInv, RowsInOrder, ChecksInOrder, Live
<1>9. SavesInOrder'
  <2> SUFFICES ASSUME NEW f \in Editors, NEW j, j = edit'[f].id
               PROVE  /\ edit'[f].pc # "idle" => row[j] # NoRow
                      /\ edit'[f].pc \in {"update"} \union SavingLinks /\ ~overlap'[j] =>
                           /\ \A g \in Saving(j)' : g = f
                           /\ Live(j) => IF edit'[f].pc = "update"
                                         THEN edit'[f].was = row[j].active
                                         ELSE Known(edit'[f], row[j].links)
    BY DEF SavesInOrder, Live
  <2>1. Saving(j)' \subseteq Saving(j) \union {e} /\ (j # i => e \notin Saving(j)')
    BY <1>5 DEF Saving, SavingLinks
  <2>2. CASE f = e
    <3>1. edit'[f].pc = "update" /\ j = i /\ edit'[f].was = row[i].active
      BY <1>5, <2>2
    <3>2. ~overlap'[i] => Saving(i) = {}
      BY <1>6
    <3> QED
      BY <1>1, <2>1, <2>2, <3>1, <3>2
  <2>3. CASE f # e
    <3>1. edit'[f] = edit[f] /\ j = edit[f].id
      BY <1>5, <2>3
    <3>2. edit[f].pc # "idle" => row[j] # NoRow
      BY <3>1 DEF CampInv, SavesInOrder
    <3>3. CASE edit[f].pc \in {"update"} \union SavingLinks /\ ~overlap'[j]
      <4>1. j \in Ids /\ f \in Saving(j)
        BY <3>1, <3>3, EditIs DEF CampInv, Saving, SavingLinks
      <4>2. j # i /\ ~overlap[j]
        BY <1>6, <3>3, <4>1
      <4>3. /\ \A g \in Saving(j) : g = f
            /\ Live(j) => IF edit[f].pc = "update" THEN edit[f].was = row[j].active
                          ELSE Known(edit[f], row[j].links)
        BY <3>1, <3>3, <4>2 DEF CampInv, SavesInOrder
      <4> QED
        BY <2>1, <3>1, <3>2, <4>2, <4>3
    <3> QED
      BY <3>1, <3>2, <3>3
  <2> QED
    BY <2>2, <2>3
<1> QED
  BY <1>7, <1>8, <1>9 DEF CampInv

(* A save takes a step on its campaign, of whose row r is left.            *)
LEMMA SaveStep ==
  ASSUME CampInv, NEW e \in Editors, edit[e].pc \in {"update"} \union SavingLinks, NEW i,
         i = edit[e].id, NEW r, NEW k \in EditRecords, edit' = [edit EXCEPT ![e] = k],
         k.pc \in {"idle"} \union SavingLinks, k.pc # "idle" => k.id = i,
         ~Live(i) => row' = row,
         Live(i) => /\ row' = [row EXCEPT ![i] = r] /\ r \in CampaignRecords
                    /\ r.since = row[i].since /\ InOrder(r.links)
                    /\ \A n \in DOMAIN r.links : r.links[n].id <= links'
                    /\ ~overlap[i] =>
                         /\ Len(r.links) <= 2 /\ (r.active => r.activated = r.on)
                         /\ k.pc \in SavingLinks => Known(k, r.links),
         links' \in Nat, links <= links', count' \in Nat, UNCHANGED <<reels, check, overlap>>
  PROVE  CampInv'
<1>1. i \in Ids /\ e \in Saving(i) /\ row[i] # NoRow
  BY EditIs DEF CampInv, Saving, SavesInOrder, SavingLinks
<1>2. edit'[e] = k /\ \A f \in Editors \ {e} : edit'[f] = edit[f]
  BY DEF CampInv, TypeOK
<1>3. \A j \in Ids \ {i} : row'[j] = row[j]
  BY <1>1 DEF CampInv, TypeOK
<1>4. (Live(i) => row'[i] = r /\ r.st = "live") /\ (Live(i)' <=> Live(i)) /\ row'[i] # NoRow
  BY <1>1 DEF CampInv, TypeOK, Live, CampaignRecords, NoRow
<1>5. \A j \in Ids : Live(j)' <=> Live(j)
  BY <1>3, <1>4 DEF Live
<1>6. TypeOK'
  <2>1. row' \in [Ids -> {NoRow, Gone} \union CampaignRecords]
    BY <1>1 DEF CampInv, TypeOK
  <2>2. \A j \in Ids : Live(j)' => row'[j].since <= reels /\
                         \A n \in DOMAIN row'[j].links : row'[j].links[n].id <= links'
    <3>1. CASE Live(i)
      <4> SUFFICES ASSUME NEW j \in Ids, j # i, Live(j), NEW n \in DOMAIN row[j].links
                   PROVE  row[j].links[n].id <= links'
        BY <1>1, <1>3, <1>4, <1>5, <3>1 DEF CampInv, TypeOK
      <4>1. row[j].links \in Seq(Links)
        BY RowIs DEF CampInv
      <4>2. row[j].links[n] \in Links
        BY <4>1
      <4>3. row[j].links[n].id \in Nat
        BY <4>2 DEF Links
      <4>4. row[j].links[n].id <= links /\ links \in Nat
        BY DEF CampInv, TypeOK
      <4> QED
        BY <4>3, <4>4
    <3>2. CASE ~Live(i)
      <4> SUFFICES ASSUME NEW j \in Ids, Live(j), NEW n \in DOMAIN row[j].links
                   PROVE  row[j].links[n].id <= links'
        BY <1>5, <3>2 DEF CampInv, TypeOK
      <4>1. row[j].links \in Seq(Links)
        BY RowIs DEF CampInv
      <4>2. row[j].links[n] \in Links
        BY <4>1
      <4>3. row[j].links[n].id \in Nat
        BY <4>2 DEF Links
      <4>4. row[j].links[n].id <= links /\ links \in Nat
        BY DEF CampInv, TypeOK
      <4> QED
        BY <4>3, <4>4
    <3> QED
      BY <3>1, <3>2
  <2> QED
    BY <2>1, <2>2 DEF CampInv, TypeOK
<1>7. RowsInOrder'
  BY <1>3, <1>4, <1>5 DEF CampInv, RowsInOrder
<1>8. SavesInOrder'
  <2> SUFFICES ASSUME NEW f \in Editors, NEW j, j = edit'[f].id
               PROVE  /\ edit'[f].pc # "idle" => row'[j] # NoRow
                      /\ edit'[f].pc \in {"update"} \union SavingLinks /\ ~overlap[j] =>
                           /\ \A g \in Saving(j)' : g = f
                           /\ Live(j)' => IF edit'[f].pc = "update"
                                          THEN edit'[f].was = row'[j].active
                                          ELSE Known(edit'[f], row'[j].links)
    BY DEF SavesInOrder
  <2>1. Saving(j)' \subseteq Saving(j)
    BY <1>1, <1>2 DEF Saving, SavingLinks
  <2>2. CASE f = e
    <3>1. edit'[f] = k
      BY <1>2, <2>2
    <3>2. CASE k.pc \in SavingLinks
      <4>1. j = i /\ k.pc # "update" /\ k.pc # "idle"
        BY <3>1, <3>2 DEF SavingLinks
      <4>2. ~overlap[i] => \A g \in Saving(i) : g = e
        BY DEF CampInv, SavesInOrder
      <4>3. Live(i) /\ ~overlap[i] => Known(k, row'[i].links)
        BY <1>4, <3>2
      <4> QED
        BY <1>4, <1>5, <1>1, <2>1, <2>2, <3>1, <4>1, <4>2, <4>3
    <3>3. CASE k.pc = "idle"
      BY <3>1, <3>3 DEF SavingLinks
    <3> QED
      BY <3>2, <3>3
  <2>3. CASE f # e
    <3>1. edit'[f] = edit[f] /\ j = edit[f].id
      BY <1>2, <2>3
    <3>2. edit[f].pc # "idle" => j \in Ids /\ row'[j] # NoRow
      <4>1. edit[f].pc # "idle" => j \in Ids /\ row[j] # NoRow
        BY <3>1, EditIs DEF CampInv, SavesInOrder
      <4> QED
        BY <1>3, <1>4, <4>1
    <3>3. CASE edit[f].pc \in {"update"} \union SavingLinks /\ ~overlap[j]
      <4>1. j \in Ids /\ f \in Saving(j)
        BY <3>1, <3>3, EditIs DEF CampInv, Saving, SavingLinks
      <4>2. /\ \A g \in Saving(j) : g = f
            /\ Live(j) => IF edit[f].pc = "update" THEN edit[f].was = row[j].active
                          ELSE Known(edit[f], row[j].links)
        BY <3>1, <3>3 DEF CampInv, SavesInOrder
      <4>3. j # i
        BY <1>1, <2>3, <4>2
      <4>4. row'[j] = row[j] /\ (Live(j)' <=> Live(j))
        BY <1>3, <1>5, <4>1, <4>3
      <4> QED
        BY <2>1, <3>1, <3>2, <4>2, <4>4
    <3> QED
      BY <3>1, <3>2, <3>3
  <2> QED
    BY <2>2, <2>3
<1>9. ChecksInOrder'
  BY <1>1, <1>3, <1>4, <1>5, PendingIs DEF CampInv, ChecksInOrder
<1> QED
  BY <1>6, <1>7, <1>8, <1>9 DEF CampInv

(* A reel is published, or a campaign deleted.                             *)
LEMMA PublishStep == ASSUME CampInv, Publish PROVE CampInv'
<1> USE DEF Publish
<1>1. reels \in Nat /\ NReels \in Nat /\ reels' \in 0 .. NReels /\ reels <= reels'
  BY CampaignAssumption DEF CampInv, TypeOK
<1>2. TypeOK'
  <2>1. \A i \in Ids : Live(i) => row[i].since \in Nat /\ row[i].since <= reels
    BY RowIs DEF CampInv, TypeOK
  <2>2. \A i \in Ids : Live(i) => row[i].since <= reels'
    BY <1>1, <2>1
  <2> QED
    BY <1>1, <2>2 DEF CampInv, TypeOK, Live
<1>3. RowsInOrder' /\ SavesInOrder'
  <2>1. \A j : Saving(j)' = Saving(j)
    BY DEF Saving
  <2> QED
    BY <2>1 DEF CampInv, RowsInOrder, SavesInOrder, Live
<1>4. ChecksInOrder'
  <2>1. check.seen \subseteq Reels /\ \A q \in Reels : q \in Nat
    BY PendingIs DEF CampInv, Reels
  <2>2. ASSUME check.pc = "bind"
        PROVE  /\ \A r \in check.seen : r <= reels'
               /\ \A r \in 1 .. reels' :
                    r \in check.seen \/ r <= reels' - ListMax \/ \A q \in check.seen : q < r
    <3>1. \A r \in check.seen : r \in Nat /\ r <= reels
      BY <2>1, <2>2 DEF CampInv, ChecksInOrder
    <3> SUFFICES ASSUME NEW r \in 1 .. reels'
                 PROVE  r \in check.seen \/ r <= reels' - ListMax \/ \A q \in check.seen : q < r
      BY <1>1, <3>1
    <3>2. CASE r = reels + 1
      BY <1>1, <3>1, <3>2
    <3>3. CASE r # reels + 1
      <4>1. r \in 1 .. reels
        BY <1>1, <3>3
      <4>2. r \in check.seen \/ r <= reels - ListMax \/ \A q \in check.seen : q < r
        BY <2>2, <4>1 DEF CampInv, ChecksInOrder
      <4> QED
        BY <1>1, <4>1, <4>2, CampaignAssumption
    <3> QED
      BY <3>2, <3>3
  <2> QED
    BY <2>2 DEF CampInv, ChecksInOrder, Live
<1> QED
  BY <1>2, <1>3, <1>4 DEF CampInv

LEMMA DeleteStep == ASSUME CampInv, NEW i \in Ids, Delete(i) PROVE CampInv'
<1> USE DEF Delete
<1>1. /\ row'[i] = Gone /\ Gone.st = "gone" /\ Gone # NoRow
      /\ \A j \in Ids \ {i} : row'[j] = row[j]
  BY DEF CampInv, TypeOK, NoRow, Gone
<1>2. \A j \in Ids : Live(j)' => j # i /\ row'[j] = row[j] /\ Live(j)
  BY <1>1 DEF Live
<1>3. \A j \in Ids : row[j] # NoRow => row'[j] # NoRow
  BY <1>1
<1>4. TypeOK'
  BY <1>2 DEF CampInv, TypeOK
<1>5. RowsInOrder'
  BY <1>2 DEF CampInv, RowsInOrder
<1>6. SavesInOrder'
  <2>1. \A j : Saving(j)' = Saving(j)
    BY DEF Saving
  <2>2. \A e \in Editors : edit[e].pc # "idle" => edit[e].id \in Ids
    BY EditIs DEF CampInv
  <2> QED
    BY <1>2, <1>3, <2>1, <2>2 DEF CampInv, SavesInOrder, SavingLinks
<1>7. ChecksInOrder'
  BY <1>2, <1>3, PendingIs DEF CampInv, ChecksInOrder
<1> QED
  BY <1>4, <1>5, <1>6, <1>7 DEF CampInv

(* What is left when nothing but the check moves, or the row it binds.     *)
LEMMA BoundStep ==
  ASSUME CampInv, NEW i \in Ids, NEW r, row' = row \/ row' = [row EXCEPT ![i] = r],
         row' # row => /\ Live(i) /\ r \in CampaignRecords
                       /\ r = [row[i] EXCEPT !.post = r.post, !.next = r.next],
         check' \in [pc : {"idle", "fetch", "bind"}, pending : Seq([id : Ids, since : Nat]),
                     seen : SUBSET Reels],
         check'.pc # "idle" => check'.pending # <<>>,
         \A n \in DOMAIN check'.pending :
           /\ row[check'.pending[n].id] # NoRow
           /\ Live(check'.pending[n].id) =>
                check'.pending[n].since = row[check'.pending[n].id].since,
         check'.pc = "bind" =>
           /\ \A q \in check'.seen : q <= reels
           /\ \A p \in 1 .. reels :
                p \in check'.seen \/ p <= reels - ListMax \/ \A q \in check'.seen : q < p,
         UNCHANGED <<reels, links, edit, count, overlap>>
  PROVE  CampInv'
<1>1. \A j \in Ids :
        /\ Live(j)' <=> Live(j)
        /\ Live(j) => /\ row'[j].links = row[j].links /\ row'[j].since = row[j].since
                      /\ row'[j].active = row[j].active /\ row'[j].on = row[j].on
                      /\ row'[j].activated = row[j].activated
        /\ row[j] # NoRow => row'[j] # NoRow
        /\ row'[j] \in {NoRow, Gone} \union CampaignRecords
  <2>1. CASE row' = row
    BY <2>1 DEF CampInv, TypeOK, Live
  <2>2. CASE row' # row
    <3>1. /\ row'[i] = r /\ \A j \in Ids \ {i} : row'[j] = row[j]
          /\ row[i] \in CampaignRecords /\ Live(i)
      BY <2>2, RowIs DEF CampInv, TypeOK
    <3>2. /\ r.links = row[i].links /\ r.since = row[i].since /\ r.active = row[i].active
          /\ r.on = row[i].on /\ r.activated = row[i].activated /\ r.st = row[i].st
      BY <2>2, <3>1 DEF CampaignRecords
    <3>3. \A j \in Ids \ {i} : row'[j] \in {NoRow, Gone} \union CampaignRecords
      BY <3>1 DEF CampInv, TypeOK
    <3>4. r # NoRow
      BY <3>1, <3>2 DEF NoRow, Live
    <3> QED
      BY <2>2, <3>1, <3>2, <3>3, <3>4 DEF Live
  <2> QED
    BY <2>1, <2>2
<1>2. TypeOK'
  <2>1. row' \in [Ids -> {NoRow, Gone} \union CampaignRecords]
    BY <1>1 DEF CampInv, TypeOK
  <2> QED
    BY <1>1, <2>1 DEF CampInv, TypeOK
<1>3. RowsInOrder'
  BY <1>1 DEF CampInv, RowsInOrder
<1>4. SavesInOrder'
  <2>1. \A j : Saving(j)' = Saving(j)
    BY DEF Saving
  <2>2. \A e \in Editors : edit[e].pc # "idle" => edit[e].id \in Ids
    BY EditIs DEF CampInv
  <2> QED
    BY <1>1, <2>1, <2>2 DEF CampInv, SavesInOrder, SavingLinks
<1>5. ChecksInOrder'
  <2>1. \A n \in DOMAIN check'.pending : check'.pending[n].id \in Ids
    <3>1. check'.pending \in Seq([id : Ids, since : Nat])
      OBVIOUS
    <3> QED
      BY <3>1, PlansAre
  <2> QED
    BY <1>1, <2>1 DEF ChecksInOrder
<1> QED
  BY <1>2, <1>3, <1>4, <1>5 DEF CampInv

(* The campaigns that wait, as the check reads them.                       *)
LEMMA PlanIs ==
  ASSUME TypeOK, NEW n \in Nat \ {0}, NEW p \in [1 .. n -> [id : Ids, since : Nat]],
         \A k \in 1 .. n : p[k].id \in Pending /\ p[k].since = Baseline(p[k].id)
  PROVE  /\ p \in Seq([id : Ids, since : Nat]) /\ p # <<>>
         /\ \A k \in DOMAIN p :
              /\ row[p[k].id] # NoRow
              /\ Live(p[k].id) => p[k].since = row[p[k].id].since
<1>1. \A i \in Pending : row[i] # NoRow
  BY RowIs DEF Pending
<1>2. DOMAIN p = 1 .. n
  OBVIOUS
<1>3. p \in Seq([id : Ids, since : Nat]) /\ Len(p) = n
  <2>1. PICK S : S = [id : Ids, since : Nat]
    OBVIOUS
  <2>2. p \in [1 .. n -> S]
    BY <2>1
  <2>3. p \in Seq(S) /\ Len(p) = n
    BY <2>2, Listed
  <2> QED
    BY <2>1, <2>3
<1>4. p # <<>>
  BY <1>3
<1>5. \A k \in 1 .. n :
              /\ row[p[k].id] # NoRow
              /\ Live(p[k].id) => p[k].since = row[p[k].id].since
  BY <1>1 DEF Baseline
<1> QED
  BY <1>2, <1>3, <1>4, <1>5, Zenon

(* A step of the check.                                                    *)
LEMMA CheckSteps == ASSUME CampInv, Check PROVE CampInv'
<1>1. ASSUME ReadPending PROVE CampInv'
  <2>1. PICK order \in [1 .. Cardinality(Pending) -> Pending] :
           check' = [NoCheck EXCEPT !.pc = "fetch",
                       !.pending = [k \in DOMAIN order |->
                                       [id |-> order[k], since |-> Baseline(order[k])]]]
    BY <1>1 DEF ReadPending
  <2>2. Pending \subseteq Ids /\ Pending # {}
    BY <1>1 DEF ReadPending, Pending
  <2>3. Cardinality(Pending) \in Nat \ {0}
    <3>1. IsFiniteSet(Ids)
      <4>1. 1 \in Int /\ MaxCampaigns \in Int
        BY CampaignAssumption
      <4> QED
        BY <4>1, FS_Interval, Zenon DEF Ids
    <3>2. IsFiniteSet(Pending)
      BY <2>2, <3>1, FS_Subset
    <3> QED
      BY <2>2, <3>2, FS_CardinalityType, FS_EmptySet
  <2>4. PICK p : p = [k \in DOMAIN order |-> [id |-> order[k], since |-> Baseline(order[k])]]
    OBVIOUS
  <2>5. /\ p \in Seq([id : Ids, since : Nat]) /\ p # <<>>
        /\ \A k \in DOMAIN p :
              /\ row[p[k].id] # NoRow
              /\ Live(p[k].id) => p[k].since = row[p[k].id].since
    <3>1. TypeOK
      BY DEF CampInv
    <3>2. PICK n : n = Cardinality(Pending)
      OBVIOUS
    <3>3. n \in Nat \ {0} /\ order \in [1 .. n -> Pending]
      BY <2>3, <3>2
    <3>4. \A i \in Pending : i \in Ids /\ Baseline(i) \in Nat
      BY <3>1, RowIs DEF Pending, Baseline
    <3>5. /\ p \in [1 .. n -> [id : Ids, since : Nat]]
          /\ \A k \in 1 .. n : p[k].id = order[k] /\ p[k].since = Baseline(order[k])
      BY <2>4, <3>3, <3>4
    <3>6. \A k \in 1 .. n : p[k].id \in Pending /\ p[k].since = Baseline(p[k].id)
      BY <3>3, <3>5
    <3> QED
      BY <3>1, <3>3, <3>5, <3>6, PlanIs
  <2>6. check' = [pc |-> "fetch", pending |-> p, seen |-> {}]
    BY <2>1, <2>4 DEF NoCheck
  <2>7. check'.pc = "fetch" /\ check'.pending = p
    BY <2>6
  <2>8. check' \in [pc : {"idle", "fetch", "bind"}, pending : Seq([id : Ids, since : Nat]),
                    seen : SUBSET Reels]
    BY <2>5, <2>6
  <2>9. \E i \in Ids : TRUE
    BY <2>2
  <2> QED
    BY <1>1, <2>5, <2>7, <2>8, <2>9, BoundStep, Zenon DEF ReadPending
<1>2. ASSUME FetchReels PROVE CampInv'
  <2> DEFINE s == {r \in Reels : r <= reels /\ r > reels - ListMax}
  <2>1. check' = [check EXCEPT !.pc = "bind", !.seen = s]
    BY <1>2 DEF FetchReels
  <2>2. /\ check \in [pc : {"idle", "fetch", "bind"}, pending : Seq([id : Ids, since : Nat]),
                      seen : SUBSET Reels]
        /\ reels \in 0 .. NReels
    BY DEF CampInv, TypeOK
  <2>3. /\ check' \in [pc : {"idle", "fetch", "bind"}, pending : Seq([id : Ids, since : Nat]),
                       seen : SUBSET Reels]
        /\ check'.pending = check.pending /\ check'.seen = s
    BY <2>1, <2>2
  <2>4. \A p \in 1 .. reels : p \in s \/ p <= reels - ListMax
    BY <2>2, CampaignAssumption DEF Reels
  <2>5. \A q \in s : q <= reels
    OBVIOUS
  <2>6. check.pending # <<>> /\ \E i \in Ids : TRUE
    <3>1. check.pending # <<>> /\ check.pending \in Seq([id : Ids, since : Nat])
      BY <1>2, <2>2 DEF CampInv, ChecksInOrder, FetchReels
    <3> QED
      BY <3>1, HeadTailProperties
  <2> QED
    BY <1>2, <2>3, <2>4, <2>5, <2>6, BoundStep DEF FetchReels, CampInv, ChecksInOrder
<1>3. ASSUME CheckFails PROVE CampInv'
  <2>1. /\ check' \in [pc : {"idle", "fetch", "bind"}, pending : Seq([id : Ids, since : Nat]),
                       seen : SUBSET Reels]
        /\ check'.pc = "idle" /\ check'.pending = <<>>
    BY <1>3 DEF CheckFails, NoCheck
  <2>2. \E i \in Ids : TRUE
    <3>1. check.pending # <<>> /\ check.pending \in Seq([id : Ids, since : Nat])
      BY <1>3, PendingIs DEF CampInv, ChecksInOrder, CheckFails
    <3> QED
      BY <3>1, HeadTailProperties
  <2> QED
    BY <1>3, <2>1, <2>2, BoundStep DEF CheckFails
<1>4. ASSUME NEW i \in Ids, Bind(i) PROVE CampInv'
  <2> DEFINE c == Head(check.pending)
             rest == IF Tail(check.pending) = <<>> THEN NoCheck
                     ELSE [check EXCEPT !.pending = Tail(check.pending)]
  <2>1. check.pc = "bind" /\ c.id = i /\ check.pending # <<>>
    BY <1>4 DEF Bind, CampInv, ChecksInOrder
  <2>2. /\ check \in [pc : {"idle", "fetch", "bind"}, pending : Seq([id : Ids, since : Nat]),
                      seen : SUBSET Reels]
        /\ check.pending \in Seq([id : Ids, since : Nat])
    BY PendingIs DEF CampInv, TypeOK
  <2>3. /\ NoCheck \in [pc : {"idle", "fetch", "bind"}, pending : Seq([id : Ids, since : Nat]),
                        seen : SUBSET Reels]
        /\ NoCheck.pc = "idle" /\ NoCheck.pending = <<>>
    BY DEF NoCheck
  <2>4. check' \in {rest, NoCheck}
    BY <1>4 DEF Bind
  <2>5. /\ Tail(check.pending) \in Seq([id : Ids, since : Nat])
        /\ \A n \in DOMAIN Tail(check.pending) :
             n + 1 \in DOMAIN check.pending /\ Tail(check.pending)[n] = check.pending[n + 1]
    BY <2>1, <2>2, HeadTailProperties, LenProperties
  <2>6. row' # row =>
          Live(i) /\ \E r \in Reels : row' = [row EXCEPT ![i].post = r, ![i].next = FALSE]
    BY <1>4, <2>1, PendingIs DEF Bind, NextReel, CampInv
  <2>7. PICK r : /\ row' = row \/ row' = [row EXCEPT ![i] = r]
                 /\ row' # row => /\ Live(i) /\ r \in CampaignRecords
                                  /\ r = [row[i] EXCEPT !.post = r.post, !.next = r.next]
    <3>1. CASE row' = row
      BY <3>1
    <3>2. CASE row' # row
      <4>1. PICK q \in Reels : row' = [row EXCEPT ![i].post = q, ![i].next = FALSE]
        BY <2>6, <3>2
      <4>2. row[i] \in CampaignRecords
        BY <2>6, <3>2, RowIs DEF CampInv
      <4> DEFINE r == [row[i] EXCEPT !.post = q, !.next = FALSE]
      <4>3. r \in CampaignRecords /\ r.post = q /\ r.next = FALSE
        BY <4>2 DEF CampaignRecords
      <4>4. row' = [row EXCEPT ![i] = r]
        BY <4>1 DEF CampInv, TypeOK
      <4> QED
        BY <2>6, <3>2, <4>3, <4>4
    <3> QED
      BY <3>1, <3>2
  <2>8. CASE check' = NoCheck
    <3>1. UNCHANGED <<reels, links, edit, count, overlap>>
      BY <1>4 DEF Bind
    <3>2. \A n : n \notin DOMAIN check'.pending
      BY <2>3, <2>8
    <3>3. /\ check' \in [pc : {"idle", "fetch", "bind"},
                         pending : Seq([id : Ids, since : Nat]), seen : SUBSET Reels]
          /\ check'.pc = "idle"
      BY <2>3, <2>8
    <3> QED
      BY <2>7, <3>1, <3>2, <3>3, BoundStep
  <2>9. CASE check' # NoCheck
    <3>1. check' = [check EXCEPT !.pending = Tail(check.pending)] /\ Tail(check.pending) # <<>>
      BY <2>4, <2>9
    <3>2. /\ check' \in [pc : {"idle", "fetch", "bind"}, pending : Seq([id : Ids, since : Nat]),
                         seen : SUBSET Reels]
          /\ check'.pending = Tail(check.pending) /\ check'.seen = check.seen
          /\ check'.pc = check.pc
      BY <2>2, <2>5, <3>1
    <3>3. \A n \in DOMAIN check'.pending :
            /\ row[check'.pending[n].id] # NoRow
            /\ Live(check'.pending[n].id) =>
                 check'.pending[n].since = row[check'.pending[n].id].since
      BY <2>5, <3>2 DEF CampInv, ChecksInOrder
    <3>4. /\ \A q \in check'.seen : q <= reels
          /\ \A p \in 1 .. reels :
               p \in check'.seen \/ p <= reels - ListMax \/ \A q \in check'.seen : q < p
      BY <2>1, <3>2 DEF CampInv, ChecksInOrder
    <3>5. UNCHANGED <<reels, links, edit, count, overlap>> /\ check'.pending # <<>>
      BY <1>4, <3>1, <3>2 DEF Bind
    <3> HIDE DEF c, rest
    <3> QED
      BY <2>7, <3>2, <3>3, <3>4, <3>5, BoundStep
  <2> QED
    BY <2>8, <2>9
<1> QED
  BY <1>1, <1>2, <1>3, <1>4 DEF Check

(* The links of a new campaign.                                            *)
LEMMA NewLinksAre ==
  ASSUME TypeOK, NEW t \in Targets
  PROVE  /\ NewLinks(t) \in Seq(Links) /\ Len(NewLinks(t)) \in 0 .. 2 /\ InOrder(NewLinks(t))
         /\ \A n \in DOMAIN NewLinks(t) : NewLinks(t)[n].id <= links + Len(NewLinks(t))
<1>1. PICK g : g = Given(t)
  OBVIOUS
<1>2. g \in Seq(Urls) /\ Len(g) \in 0 .. 2
  BY <1>1, GivenIs
<1>3. PICK ls : ls = [k \in 1 .. Len(g) |-> [id |-> links + k, url |-> g[k]]]
  OBVIOUS
<1>4. NewLinks(t) = ls
  BY <1>1, <1>3 DEF NewLinks
<1>5. links \in Nat
  BY DEF TypeOK
<1>6. /\ DOMAIN ls = 1 .. Len(g)
      /\ \A k \in 1 .. Len(g) : ls[k].id = links + k /\ ls[k] \in Links
  BY <1>2, <1>3, <1>5 DEF Links
<1>7. ls \in [1 .. Len(g) -> Links]
  BY <1>3, <1>6
<1>8. ls \in Seq(Links) /\ Len(ls) = Len(g)
  BY <1>2, <1>7, Listed
<1>9. InOrder(ls) /\ \A n \in DOMAIN ls : ls[n].id <= links + Len(ls)
  BY <1>2, <1>5, <1>6, <1>8 DEF InOrder
<1> QED
  BY <1>2, <1>4, <1>8, <1>9

(* What the builder lets a user choose, field by field.                    *)
LEMMA TriggersAre == Triggers \subseteq Scopes
<1>1. \A p \in Posts : [any |-> FALSE, next |-> FALSE, post |-> p] \in Scopes
  BY DEF Scopes
<1>2. /\ [any |-> TRUE, next |-> FALSE, post |-> NoPost] \in Scopes
      /\ [any |-> FALSE, next |-> TRUE, post |-> NoPost] \in Scopes
  BY DEF Scopes
<1> HIDE DEF Scopes
<1> QED
  BY <1>1, <1>2, Zenon DEF Triggers

LEMMA CreateStep ==
  ASSUME CampInv, NEW i \in Ids, Create(i) \/ Import(i)
  PROVE  CampInv'
<1>1. PICK trigger \in Triggers, t \in Targets, active \in BOOLEAN :
         /\ row' = [row EXCEPT ![i] = NewRow(trigger, active, NewLinks(t))]
         /\ links' = links + Len(NewLinks(t))
  <2>1. CASE Create(i)
    BY <2>1 DEF Create
  <2>2. CASE Import(i)
    <3>1. PICK p \in Posts, u \in Urls \union {""}, active \in BOOLEAN :
            /\ row' = [row EXCEPT ![i] =
                         NewRow([any |-> FALSE, next |-> FALSE, post |-> p], active,
                                NewLinks([first |-> u, second |-> ""]))]
            /\ links' = links + Len(NewLinks([first |-> u, second |-> ""]))
      BY <2>2 DEF Import
    <3>2. [any |-> FALSE, next |-> FALSE, post |-> p] \in Triggers
      BY DEF Triggers
    <3>3. [first |-> u, second |-> ""] \in Targets
      BY DEF Targets
    <3> QED
      BY <3>1, <3>2, <3>3
  <2> QED
    BY <2>1, <2>2
<1>2. PICK ls : ls = NewLinks(t)
  OBVIOUS
<1>3. /\ ls \in Seq(Links) /\ Len(ls) \in 0 .. 2 /\ InOrder(ls)
      /\ \A n \in DOMAIN ls : ls[n].id <= links + Len(ls)
  BY <1>2, NewLinksAre DEF CampInv
<1>4. PICK r : r = NewRow(trigger, active, ls)
  OBVIOUS
<1>5. /\ trigger.any \in BOOLEAN /\ trigger.next \in BOOLEAN
      /\ trigger.post \in Posts \union Reels \union {NoPost}
  <2>1. trigger \in Scopes
    BY TriggersAre, Zenon
  <2> QED
    BY <2>1 DEF Scopes
<1>6. reels \in Nat /\ links \in Nat /\ links' = links + Len(ls) /\ links' \in Nat
  BY <1>1, <1>2, <1>3, CampaignAssumption DEF CampInv, TypeOK
<1>7. /\ r \in CampaignRecords /\ r.since = reels /\ r.links = ls
      /\ r.active => r.activated = r.on
  BY <1>3, <1>4, <1>5, <1>6 DEF NewRow, CampaignRecords, Never
<1>8. /\ row[i] = NoRow /\ UNCHANGED <<reels, edit, check, overlap>> /\ count' = count + 1
  <2>1. CASE Create(i)
    BY <2>1 DEF Create, Fresh
  <2>2. CASE Import(i)
    BY <2>2 DEF Import, Fresh
  <2> QED
    BY <2>1, <2>2
<1>9. row' = [row EXCEPT ![i] = r] /\ count' \in Nat /\ overlap' \in [Ids -> BOOLEAN]
  BY <1>1, <1>2, <1>4, <1>8 DEF CampInv, TypeOK
<1>10. /\ r.since <= reels /\ InOrder(r.links) /\ links <= links'
       /\ \A n \in DOMAIN r.links : r.links[n].id <= links'
       /\ Len(r.links) <= 2
  BY <1>3, <1>6, <1>7
<1>11. \A j \in Ids \ {i} : overlap'[j] = overlap[j]
  BY <1>8
<1> QED
  BY <1>6, <1>7, <1>8, <1>9, <1>10, <1>11, MadeStep

(* A link with another id, or another destination.                         *)
LEMMA LinkCopied ==
  ASSUME NEW x \in Links, NEW id \in Nat \ {0}
  PROVE  [x EXCEPT !.id = id] \in Links /\ [x EXCEPT !.id = id].id = id
BY DEF Links

LEMMA LinkChanged ==
  ASSUME NEW x \in Links, NEW url \in Urls
  PROVE  /\ [x EXCEPT !.url = url] \in Links /\ [x EXCEPT !.url = url].id = x.id
         /\ [x EXCEPT !.url = url].url = url
BY DEF Links

LEMMA DuplicateStep ==
  ASSUME CampInv, NEW i \in Ids, Duplicate(i)
  PROVE  CampInv'
<1>1. PICK j \in Ids :
        /\ Live(j)
        /\ row' = [row EXCEPT ![i] =
                     [row[j] EXCEPT !.active = FALSE, !.activated = Never, !.since = reels,
                        !.on = Never,
                        !.links = [k \in DOMAIN @ |-> [@[k] EXCEPT !.id = links + k]]]]
        /\ links' = links + Len(row[j].links)
        /\ overlap' = [overlap EXCEPT ![i] = overlap[j]]
  BY DEF Duplicate
<1>2. PICK old : old = row[j].links
  OBVIOUS
<1>3. /\ row[j] \in CampaignRecords /\ old \in Seq(Links)
      /\ DOMAIN old = 1 .. Len(old) /\ Len(old) \in Nat
  BY <1>1, <1>2, RowIs DEF CampInv
<1>4. PICK ls : ls = [k \in DOMAIN old |-> [old[k] EXCEPT !.id = links + k]]
  OBVIOUS
<1>5. links \in Nat /\ reels \in Nat /\ links' = links + Len(old) /\ links' \in Nat
  BY <1>1, <1>2, <1>3, CampaignAssumption DEF CampInv, TypeOK
<1>6. \A k \in DOMAIN old : old[k] \in Links
  BY <1>3
<1>7. /\ DOMAIN ls = 1 .. Len(old)
      /\ \A k \in 1 .. Len(old) : ls[k].id = links + k /\ ls[k] \in Links
  <2> SUFFICES ASSUME NEW k \in 1 .. Len(old)
               PROVE  ls[k].id = links + k /\ ls[k] \in Links
    BY <1>3, <1>4
  <2>1. PICK x : x = old[k]
    OBVIOUS
  <2>2. x \in Links
    BY <1>3, <1>6, <2>1
  <2>3. ls[k] = [x EXCEPT !.id = links + k]
    BY <1>3, <1>4, <2>1
  <2>4. links + k \in Nat \ {0}
    BY <1>3, <1>5
  <2> QED
    BY <2>2, <2>3, <2>4, LinkCopied
<1>8. ls \in Seq(Links) /\ Len(ls) = Len(old)
  <2>1. ls \in [1 .. Len(old) -> Links]
    BY <1>4, <1>7
  <2> QED
    BY <1>3, <2>1, Listed
<1>9. InOrder(ls) /\ \A n \in DOMAIN ls : ls[n].id <= links'
  BY <1>3, <1>5, <1>7 DEF InOrder
<1>10. PICK r : r = [row[j] EXCEPT !.active = FALSE, !.activated = Never, !.since = reels,
                                   !.on = Never, !.links = ls]
  OBVIOUS
<1>11. r \in CampaignRecords /\ r.since = reels /\ r.links = ls /\ r.active = FALSE
  BY <1>3, <1>5, <1>8, <1>10 DEF CampaignRecords
<1>12. row' = [row EXCEPT ![i] = r] /\ row[i] = NoRow /\ UNCHANGED <<reels, edit, check>>
  BY <1>1, <1>2, <1>4, <1>10 DEF Duplicate, Fresh
<1>13. /\ overlap' \in [Ids -> BOOLEAN] /\ \A k \in Ids \ {i} : overlap'[k] = overlap[k]
       /\ overlap'[i] = overlap[j] /\ count' \in Nat
  BY <1>1 DEF Duplicate, CampInv, TypeOK
<1>14. ~overlap[j] => Len(old) <= 2
  BY <1>1, <1>2 DEF CampInv, RowsInOrder
<1>15. /\ r.since <= reels /\ InOrder(r.links) /\ links <= links'
       /\ \A n \in DOMAIN r.links : r.links[n].id <= links'
       /\ ~overlap'[i] => Len(r.links) <= 2 /\ (r.active => r.activated = r.on)
  BY <1>3, <1>5, <1>8, <1>9, <1>11, <1>13, <1>14
<1> QED
  BY <1>5, <1>11, <1>12, <1>13, <1>15, MadeStep

-----------------------------------------------------------------------------
(* A save writes a link.                                                   *)

(* What a statement makes of the links ls of its campaign: n have been     *)
(* created so far.                                                         *)
Removed(ls, ms, found) ==
  found # 0 /\ \E k \in DOMAIN ls : ls[k].id = found /\ ms = Without(ls, k)
Changed(ls, ms, found, url) ==
  /\ found # 0 /\ url \in Urls
  /\ ms = [k \in DOMAIN ls |-> IF ls[k].id = found THEN [ls[k] EXCEPT !.url = url] ELSE ls[k]]
Added(ls, ms, found, url, n) ==
  found = 0 /\ url \in Urls /\ ms = Append(ls, [id |-> n + 1, url |-> url])
Rewrote(ls, ms, found, url) ==
  ms = ls \/ Removed(ls, ms, found) \/ Changed(ls, ms, found, url)

LEMMA WithoutIs ==
  ASSUME NEW S, NEW s \in Seq(S), NEW k \in DOMAIN s
  PROVE  /\ Without(s, k) \in Seq(S) /\ Len(Without(s, k)) = Len(s) - 1
         /\ \A n \in 1 .. Len(s) - 1 : Without(s, k)[n] = IF n < k THEN s[n] ELSE s[n + 1]
<1>1. Len(s) \in Nat \ {0} /\ DOMAIN s = 1 .. Len(s) /\ Len(s) - 1 \in Nat
  BY LenProperties
<1>2. PICK w : w = Without(s, k)
  OBVIOUS
<1>3. /\ DOMAIN w = 1 .. Len(s) - 1
      /\ \A n \in 1 .. Len(s) - 1 : w[n] = IF n < k THEN s[n] ELSE s[n + 1]
  BY <1>2 DEF Without
<1>4. \A n \in 1 .. Len(s) - 1 : w[n] \in S
  <2>1. \A n \in 1 .. Len(s) : s[n] \in S
    BY <1>1, ElementIs
  <2> QED
    BY <1>1, <1>3, <2>1
<1>5. w \in [1 .. Len(s) - 1 -> S]
  <2>1. w = [n \in 1 .. Len(s) - 1 |-> IF n < k THEN s[n] ELSE s[n + 1]]
    BY <1>2 DEF Without
  <2> QED
    BY <1>3, <1>4, <2>1
<1>6. w \in Seq(S) /\ Len(w) = Len(s) - 1
  BY <1>1, <1>5, Listed
<1> QED
  BY <1>2, <1>3, <1>6

(* Links keep their order when their ids stay, when one of them is taken   *)
(* away, and when one is added with an id that no other has reached.       *)
IdsUpTo(n, ls) == \A k \in DOMAIN ls : ls[k].id \in Nat /\ ls[k].id <= n

LEMMA OrderOfSame ==
  ASSUME NEW m \in Nat, NEW ls, NEW ms, NEW n \in Nat, InOrder(ls), IdsUpTo(n, ls),
         DOMAIN ls = 1 .. m, DOMAIN ms = 1 .. m, \A k \in 1 .. m : ms[k].id = ls[k].id
  PROVE  InOrder(ms) /\ IdsUpTo(n, ms)
BY DEF InOrder, IdsUpTo

LEMMA OrderOfFewer ==
  ASSUME NEW m \in Nat, NEW ls, NEW ms, NEW n \in Nat, InOrder(ls), IdsUpTo(n, ls),
         DOMAIN ls = 1 .. m, DOMAIN ms = 1 .. m - 1, NEW k \in 1 .. m,
         \A p \in 1 .. m - 1 : ms[p] = IF p < k THEN ls[p] ELSE ls[p + 1]
  PROVE  InOrder(ms) /\ IdsUpTo(n, ms)
<1> DEFINE at(p) == IF p < k THEN p ELSE p + 1
<1>1. \A p \in 1 .. m - 1 : at(p) \in 1 .. m /\ ms[p] = ls[at(p)]
  OBVIOUS
<1>2. \A p, q \in 1 .. m - 1 : p < q => at(p) < at(q)
  OBVIOUS
<1> HIDE DEF at
<1>3. InOrder(ms)
  BY <1>1, <1>2 DEF InOrder
<1>4. IdsUpTo(n, ms)
  BY <1>1 DEF IdsUpTo
<1> QED
  BY <1>3, <1>4

LEMMA OrderOfMore ==
  ASSUME NEW m \in Nat, NEW ls, NEW ms, NEW n \in Nat, InOrder(ls), IdsUpTo(n, ls),
         DOMAIN ls = 1 .. m, DOMAIN ms = 1 .. m + 1, \A k \in 1 .. m : ms[k] = ls[k],
         ms[m + 1].id = n + 1
  PROVE  InOrder(ms) /\ IdsUpTo(n + 1, ms)
<1>1. \A k \in 1 .. m + 1 : k \in 1 .. m \/ k = m + 1
  OBVIOUS
<1>2. \A k \in 1 .. m + 1 : ms[k].id \in Nat /\ ms[k].id <= n + 1
  BY <1>1 DEF IdsUpTo
<1>3. ASSUME NEW p \in 1 .. m + 1, NEW q \in 1 .. m + 1, p < q
      PROVE  ms[p].id < ms[q].id
  <2>1. p \in 1 .. m /\ ms[p].id = ls[p].id /\ ls[p].id \in Nat /\ ls[p].id <= n
    BY <1>3 DEF IdsUpTo
  <2>2. CASE q = m + 1
    BY <2>1, <2>2
  <2>3. CASE q \in 1 .. m
    BY <1>3, <2>1, <2>3 DEF InOrder
  <2> QED
    BY <1>1, <2>2, <2>3
<1> QED
  BY <1>2, <1>3 DEF InOrder, IdsUpTo

(* The links stay links, in their order.                                   *)
LEMMA RewroteIs ==
  ASSUME NEW ls \in Seq(Links), NEW ms, NEW found, NEW url, NEW n \in Nat,
         InOrder(ls), IdsUpTo(n, ls), Rewrote(ls, ms, found, url)
  PROVE  ms \in Seq(Links) /\ InOrder(ms) /\ IdsUpTo(n, ms)
<1>1. PICK m : m = Len(ls)
  OBVIOUS
<1>2. DOMAIN ls = 1 .. m /\ m \in Nat /\ \A k \in 1 .. m : ls[k] \in Links
  BY <1>1, LenProperties, ElementIs
<1>3. CASE ms = ls
  BY <1>3, Zenon
<1>4. CASE Removed(ls, ms, found)
  <2>1. PICK k \in DOMAIN ls : ms = Without(ls, k)
    BY <1>4 DEF Removed
  <2>2. /\ ms \in Seq(Links) /\ Len(ms) = m - 1
        /\ \A p \in 1 .. m - 1 : ms[p] = IF p < k THEN ls[p] ELSE ls[p + 1]
    BY <1>1, <2>1, WithoutIs, Zenon
  <2>3. DOMAIN ms = 1 .. m - 1
    BY <2>2, LenProperties
  <2>4. k \in 1 .. m
    BY <1>2
  <2>5. InOrder(ms) /\ IdsUpTo(n, ms)
    BY <1>2, <2>2, <2>3, <2>4, OrderOfFewer, Zenon
  <2> QED
    BY <2>2, <2>5, Zenon
<1>5. CASE Changed(ls, ms, found, url)
  <2>1. /\ DOMAIN ms = 1 .. m
        /\ \A k \in 1 .. m : ms[k] = IF ls[k].id = found THEN [ls[k] EXCEPT !.url = url]
                                                       ELSE ls[k]
    BY <1>2, <1>5 DEF Changed
  <2>2. url \in Urls
    BY <1>5 DEF Changed
  <2>3. \A k \in 1 .. m : ms[k] \in Links /\ ms[k].id = ls[k].id
    <3> SUFFICES ASSUME NEW k \in 1 .. m PROVE ms[k] \in Links /\ ms[k].id = ls[k].id
      OBVIOUS
    <3>1. PICK x : x = ls[k]
      OBVIOUS
    <3>2. x \in Links
      BY <1>2, <3>1
    <3>3. [x EXCEPT !.url = url] \in Links /\ [x EXCEPT !.url = url].id = x.id
      BY <2>2, <3>2, LinkChanged
    <3>4. ms[k] = x \/ ms[k] = [x EXCEPT !.url = url]
      BY <2>1, <3>1
    <3> QED
      BY <3>1, <3>2, <3>3, <3>4
  <2>4. ms \in [1 .. m -> Links]
    <3>1. ms = [k \in DOMAIN ls |->
                  IF ls[k].id = found THEN [ls[k] EXCEPT !.url = url] ELSE ls[k]]
      BY <1>5 DEF Changed
    <3>2. ms = [k \in 1 .. m |-> ms[k]]
      BY <1>2, <2>1, <3>1
    <3> QED
      BY <2>3, <3>2
  <2>5. ms \in Seq(Links) /\ Len(ms) = m
    BY <1>2, <2>4, Listed
  <2>6. InOrder(ms) /\ IdsUpTo(n, ms)
    BY <1>2, <2>1, <2>3, OrderOfSame, Zenon
  <2> QED
    BY <2>5, <2>6, Zenon
<1> QED
  BY <1>3, <1>4, <1>5, Zenon DEF Rewrote

LEMMA OrderOfAdded ==
  ASSUME NEW ls \in Seq(Links), NEW ms, NEW found, NEW url, NEW n \in Nat,
         InOrder(ls), IdsUpTo(n, ls), Added(ls, ms, found, url, n)
  PROVE  ms \in Seq(Links) /\ InOrder(ms) /\ IdsUpTo(n + 1, ms)
<1>1. PICK m : m = Len(ls)
  OBVIOUS
<1>2. DOMAIN ls = 1 .. m /\ m \in Nat
  BY <1>1, LenProperties
<1>3. PICK x : x = [id |-> n + 1, url |-> url]
  OBVIOUS
<1>4. url \in Urls /\ ms = Append(ls, x)
  BY <1>3 DEF Added
<1>5. x \in Links /\ x.id = n + 1
  BY <1>3, <1>4 DEF Links
<1>6. /\ ms \in Seq(Links) /\ Len(ms) = Len(ls) + 1
      /\ \A k \in 1 .. Len(ls) : ms[k] = ls[k]
      /\ ms[Len(ls) + 1] = x
  BY <1>4, <1>5, AppendProperties
<1>7. DOMAIN ms = 1 .. m + 1
  BY <1>1, <1>6, LenProperties
<1>8. InOrder(ms) /\ IdsUpTo(n + 1, ms)
  BY <1>1, <1>2, <1>5, <1>6, <1>7, OrderOfMore, Zenon
<1> QED
  BY <1>6, <1>8, Zenon

(* The destinations of links, one by one.                                  *)
LEMMA UrlsAre ==
  ASSUME NEW ms \in Seq(Links), NEW g \in Seq(Urls), Len(ms) = Len(g),
         \A n \in 1 .. Len(g) : ms[n].url = g[n]
  PROVE  [n \in DOMAIN ms |-> ms[n].url] = g
<1>1. DOMAIN ms = 1 .. Len(g) /\ DOMAIN g = 1 .. Len(g)
  BY LenProperties
<1>2. g = [n \in 1 .. Len(g) |-> g[n]]
  BY <1>1
<1> QED
  BY <1>1, <1>2

(* The oldest links, as a save finds them: ids are positive.               *)
LEMMA FoundIs ==
  ASSUME NEW ls \in Seq(Links)
  PROVE  /\ FirstId(ls) \in Nat /\ SecondId(ls) \in Nat /\ Len(ls) \in Nat
         /\ FirstId(ls) = 0 => Len(ls) = 0 /\ ls = <<>>
         /\ FirstId(ls) # 0 => Len(ls) > 0 /\ ls[1].id = FirstId(ls)
         /\ SecondId(ls) = 0 => Len(ls) < 2
         /\ SecondId(ls) # 0 => Len(ls) >= 2 /\ ls[2].id = SecondId(ls)
         /\ Len(ls) = 0 <=> ls = <<>>
<1>1. PICK m : m = Len(ls)
  OBVIOUS
<1>2. DOMAIN ls = 1 .. m /\ m \in Nat /\ (m = 0 <=> ls = <<>>)
  BY <1>1, LenProperties, EmptySeq
<1>3. \A k \in 1 .. m : ls[k].id \in Nat \ {0}
  <2>1. \A k \in 1 .. m : ls[k] \in Links
    BY <1>2, ElementIs
  <2> QED
    BY <2>1 DEF Links
<1>4. m # 0 => ls[1].id \in Nat \ {0}
  BY <1>2, <1>3
<1>5. ~(m < 2) => ls[2].id \in Nat \ {0}
  BY <1>2, <1>3
<1>6. FirstId(ls) = IF m = 0 THEN 0 ELSE ls[1].id
  BY <1>2 DEF FirstId
<1>7. SecondId(ls) = IF m < 2 THEN 0 ELSE ls[2].id
  BY <1>1 DEF SecondId
<1> QED
  BY <1>1, <1>2, <1>4, <1>5, <1>6, <1>7

(* What becomes of the links one by one.                                   *)
LEMMA LinksAre ==
  ASSUME NEW ls \in Seq(Links)
  PROVE  /\ DOMAIN ls = 1 .. Len(ls) /\ Len(ls) \in Nat
         /\ \A k \in 1 .. Len(ls) : ls[k] \in Links /\ ls[k].id \in Nat
<1>1. DOMAIN ls = 1 .. Len(ls) /\ Len(ls) \in Nat
  BY LenProperties
<1>2. \A k \in 1 .. Len(ls) : ls[k] \in Links
  BY <1>1, ElementIs
<1> QED
  BY <1>1, <1>2 DEF Links

LEMMA RemovedIs ==
  ASSUME NEW ls \in Seq(Links), NEW ms, NEW found, Removed(ls, ms, found), NEW m, m = Len(ls)
  PROVE  /\ ms \in Seq(Links) /\ Len(ms) = m - 1
         /\ InOrder(ls) /\ m = 2 /\ found = ls[2].id => ms[1] = ls[1]
<1>1. PICK k \in DOMAIN ls : ls[k].id = found /\ ms = Without(ls, k)
  BY DEF Removed
<1>2. /\ ms \in Seq(Links) /\ Len(ms) = m - 1
      /\ \A p \in 1 .. m - 1 : ms[p] = IF p < k THEN ls[p] ELSE ls[p + 1]
  BY <1>1, WithoutIs, Zenon
<1>3. ASSUME InOrder(ls), m = 2, found = ls[2].id
      PROVE  ms[1] = ls[1]
  <2>1. DOMAIN ls = 1 .. m /\ \A p \in 1 .. m : ls[p].id \in Nat
    BY LinksAre, Zenon
  <2>2. k \in 1 .. 2 /\ DOMAIN ls = 1 .. 2 /\ ls[1].id \in Nat /\ ls[2].id \in Nat
    BY <1>3, <2>1
  <2>3. ls[1].id < ls[2].id
    BY <1>3, <2>2 DEF InOrder
  <2>4. k = 2
    BY <1>1, <1>3, <2>2, <2>3
  <2> QED
    BY <1>2, <1>3, <2>4
<1> QED
  BY <1>2, <1>3

LEMMA ChangedIs ==
  ASSUME NEW ls \in Seq(Links), NEW ms, NEW found, NEW url, Changed(ls, ms, found, url),
         NEW m, m = Len(ls)
  PROVE  /\ Len(ms) = m
         /\ \A k \in 1 .. m : ms[k].url = IF ls[k].id = found THEN url ELSE ls[k].url
<1>1. DOMAIN ls = 1 .. m /\ m \in Nat /\ \A k \in 1 .. m : ls[k] \in Links
  BY LinksAre
<1>2. url \in Urls
  BY DEF Changed
<1>3. \A k \in 1 .. m : ms[k] = IF ls[k].id = found THEN [ls[k] EXCEPT !.url = url] ELSE ls[k]
  BY <1>1 DEF Changed
<1>4. ASSUME NEW k \in 1 .. m
      PROVE  ms[k].url = IF ls[k].id = found THEN url ELSE ls[k].url
  <2>1. PICK x : x = ls[k]
    OBVIOUS
  <2>2. [x EXCEPT !.url = url].url = url
    BY <1>1, <1>2, <2>1, LinkChanged
  <2>3. ms[k] = IF x.id = found THEN [x EXCEPT !.url = url] ELSE x
    BY <1>3, <2>1
  <2> QED
    BY <2>1, <2>2, <2>3
<1>5. DOMAIN ms = 1 .. m /\ ms = [k \in 1 .. m |-> ms[k]]
  BY <1>1 DEF Changed
<1>6. Len(ms) = m
  <2>1. ms \in [1 .. m -> {ms[k] : k \in 1 .. m}]
    BY <1>5
  <2> QED
    BY <1>1, <2>1, Listed
<1> QED
  BY <1>4, <1>6

LEMMA AddedIs ==
  ASSUME NEW ls \in Seq(Links), NEW ms, NEW found, NEW url, NEW n \in Nat,
         Added(ls, ms, found, url, n), NEW m, m = Len(ls)
  PROVE  /\ Len(ms) = m + 1 /\ ms[m + 1].url = url
         /\ \A k \in 1 .. m : ms[k] = ls[k]
<1>1. PICK x : x = [id |-> n + 1, url |-> url]
  OBVIOUS
<1>2. url \in Urls /\ ms = Append(ls, x)
  BY <1>1 DEF Added
<1>3. x \in Links /\ x.url = url
  BY <1>1, <1>2 DEF Links
<1> QED
  BY <1>2, <1>3, AppendProperties

(* What a save writes where it found nothing, or a link, to be the         *)
(* destination of its form.                                                *)
Writes(ls, ms, found, url, n) ==
  IF url = "" THEN IF found = 0 THEN ms = ls ELSE Removed(ls, ms, found)
              ELSE IF found = 0 THEN Added(ls, ms, found, url, n)
                                ELSE Changed(ls, ms, found, url)

(* The primary link is written, and what the save knows with it.           *)
LEMMA PrimaryKnown ==
  ASSUME NEW q, q.pc = "write1", NEW ls \in Seq(Links), NEW ms, NEW n \in Nat, InOrder(ls),
         Len(ls) <= 2, Known(q, ls), Writes(ls, ms, q.found, q.t.first, n),
         NEW k, k.pc = "find2", k.t = q.t, k.two = q.two
  PROVE  Known(k, ms) /\ Len(ms) <= 2
<1>1. q.two = (Len(ls) > 1) /\ q.found = FirstId(ls)
  BY DEF Known
<1> DEFINE url == q.t.first
<1>2. SUFFICES /\ ~(q.two /\ url = "") =>
                     IF url = "" THEN ms = <<>> ELSE Len(ms) > 0 /\ ms[1].url = url
               /\ Len(ms) <= 2
  BY DEF Known
<1>3. PICK m, l : m = Len(ls) /\ l = Len(ms)
  OBVIOUS
<1>4. m \in Nat /\ m <= 2 /\ q.two = (m > 1)
  BY <1>1, <1>3, FoundIs, Zenon
<1>5. CASE url = "" /\ q.found = 0
  <2>1. ms = ls
    BY <1>5, Zenon DEF Writes
  <2>2. ms = <<>> /\ Len(ms) <= 2
    BY <1>1, <2>1, <1>5, FoundIs
  <2> QED
    BY <1>5, <2>2, Zenon
<1>6. CASE url = "" /\ q.found # 0
  <2>1. Removed(ls, ms, q.found)
    BY <1>6, Zenon DEF Writes
  <2>2. ms \in Seq(Links) /\ l = m - 1
    BY <1>3, <2>1, RemovedIs, Zenon
  <2>3. m > 0
    BY <1>1, <1>3, <1>6, FoundIs, Zenon
  <2>4. l <= 2 /\ (~(m > 1) => l = 0)
    BY <1>4, <2>2, <2>3
  <2>5. ~q.two => ~(m > 1)
    BY <1>4, Zenon
  <2>6. Len(ms) <= 2 /\ (~q.two => ms = <<>>)
    BY <1>3, <2>2, <2>4, <2>5, FoundIs, Zenon
  <2> QED
    BY <1>6, <2>6, Zenon
<1>7. CASE url # "" /\ q.found = 0
  <2>1. Added(ls, ms, q.found, url, n)
    BY <1>7, Zenon DEF Writes
  <2>2. Len(ms) = m + 1 /\ ms[m + 1].url = url
    <3> HIDE DEF url
    <3> QED
      BY <1>3, <2>1, AddedIs
  <2>3. l = m + 1
    BY <1>3, <2>2, Zenon
  <2>4. m = 0
    BY <1>1, <1>3, <1>7, FoundIs, Zenon
  <2>5. l > 0 /\ l <= 2 /\ ms[1].url = url
    <3> HIDE DEF url
    <3> QED
      BY <2>2, <2>4, <2>3
  <2> QED
    BY <1>3, <1>7, <2>5, Zenon
<1>8. CASE url # "" /\ q.found # 0
  <2>1. Changed(ls, ms, q.found, url)
    BY <1>8, Zenon DEF Writes
  <2>2. /\ Len(ms) = m
        /\ \A p \in 1 .. m : ms[p].url = IF ls[p].id = q.found THEN url ELSE ls[p].url
    BY <1>3, <2>1, ChangedIs
  <2>3. l = m
    BY <1>3, <2>2, Zenon
  <2>4. m > 0 /\ ls[1].id = q.found
    BY <1>1, <1>3, <1>8, FoundIs, Zenon
  <2>5. l > 0 /\ l <= 2 /\ ms[1].url = url
    <3> HIDE DEF url
    <3> QED
      BY <1>4, <2>2, <2>4, <2>3
  <2> QED
    BY <1>3, <1>8, <2>5, Zenon
<1> QED
  BY <1>5, <1>6, <1>7, <1>8, Zenon

(* The secondary link is written: the links are those of the form.         *)
LEMMA SecondaryKnown ==
  ASSUME NEW q, q.pc = "write2", q.t \in Targets, NEW ls \in Seq(Links), NEW ms \in Seq(Links),
         NEW n \in Nat, InOrder(ls), Len(ls) <= 2, Known(q, ls),
         Writes(ls, ms, q.found, q.t.second, n),
         NEW k, k.pc = "saved", k.t = q.t, k.two = q.two
  PROVE  Known(k, ms) /\ Len(ms) <= 2
<1> DEFINE first == q.t.first
           second == q.t.second
<1>1. q.found = SecondId(ls)
  BY DEF Known
<1>2. ~(q.two /\ first = "") =>
        IF first = "" THEN ls = <<>> ELSE Len(ls) > 0 /\ ls[1].url = first
  BY DEF Known
<1>3. PICK m, l : m = Len(ls) /\ l = Len(ms)
  OBVIOUS
<1>4. /\ m \in Nat /\ (q.found = 0 => m < 2)
      /\ q.found # 0 => m = 2 /\ ls[2].id = q.found
  <2>1. m <= 2
    BY <1>3, Zenon
  <2>2. m \in Nat /\ (q.found = 0 => m < 2)
    BY <1>1, <1>3, FoundIs, Zenon
  <2>3. q.found # 0 => m >= 2 /\ ls[2].id = q.found
    BY <1>1, <1>3, FoundIs, Zenon
  <2> QED
    BY <2>1, <2>2, <2>3
<1>5. ASSUME m = 2 PROVE DOMAIN ls = 1 .. 2 /\ ls[1].id < ls[2].id /\ ls[1].id \in Nat
  <2>1. DOMAIN ls = 1 .. 2
    BY <1>5, <1>3, LenProperties
  <2>2. ls[1] \in Links /\ ls[2] \in Links
    BY <2>1, ElementIs
  <2>3. ls[1].id \in Nat /\ ls[2].id \in Nat
    BY <2>2 DEF Links
  <2> QED
    BY <2>1, <2>3 DEF InOrder
<1> HIDE DEF first, second
<1>6. /\ second = "" => l = IF m = 0 THEN 0 ELSE 1
      /\ second # "" => /\ l = IF m = 0 THEN 1 ELSE 2
                        /\ ms[l].url = second
      /\ m > 0 => ms[1].url = ls[1].url
  <2>1. CASE second = "" /\ q.found = 0
    <3>1. ms = ls
      BY <2>1, Zenon DEF Writes, second
    <3>2. l = IF m = 0 THEN 0 ELSE 1
      <4>1. q.found = 0 /\ l = m
        BY <1>3, <2>1, <3>1, Zenon
      <4> QED
        BY <1>4, <4>1
    <3> QED
      BY <2>1, <3>1, <3>2, Zenon
  <2>2. CASE second = "" /\ q.found # 0
    <3>1. Removed(ls, ms, q.found) /\ q.found # 0
      BY <2>2, Zenon DEF Writes, second
    <3>2. m = 2 /\ ls[2].id = q.found
      BY <1>4, <3>1
    <3>3. l = m - 1 /\ ms[1] = ls[1]
      BY <1>3, <3>1, <3>2, RemovedIs, Zenon
    <3>4. l = (IF m = 0 THEN 0 ELSE 1) /\ ms[1].url = ls[1].url
      BY <3>2, <3>3
    <3> QED
      BY <2>2, <3>4, Zenon
  <2>3. CASE second # "" /\ q.found = 0
    <3>1. Added(ls, ms, q.found, second, n) /\ q.found = 0
      BY <2>3, Zenon DEF Writes, second
    <3>2. /\ Len(ms) = m + 1 /\ ms[m + 1].url = second
          /\ \A p \in 1 .. m : ms[p] = ls[p]
      BY <1>3, <3>1, AddedIs
    <3>3. l = m + 1
      BY <1>3, <3>2, Zenon
    <3>4. /\ l = (IF m = 0 THEN 1 ELSE 2) /\ ms[l].url = second
          /\ m > 0 => ms[1].url = ls[1].url
      BY <1>4, <3>1, <3>2, <3>3
    <3> QED
      BY <2>3, <3>4, Zenon
  <2>4. CASE second # "" /\ q.found # 0
    <3>1. Changed(ls, ms, q.found, second) /\ q.found # 0
      BY <2>4, Zenon DEF Writes, second
    <3>2. /\ Len(ms) = m
          /\ \A p \in 1 .. m :
               ms[p].url = IF ls[p].id = q.found THEN second ELSE ls[p].url
      BY <1>3, <3>1, ChangedIs
    <3>3. l = m
      BY <1>3, <3>2, Zenon
    <3>4. m = 2 /\ ls[2].id = q.found /\ ls[1].id # q.found
      BY <1>4, <1>5, <3>1
    <3>5. /\ l = (IF m = 0 THEN 1 ELSE 2) /\ ms[l].url = second
          /\ m > 0 => ms[1].url = ls[1].url
      BY <3>2, <3>4, <3>3
    <3> QED
      BY <2>4, <3>5, Zenon
  <2> QED
    BY <2>1, <2>2, <2>3, <2>4, Zenon
<1>7. Len(ms) <= 2
  <2>1. l <= 2
    <3>1. CASE second = ""
      <4>1. l = IF m = 0 THEN 0 ELSE 1
        BY <1>6, <3>1, Zenon
      <4> QED
        BY <4>1
    <3>2. CASE second # ""
      <4>1. l = IF m = 0 THEN 1 ELSE 2
        BY <1>6, <3>2, Zenon
      <4> QED
        BY <4>1
    <3> QED
      BY <3>1, <3>2, Zenon
  <2> QED
    BY <1>3, <2>1, Zenon
<1>8. ASSUME ~(q.two /\ first = "") PROVE [p \in DOMAIN ms |-> ms[p].url] = Given(q.t)
  <2>1. PICK g : g = Given(q.t)
    OBVIOUS
  <2>2. g \in Seq(Urls)
    BY <2>1, GivenIs, Zenon
  <2>3. IF first = "" THEN m = 0 ELSE m > 0 /\ ls[1].url = first
    BY <1>2, <1>8, <1>3, FoundIs, Zenon
  <2>4. l = Len(g) /\ \A p \in 1 .. Len(g) : ms[p].url = g[p]
    <3>1. CASE first = "" /\ second = ""
      <4>1. g = <<>> /\ m = 0 /\ l = IF m = 0 THEN 0 ELSE 1
        BY <1>6, <2>1, <2>3, <3>1, GivenIs, Zenon DEF first, second
      <4> QED
        BY <4>1
    <3>2. CASE first # "" /\ second = ""
      <4>1. /\ g = <<first>> /\ m > 0 /\ ls[1].url = first /\ ms[1].url = ls[1].url
            /\ l = IF m = 0 THEN 0 ELSE 1
        BY <1>6, <2>1, <2>3, <3>2, GivenIs, Zenon DEF first, second
      <4>2. Len(g) = 1 /\ g[1] = first
        BY <4>1
      <4>3. l = 1
        BY <1>4, <4>1
      <4> QED
        BY <4>1, <4>2, <4>3
    <3>3. CASE first = "" /\ second # ""
      <4>1. /\ g = <<second>> /\ m = 0 /\ ms[l].url = second
            /\ l = IF m = 0 THEN 1 ELSE 2
        BY <1>6, <2>1, <2>3, <3>3, GivenIs, Zenon DEF first, second
      <4>2. Len(g) = 1 /\ g[1] = second
        BY <4>1
      <4> QED
        BY <4>1, <4>2
    <3>4. CASE first # "" /\ second # ""
      <4>1. /\ Len(g) = 2 /\ g[1] = first /\ g[2] = second /\ m > 0
            /\ ls[1].url = first /\ ms[1].url = ls[1].url
            /\ ms[l].url = second /\ l = IF m = 0 THEN 1 ELSE 2
        BY <1>6, <2>1, <2>3, <3>4, GivenIs, Zenon DEF first, second
      <4> QED
        BY <1>4, <4>1
    <3> QED
      BY <3>1, <3>2, <3>3, <3>4, Zenon
  <2> QED
    BY <1>3, <2>1, <2>2, <2>4, UrlsAre
<1> QED
  BY <1>7, <1>8 DEF Known, first

-----------------------------------------------------------------------------
(* The steps of a save.                                                    *)

(* A destination, or none.                                                 *)
Destination(url) == url = "" \/ url \in Urls

(* A statement on a link.                                                  *)
LEMMA LinkStep ==
  ASSUME CampInv, NEW e \in Editors, edit[e].pc \in SavingLinks, NEW url, Destination(url),
         NEW k \in EditRecords, k.pc \in SavingLinks, k.id = edit[e].id,
         WriteLink(e, url, k), UNCHANGED <<reels, check, count, overlap>>,
         \A ls, ms \in Seq(Links) :
           InOrder(ls) /\ Len(ls) <= 2 /\ Known(edit[e], ls)
           /\ Writes(ls, ms, edit[e].found, url, links)
             => Known(k, ms) /\ Len(ms) <= 2
  PROVE  CampInv'
<1> DEFINE i == edit[e].id
           found == edit[e].found
           has == Live(i) /\ \E p \in DOMAIN row[i].links : row[i].links[p].id = found
           done == [edit EXCEPT ![e] = k]
<1>1. \/ /\ url = "" /\ found = 0 /\ edit' = done /\ UNCHANGED <<row, links>>
      \/ /\ url = "" /\ found # 0 /\ has
         /\ \E p \in DOMAIN row[i].links :
               /\ row[i].links[p].id = found
               /\ row' = [row EXCEPT ![i].links = Without(row[i].links, p)]
         /\ edit' = done /\ UNCHANGED links
      \/ /\ url # "" /\ found # 0 /\ has
         /\ row' = [row EXCEPT ![i].links =
               [p \in DOMAIN row[i].links |->
                  IF row[i].links[p].id = found THEN [row[i].links[p] EXCEPT !.url = url]
                                                ELSE row[i].links[p]]]
         /\ edit' = done /\ UNCHANGED links
      \/ /\ url # "" /\ found = 0 /\ Live(i)
         /\ row' = [row EXCEPT ![i].links = Append(row[i].links, [id |-> links + 1, url |-> url])]
         /\ links' = links + 1 /\ edit' = done
      \/ edit' = [edit EXCEPT ![e] = NoEdit] /\ UNCHANGED <<row, links>>
  BY Zenon DEF WriteLink
<1> HIDE DEF i
<1>2. i = edit[e].id
  BY DEF i
<1>3. i \in Ids /\ edit[e].pc \in {"update"} \union SavingLinks /\ edit[e].found \in Nat
  BY <1>2, EditIs DEF CampInv, SavingLinks
<1>4. links \in Nat /\ count \in Nat /\ row \in [Ids -> {NoRow, Gone} \union CampaignRecords]
  BY DEF CampInv, TypeOK
<1>5. CASE edit' = [edit EXCEPT ![e] = NoEdit] /\ UNCHANGED <<row, links>>
  <2>1. NoEdit \in EditRecords /\ NoEdit.pc = "idle"
    BY DEF EditRecords, NoEdit
  <2> QED
    BY <1>4, <1>5, <2>1, RestStep
<1>6. CASE ~Live(i) /\ edit' = [edit EXCEPT ![e] = k] /\ UNCHANGED <<row, links>>
  <2>1. links' \in Nat /\ links <= links' /\ count' \in Nat
    BY <1>4, <1>6
  <2>2. k.pc \in {"idle"} \union SavingLinks
    OBVIOUS
  <2> QED
    BY <1>3, <1>6, <2>1, <2>2, <1>2, SaveStep, Zenon
<1>7. Live(i) =>
        /\ row[i] \in CampaignRecords /\ row[i].links \in Seq(Links) /\ InOrder(row[i].links)
        /\ IdsUpTo(links, row[i].links)
        /\ ~overlap[i] => /\ Len(row[i].links) <= 2
                          /\ row[i].active => row[i].activated = row[i].on
                          /\ Known(edit[e], row[i].links)
  <2> SUFFICES ASSUME Live(i) PROVE
        /\ row[i] \in CampaignRecords /\ row[i].links \in Seq(Links) /\ InOrder(row[i].links)
        /\ IdsUpTo(links, row[i].links)
        /\ ~overlap[i] => /\ Len(row[i].links) <= 2
                          /\ row[i].active => row[i].activated = row[i].on
                          /\ Known(edit[e], row[i].links)
    OBVIOUS
  <2>1. row[i] \in CampaignRecords /\ row[i].links \in Seq(Links)
    BY <1>3, RowIs DEF CampInv
  <2>2. PICK ls : ls = row[i].links
    OBVIOUS
  <2>3. DOMAIN ls = 1 .. Len(ls) /\ \A p \in 1 .. Len(ls) : ls[p].id \in Nat
    BY <2>1, <2>2, LinksAre
  <2>4. \A p \in DOMAIN ls : ls[p].id <= links
    BY <1>3, <2>2 DEF CampInv, TypeOK
  <2>5. IdsUpTo(links, row[i].links)
    BY <2>2, <2>3, <2>4 DEF IdsUpTo
  <2> QED
    BY <1>3, <1>2, <2>1, <2>5 DEF CampInv, RowsInOrder, SavesInOrder, SavingLinks
<1>8. ASSUME Live(i), edit' = [edit EXCEPT ![e] = k], NEW ms \in Seq(Links), InOrder(ms),
             Writes(row[i].links, ms, edit[e].found, url, links),
             row' = [row EXCEPT ![i].links = ms],
             links' \in Nat, links <= links', IdsUpTo(links', ms)
      PROVE  CampInv'
  <2>1. PICK r : r = [row[i] EXCEPT !.links = ms]
    OBVIOUS
  <2>2. /\ r \in CampaignRecords /\ r.since = row[i].since /\ r.links = ms
        /\ r.active = row[i].active /\ r.activated = row[i].activated /\ r.on = row[i].on
    BY <1>7, <1>8, <2>1 DEF CampaignRecords
  <2>3. row' = [row EXCEPT ![i] = r]
    BY <1>3, <1>4, <1>8, <2>1
  <2>4. ~overlap[i] => Known(k, ms) /\ Len(ms) <= 2
    BY <1>7, <1>8, Zenon
  <2>5. \A p \in DOMAIN r.links : r.links[p].id <= links'
    BY <1>8, <2>2 DEF IdsUpTo
  <2>6. /\ InOrder(r.links)
        /\ ~overlap[i] => /\ Len(r.links) <= 2 /\ (r.active => r.activated = r.on)
                          /\ Known(k, r.links)
    BY <1>7, <1>8, <2>2, <2>4
  <2> QED
    BY <1>3, <1>4, <1>8, <2>2, <2>3, <2>5, <2>6, <1>2, SaveStep
<1>9. ASSUME Live(i), edit' = [edit EXCEPT ![e] = k], NEW ms,
             Writes(row[i].links, ms, edit[e].found, url, links),
             row' = [row EXCEPT ![i].links = ms],
             \/ links' = links /\ Rewrote(row[i].links, ms, edit[e].found, url)
             \/ links' = links + 1 /\ Added(row[i].links, ms, edit[e].found, url, links)
      PROVE  CampInv'
  <2>1. CASE links' = links /\ Rewrote(row[i].links, ms, edit[e].found, url)
    <3>1. ms \in Seq(Links) /\ InOrder(ms) /\ IdsUpTo(links, ms)
      BY <1>4, <1>7, <1>9, <2>1, RewroteIs, Zenon
    <3>2. links' \in Nat /\ links <= links'
      BY <1>4, <2>1
    <3>3. IdsUpTo(links', ms)
      BY <2>1, <3>1, Zenon
    <3> QED
      BY <1>8, <1>9, <3>1, <3>2, <3>3, Zenon
  <2>2. CASE links' = links + 1 /\ Added(row[i].links, ms, edit[e].found, url, links)
    <3>1. ms \in Seq(Links) /\ InOrder(ms) /\ IdsUpTo(links + 1, ms)
      BY <1>4, <1>7, <1>9, <2>2, OrderOfAdded, Zenon
    <3>2. links' \in Nat /\ links <= links'
      BY <1>4, <2>2
    <3>3. IdsUpTo(links', ms)
      BY <2>2, <3>1, Zenon
    <3> QED
      BY <1>8, <1>9, <3>1, <3>2, <3>3, Zenon
  <2> QED
    BY <1>9, <2>1, <2>2
<1>10. CASE url = "" /\ found = 0 /\ edit' = done /\ UNCHANGED <<row, links>>
  <2>1. CASE ~Live(i)
    BY <1>6, <1>10, <2>1
  <2>2. CASE Live(i)
    <3>1. row' = [row EXCEPT ![i].links = row[i].links]
      <4>1. row[i] = [row[i] EXCEPT !.links = row[i].links]
        BY <1>7, <2>2 DEF CampaignRecords
      <4>2. row = [row EXCEPT ![i] = row[i]]
        BY <1>3, <1>4
      <4> QED
        BY <1>10, <4>1, <4>2
    <3>2. /\ Writes(row[i].links, row[i].links, found, url, links)
          /\ Rewrote(row[i].links, row[i].links, found, url)
      BY <1>10, Zenon DEF Writes, Rewrote
    <3> QED
      BY <1>9, <1>10, <2>2, <3>1, <3>2
  <2> QED
    BY <2>1, <2>2
<1>11. ASSUME url = "", found # 0, has, NEW p \in DOMAIN row[i].links,
              row[i].links[p].id = found, edit' = done, links' = links,
              row' = [row EXCEPT ![i].links = Without(row[i].links, p)]
       PROVE  CampInv'
  <2>1. PICK ms : ms = Without(row[i].links, p)
    OBVIOUS
  <2>2. Removed(row[i].links, ms, found)
    BY <1>11, <2>1, Zenon DEF Removed
  <2>3. /\ Writes(row[i].links, ms, found, url, links)
        /\ Rewrote(row[i].links, ms, found, url)
    BY <1>11, <2>2, Zenon DEF Writes, Rewrote
  <2>4. row' = [row EXCEPT ![i].links = ms] /\ Live(i)
    BY <1>11, <2>1
  <2> QED
    BY <1>9, <1>11, <2>3, <2>4
<1>12. ASSUME url # "", found # 0, has, edit' = done, links' = links,
              row' = [row EXCEPT ![i].links =
               [p \in DOMAIN row[i].links |->
                  IF row[i].links[p].id = found THEN [row[i].links[p] EXCEPT !.url = url]
                                                ELSE row[i].links[p]]]
       PROVE  CampInv'
  <2>1. PICK ms : ms = [p \in DOMAIN row[i].links |->
                  IF row[i].links[p].id = found THEN [row[i].links[p] EXCEPT !.url = url]
                                                ELSE row[i].links[p]]
    OBVIOUS
  <2>2. Changed(row[i].links, ms, found, url)
    BY <1>12, <2>1, Zenon DEF Changed, Destination
  <2>3. /\ Writes(row[i].links, ms, found, url, links)
        /\ Rewrote(row[i].links, ms, found, url)
    BY <1>12, <2>2, Zenon DEF Writes, Rewrote
  <2>4. row' = [row EXCEPT ![i].links = ms] /\ Live(i)
    BY <1>12, <2>1
  <2> QED
    BY <1>9, <1>12, <2>3, <2>4
<1>13. ASSUME url # "", found = 0, Live(i), edit' = done, links' = links + 1,
              row' = [row EXCEPT ![i].links =
                         Append(row[i].links, [id |-> links + 1, url |-> url])]
       PROVE  CampInv'
  <2>1. PICK ms : ms = Append(row[i].links, [id |-> links + 1, url |-> url])
    OBVIOUS
  <2>2. Added(row[i].links, ms, found, url, links)
    BY <1>13, <2>1, Zenon DEF Added, Destination
  <2>3. Writes(row[i].links, ms, found, url, links)
    BY <1>13, <2>2, Zenon DEF Writes
  <2>4. row' = [row EXCEPT ![i].links = ms]
    BY <1>13, <2>1
  <2> QED
    BY <1>9, <1>13, <2>2, <2>3, <2>4
<1> QED
  BY <1>5, <1>1, <1>10, <1>11, <1>12, <1>13, Zenon

(* A save reads its campaign: only what it knows changes.                  *)
LEMMA FoundStep ==
  ASSUME CampInv, NEW e \in Editors, edit[e].pc \in SavingLinks, NEW i, i = edit[e].id,
         NEW k \in EditRecords, k.pc \in SavingLinks, k.id = i, edit' = [edit EXCEPT ![e] = k],
         Live(i) /\ ~overlap[i] /\ Known(edit[e], row[i].links) => Known(k, row[i].links),
         UNCHANGED <<reels, row, links, check, count, overlap>>
  PROVE  CampInv'
<1>1. /\ i \in Ids /\ links \in Nat /\ count \in Nat
      /\ row \in [Ids -> {NoRow, Gone} \union CampaignRecords]
  BY EditIs DEF CampInv, TypeOK, SavingLinks
<1>2. PICK r : r = row[i]
  OBVIOUS
<1>3. row' = [row EXCEPT ![i] = r]
  BY <1>1, <1>2
<1>4. Live(i) =>
        /\ r \in CampaignRecords /\ r.since = row[i].since /\ InOrder(r.links)
        /\ \A n \in DOMAIN r.links : r.links[n].id <= links
        /\ ~overlap[i] => /\ Len(r.links) <= 2 /\ (r.active => r.activated = r.on)
                          /\ Known(k, r.links)
  <2> SUFFICES ASSUME Live(i)
               PROVE  /\ r \in CampaignRecords /\ r.since = row[i].since /\ InOrder(r.links)
                      /\ \A n \in DOMAIN r.links : r.links[n].id <= links
                      /\ ~overlap[i] => /\ Len(r.links) <= 2 /\ (r.active => r.activated = r.on)
                                        /\ Known(k, r.links)
    OBVIOUS
  <2>1. r \in CampaignRecords /\ r.since = row[i].since
    BY <1>1, <1>2, RowIs DEF CampInv
  <2>2. /\ InOrder(r.links) /\ \A n \in DOMAIN r.links : r.links[n].id <= links
        /\ ~overlap[i] => Len(r.links) <= 2 /\ (r.active => r.activated = r.on)
    BY <1>1, <1>2 DEF CampInv, TypeOK, RowsInOrder
  <2>3. ~overlap[i] => Known(edit[e], row[i].links)
    BY <1>1 DEF CampInv, SavesInOrder, SavingLinks
  <2> QED
    BY <1>2, <2>1, <2>2, <2>3, Zenon
<1>5. links' \in Nat /\ links <= links' /\ count' \in Nat
  BY <1>1
<1>6. edit[e].pc \in {"update"} \union SavingLinks /\ k.pc \in {"idle"} \union SavingLinks
  OBVIOUS
<1> QED
  BY <1>1, <1>3, <1>4, <1>5, <1>6, SaveStep

LEMMA FindSteps ==
  ASSUME CampInv, NEW e \in Editors, FindPrimary(e) \/ FindSecondary(e)
  PROVE  CampInv'
<1>1. PICK q : q = edit[e]
  OBVIOUS
<1>2. /\ q.pc \in {"find1", "find2"} /\ q.pc \in SavingLinks
      /\ q \in [pc : SavingLinks, id : Ids, t : Targets, found : Nat, two : BOOLEAN]
  <2>1. q.pc \in {"find1", "find2"} /\ q.pc \in SavingLinks
    BY <1>1 DEF FindPrimary, FindSecondary, SavingLinks
  <2> QED
    BY <1>1, <2>1, EditIs DEF CampInv
<1>3. PICK i : i = q.id
  OBVIOUS
<1>4. i \in Ids /\ (Live(i) => row[i].links \in Seq(Links))
  BY <1>2, <1>3, RowIs DEF CampInv
<1>5. CASE FindPrimary(e)
  <2>1. PICK n : n = IF Live(i) THEN FirstId(row[i].links) ELSE 0
    OBVIOUS
  <2>2. n \in Nat
    BY <1>4, <2>1, FoundIs
  <2>3. PICK k : k = [q EXCEPT !.pc = "write1", !.found = n]
    OBVIOUS
  <2>4. /\ k \in [pc : SavingLinks, id : Ids, t : Targets, found : Nat, two : BOOLEAN]
        /\ k.pc = "write1" /\ k.id = i /\ k.found = n /\ k.two = q.two
    BY <1>2, <1>3, <2>2, <2>3 DEF SavingLinks
  <2>5. edit' = [edit EXCEPT ![e] = k] /\ UNCHANGED <<reels, row, links, check, count, overlap>>
    BY <1>1, <1>3, <1>5, <2>1, <2>3 DEF FindPrimary, Primary, FirstId
  <2>6. q.pc = "find1"
    BY <1>1, <1>5 DEF FindPrimary
  <2>7. Live(i) /\ Known(q, row[i].links) => Known(k, row[i].links)
    BY <2>1, <2>4, <2>6 DEF Known
  <2>8. k \in EditRecords /\ k.pc \in SavingLinks
    BY <2>4 DEF EditRecords, SavingLinks
  <2> QED
    BY <1>1, <1>2, <1>3, <2>4, <2>5, <2>7, <2>8, FoundStep, Zenon
<1>6. CASE FindSecondary(e)
  <2>1. PICK n : n = IF Live(i) THEN SecondId(row[i].links) ELSE 0
    OBVIOUS
  <2>2. n \in Nat
    BY <1>4, <2>1, FoundIs
  <2>3. PICK k : k = [q EXCEPT !.pc = "write2", !.found = n]
    OBVIOUS
  <2>4. /\ k \in [pc : SavingLinks, id : Ids, t : Targets, found : Nat, two : BOOLEAN]
        /\ k.pc = "write2" /\ k.id = i /\ k.found = n /\ k.two = q.two /\ k.t = q.t
    BY <1>2, <1>3, <2>2, <2>3 DEF SavingLinks
  <2>5. edit' = [edit EXCEPT ![e] = k] /\ UNCHANGED <<reels, row, links, check, count, overlap>>
    BY <1>1, <1>3, <1>6, <2>1, <2>3 DEF FindSecondary, Secondary, SecondId
  <2>6. q.pc = "find2"
    BY <1>1, <1>6 DEF FindSecondary
  <2>7. Live(i) /\ Known(q, row[i].links) => Known(k, row[i].links)
    BY <2>1, <2>4, <2>6 DEF Known
  <2>8. k \in EditRecords /\ k.pc \in SavingLinks
    BY <2>4 DEF EditRecords, SavingLinks
  <2> QED
    BY <1>1, <1>2, <1>3, <2>4, <2>5, <2>7, <2>8, FoundStep, Zenon
<1> QED
  BY <1>5, <1>6

LEMMA WriteSteps ==
  ASSUME CampInv, NEW e \in Editors, WritePrimary(e) \/ WriteSecondary(e)
  PROVE  CampInv'
<1>1. PICK q : q = edit[e]
  OBVIOUS
<1>2. /\ q.pc \in {"write1", "write2"} /\ q.pc \in SavingLinks /\ q.t \in Targets
      /\ q \in [pc : SavingLinks, id : Ids, t : Targets, found : Nat, two : BOOLEAN]
      /\ links \in Nat
  <2>1. q.pc \in {"write1", "write2"} /\ q.pc \in SavingLinks
    BY <1>1 DEF WritePrimary, WriteSecondary, SavingLinks
  <2> QED
    BY <1>1, <2>1, EditIs DEF CampInv, TypeOK
<1>3. Destination(q.t.first) /\ Destination(q.t.second)
  BY <1>2 DEF Targets, Destination
<1>4. CASE WritePrimary(e)
  <2>1. PICK k : k = [q EXCEPT !.pc = "find2"]
    OBVIOUS
  <2>2. /\ k \in [pc : SavingLinks, id : Ids, t : Targets, found : Nat, two : BOOLEAN]
        /\ k.pc = "find2" /\ k.id = q.id /\ k.t = q.t /\ k.two = q.two
    BY <1>2, <2>1 DEF SavingLinks
  <2>3. k \in EditRecords /\ k.pc \in SavingLinks
    BY <2>2 DEF EditRecords, SavingLinks
  <2>4. q.pc = "write1" /\ WriteLink(e, q.t.first, k) /\ UNCHANGED <<reels, check, count, overlap>>
    BY <1>1, <1>4, <2>1, Zenon DEF WritePrimary
  <2>5. \A ls, ms \in Seq(Links) :
           InOrder(ls) /\ Len(ls) <= 2 /\ Known(q, ls)
           /\ Writes(ls, ms, q.found, q.t.first, links) => Known(k, ms) /\ Len(ms) <= 2
    BY <1>2, <2>2, <2>4, PrimaryKnown
  <2> QED
    BY <1>1, <1>2, <1>3, <2>2, <2>3, <2>4, <2>5, LinkStep, Zenon
<1>5. CASE WriteSecondary(e)
  <2>1. PICK k : k = [q EXCEPT !.pc = "saved"]
    OBVIOUS
  <2>2. /\ k \in [pc : SavingLinks, id : Ids, t : Targets, found : Nat, two : BOOLEAN]
        /\ k.pc = "saved" /\ k.id = q.id /\ k.t = q.t /\ k.two = q.two
    BY <1>2, <2>1 DEF SavingLinks
  <2>3. k \in EditRecords /\ k.pc \in SavingLinks
    BY <2>2 DEF EditRecords, SavingLinks
  <2>4. q.pc = "write2" /\ WriteLink(e, q.t.second, k)
        /\ UNCHANGED <<reels, check, count, overlap>>
    BY <1>1, <1>5, <2>1, Zenon DEF WriteSecondary
  <2>5. \A ls, ms \in Seq(Links) :
           InOrder(ls) /\ Len(ls) <= 2 /\ Known(q, ls)
           /\ Writes(ls, ms, q.found, q.t.second, links) => Known(k, ms) /\ Len(ms) <= 2
    BY <1>2, <2>2, <2>4, SecondaryKnown
  <2> QED
    BY <1>1, <1>2, <1>3, <2>2, <2>3, <2>4, <2>5, LinkStep, Zenon
<1> QED
  BY <1>4, <1>5

(* The row is written.                                                     *)
LEMMA UpdateStep ==
  ASSUME CampInv, NEW e \in Editors, Update(e)
  PROVE  CampInv'
<1>1. PICK q, i : q = edit[e] /\ i = q.id
  OBVIOUS
<1>2. /\ q.pc = "update" /\ i \in Ids /\ q.form \in Forms /\ q.active \in BOOLEAN
      /\ q.was \in BOOLEAN
  BY <1>1, EditIs DEF CampInv, Update
<1>3. /\ links \in Nat /\ count \in Nat /\ reels \in Nat
      /\ row \in [Ids -> {NoRow, Gone} \union CampaignRecords]
  BY CampaignAssumption DEF CampInv, TypeOK
<1>4. PICK a : a = Activated(e, i)
  OBVIOUS
<1>5. PICK o : o = IF q.active /\ ~row[i].active THEN reels ELSE row[i].on
  OBVIOUS
<1>6. PICK on : on = [row[i] EXCEPT !.active = q.active, !.activated = a, !.on = o]
  OBVIOUS
<1>7. \/ /\ Live(i) /\ q.form.whole
         /\ row' = [row EXCEPT ![i] =
                      [on EXCEPT !.any = q.form.trigger.any, !.next = q.form.trigger.next,
                                 !.post = Carried(q.form.trigger)]]
         /\ edit' = [edit EXCEPT ![e] = [pc |-> "find1", id |-> i, t |-> q.form.t,
                                         found |-> 0, two |-> Len(row[i].links) > 1]]
      \/ /\ Live(i) /\ row' = [row EXCEPT ![i] = on] /\ edit' = [edit EXCEPT ![e] = NoEdit]
      \/ ~Live(i) /\ edit' = [edit EXCEPT ![e] = NoEdit] /\ UNCHANGED row
  BY <1>1, <1>4, <1>5, <1>6 DEF Update
<1>8. UNCHANGED <<reels, links, check, count, overlap>>
  BY DEF Update
<1>9. NoEdit \in EditRecords /\ NoEdit.pc = "idle"
  BY DEF EditRecords, NoEdit
<1>10. Live(i) =>
         /\ on \in CampaignRecords /\ on.links = row[i].links /\ on.since = row[i].since
         /\ on.active = q.active /\ on.activated = a /\ on.on = o
         /\ InOrder(on.links) /\ \A n \in DOMAIN on.links : on.links[n].id <= links
         /\ ~overlap[i] => Len(on.links) <= 2 /\ (q.active => a = o)
  <2> SUFFICES ASSUME Live(i)
               PROVE  /\ on \in CampaignRecords /\ on.links = row[i].links
                      /\ on.since = row[i].since
                      /\ on.active = q.active /\ on.activated = a /\ on.on = o
                      /\ InOrder(on.links) /\ \A n \in DOMAIN on.links : on.links[n].id <= links
                      /\ ~overlap[i] => Len(on.links) <= 2 /\ (q.active => a = o)
    OBVIOUS
  <2>1. row[i] \in CampaignRecords
    BY <1>2, RowIs DEF CampInv
  <2>2. a \in {Never} \union Nat /\ o \in {Never} \union Nat
    BY <1>3, <1>4, <1>5, <2>1 DEF CampaignRecords, Activated
  <2>3. /\ on \in CampaignRecords /\ on.links = row[i].links /\ on.since = row[i].since
        /\ on.active = q.active /\ on.activated = a /\ on.on = o
    BY <1>2, <1>6, <2>1, <2>2 DEF CampaignRecords
  <2>4. InOrder(on.links) /\ \A n \in DOMAIN on.links : on.links[n].id <= links
    BY <1>2, <2>3 DEF CampInv, TypeOK, RowsInOrder
  <2>5. ASSUME ~overlap[i] PROVE Len(on.links) <= 2 /\ (q.active => a = o)
    <3>1. Len(on.links) <= 2 /\ (row[i].active => row[i].activated = row[i].on)
      BY <1>2, <2>3, <2>5 DEF CampInv, RowsInOrder
    <3>2. q.was = row[i].active
      BY <1>1, <1>2, <2>5 DEF CampInv, SavesInOrder
    <3>3. q.active => a = o
      BY <1>1, <1>4, <1>5, <3>1, <3>2 DEF Activated
    <3> QED
      BY <3>1, <3>3
  <2> QED
    BY <2>3, <2>4, <2>5
<1>11. CASE ~Live(i) /\ edit' = [edit EXCEPT ![e] = NoEdit] /\ UNCHANGED row
  BY <1>3, <1>8, <1>9, <1>11, RestStep
<1>12. CASE Live(i) /\ row' = [row EXCEPT ![i] = on] /\ edit' = [edit EXCEPT ![e] = NoEdit]
  <2>1. /\ edit[e].pc \in {"update"} \union SavingLinks /\ i = edit[e].id
        /\ NoEdit.pc \in {"idle"} \union SavingLinks /\ NoEdit.pc \notin SavingLinks
    BY <1>1, <1>2, <1>9 DEF SavingLinks
  <2>2. links' \in Nat /\ links <= links' /\ count' \in Nat
    BY <1>3, <1>8
  <2>3. \A n \in DOMAIN on.links : on.links[n].id <= links'
    BY <1>8, <1>10, <1>12
  <2> QED
    BY <1>8, <1>9, <1>10, <1>12, <2>1, <2>2, <2>3, SaveStep
<1>13. CASE /\ Live(i) /\ q.form.whole
            /\ row' = [row EXCEPT ![i] =
                         [on EXCEPT !.any = q.form.trigger.any, !.next = q.form.trigger.next,
                                    !.post = Carried(q.form.trigger)]]
            /\ edit' = [edit EXCEPT ![e] = [pc |-> "find1", id |-> i, t |-> q.form.t,
                                            found |-> 0, two |-> Len(row[i].links) > 1]]
  <2>1. q.form.trigger \in Scopes /\ q.form.t \in Targets
    BY <1>2, <1>13 DEF Forms
  <2>2. PICK s, p : s = q.form.trigger /\ p = Carried(s)
    OBVIOUS
  <2>3. s.any \in BOOLEAN /\ s.next \in BOOLEAN /\ p \in Posts \union Reels \union {NoPost}
    BY <2>1, <2>2 DEF Scopes, Carried
  <2>4. PICK r : r = [on EXCEPT !.any = s.any, !.next = s.next, !.post = p]
    OBVIOUS
  <2>5. /\ r \in CampaignRecords /\ r.links = on.links /\ r.since = on.since
        /\ r.active = on.active /\ r.activated = on.activated /\ r.on = on.on
    BY <1>10, <1>13, <2>3, <2>4 DEF CampaignRecords
  <2>6. PICK k : k = [pc |-> "find1", id |-> i, t |-> q.form.t, found |-> 0,
                      two |-> Len(row[i].links) > 1]
    OBVIOUS
  <2>7. /\ k \in [pc : SavingLinks, id : Ids, t : Targets, found : Nat, two : BOOLEAN]
        /\ k.pc = "find1" /\ k.id = i /\ k.two = (Len(row[i].links) > 1)
    BY <1>2, <2>1, <2>6 DEF SavingLinks
  <2>8. k \in EditRecords /\ k.pc \in SavingLinks
    BY <2>7 DEF EditRecords, SavingLinks
  <2>9. Known(k, r.links)
    BY <1>10, <1>13, <2>5, <2>7 DEF Known
  <2>10. row' = [row EXCEPT ![i] = r] /\ edit' = [edit EXCEPT ![e] = k]
    BY <1>13, <2>2, <2>4, <2>6
  <2>11. /\ r.since = row[i].since /\ InOrder(r.links)
         /\ \A n \in DOMAIN r.links : r.links[n].id <= links'
         /\ ~overlap[i] => Len(r.links) <= 2 /\ (r.active => r.activated = r.on)
    BY <1>8, <1>10, <1>13, <2>5
  <2>12. /\ edit[e].pc \in {"update"} \union SavingLinks /\ i = edit[e].id
         /\ k.pc \in {"idle"} \union SavingLinks
    BY <1>1, <1>2, <2>8
  <2>13. links' \in Nat /\ links <= links' /\ count' \in Nat
    BY <1>3, <1>8
  <2> QED
    BY <1>8, <1>13, <2>5, <2>7, <2>8, <2>9, <2>10, <2>11, <2>12, <2>13, SaveStep
<1> QED
  BY <1>7, <1>11, <1>12, <1>13

(* The steps of a save, and of its form.                                   *)
LEMMA SaveSteps ==
  ASSUME CampInv, NEW e \in Editors, Save(e)
  PROVE  CampInv'
<1>1. count \in Nat /\ NoEdit \in EditRecords /\ NoEdit.pc = "idle"
  BY DEF CampInv, TypeOK, EditRecords, NoEdit
<1>2. CASE Submit(e)
  <2>1. PICK i : i = edit[e].id
    OBVIOUS
  <2>2. edit[e].pc = "form" /\ i \in Ids /\ edit[e].trigger \in Scopes
    BY <1>2, <2>1, EditIs DEF CampInv, Submit
  <2>3. CASE edit' = [edit EXCEPT ![e] = NoEdit] /\ UNCHANGED overlap
    <3>1. UNCHANGED <<reels, row, links, check, count, overlap>>
      BY <1>2, <2>3 DEF Submit
    <3> QED
      BY <1>1, <2>3, <3>1, RestStep
  <2>4. CASE Live(i) /\ \E trigger \in Triggers \union {edit[e].trigger}, t \in Targets,
                           active \in BOOLEAN :
               Request(e, i, [whole |-> TRUE, trigger |-> trigger, t |-> t], active)
    <3>1. PICK trigger \in Triggers \union {edit[e].trigger}, t \in Targets, active \in BOOLEAN :
             Request(e, i, [whole |-> TRUE, trigger |-> trigger, t |-> t], active)
      BY <2>4
    <3>2. trigger \in Scopes
      BY <2>2, TriggersAre
    <3>3. PICK form : form = [whole |-> TRUE, trigger |-> trigger, t |-> t]
      OBVIOUS
    <3>4. form \in Forms
      BY <3>2, <3>3 DEF Forms
    <3>5. UNCHANGED <<reels, row, links, check, count>>
      BY <1>2 DEF Submit
    <3> QED
      BY <1>1, <2>2, <2>4, <3>1, <3>3, <3>4, <3>5, RequestStep
  <2> QED
    BY <1>2, <2>1, <2>3, <2>4 DEF Submit
<1>3. CASE \E i \in Ids : Open(e, i)
  <2>1. PICK i \in Ids : Open(e, i)
    BY <1>3
  <2>2. row[i] \in CampaignRecords /\ row[i] # NoRow
    BY <2>1, RowIs DEF CampInv, Open
  <2>3. PICK trigger : trigger = [any |-> row[i].any, next |-> row[i].next, post |-> row[i].post]
    OBVIOUS
  <2>4. trigger \in Scopes
    BY <2>2, <2>3 DEF Scopes, CampaignRecords
  <2>5. PICK k : k = [pc |-> "form", id |-> i, trigger |-> trigger]
    OBVIOUS
  <2>6. k \in EditRecords /\ k.pc = "form" /\ k.id = i
    BY <2>4, <2>5 DEF EditRecords
  <2>7. edit' = [edit EXCEPT ![e] = k] /\ count' \in Nat
    BY <1>1, <2>1, <2>3, <2>5 DEF Open
  <2> QED
    BY <2>1, <2>2, <2>6, <2>7, RestStep DEF Open
<1>4. CASE \E i \in Ids : Switch(e, i)
  <2>1. PICK i \in Ids, active \in BOOLEAN :
           Switch(e, i) /\ Request(e, i, [whole |-> FALSE], active)
    BY <1>4 DEF Switch
  <2>2. PICK form : form = [whole |-> FALSE]
    OBVIOUS
  <2>3. form \in Forms
    BY <2>2 DEF Forms
  <2>4. edit[e].pc = "idle" /\ Live(i) /\ count' \in Nat
    BY <1>1, <2>1 DEF Switch
  <2>5. UNCHANGED <<reels, row, links, check>>
    BY <2>1 DEF Switch
  <2> QED
    BY <2>1, <2>2, <2>3, <2>4, <2>5, RequestStep
<1>5. CASE Leave(e)
  <2>1. /\ edit' = [edit EXCEPT ![e] = NoEdit]
        /\ UNCHANGED <<reels, row, links, check, count, overlap>>
    BY <1>5 DEF Leave
  <2> QED
    BY <1>1, <2>1, RestStep
<1> QED
  BY <1>2, <1>3, <1>4, <1>5, UpdateStep, FindSteps, WriteSteps DEF Save

(* Every step keeps the invariant.                                         *)
LEMMA CampStep == CampInv /\ [Next]_vars => CampInv'
<1> SUFFICES ASSUME CampInv, [Next]_vars PROVE CampInv'
  OBVIOUS
<1>1. CASE UNCHANGED vars
  <2> USE <1>1 DEF vars
  <2>1. TypeOK'
    BY DEF CampInv, TypeOK, Live
  <2>2. RowsInOrder' /\ ChecksInOrder'
    BY DEF CampInv, RowsInOrder, ChecksInOrder, Live
  <2>3. \A j : Saving(j)' = Saving(j)
    BY DEF Saving
  <2>4. SavesInOrder'
    BY <2>3 DEF CampInv, SavesInOrder, Live
  <2> QED
    BY <2>1, <2>2, <2>4 DEF CampInv
<1>2. CASE \E i \in Ids : Create(i) \/ Import(i) \/ Duplicate(i) \/ Delete(i)
  BY <1>2, CreateStep, DuplicateStep, DeleteStep
<1> QED
  BY <1>1, <1>2, PublishStep, CheckSteps, SaveSteps DEF Next

LEMMA CampSafe == Spec => []CampInv
<1>1. Spec => Init /\ [][Next]_vars
  BY DEF Spec
<1> QED
  BY <1>1, CampInit, CampStep, PTL

(* The type invariant of Campaigns holds for any posts, destinations and   *)
(* requests: at any time a request is at one of the positions of the       *)
(* routes, and no link has the number of one not yet created.              *)
THEOREM CampaignsTyped == Spec => []TypeOK
<1>1. CampInv => TypeOK
  BY DEF CampInv
<1> QED
  BY <1>1, CampSafe, PTL

(* A save does what its form asked for, of the switch and of the links:    *)
(* an active campaign answers comments from the moment it was last         *)
(* switched on, and a saved form's destinations are the campaign's links,  *)
(* unless two saves of it overlapped.                                      *)
THEOREM SavesAreAsAsked == Spec => []SavedAsAsked
<1>1. CampInv => ActivatedInTime
  BY DEF CampInv, RowsInOrder, ActivatedInTime
<1>2. CampInv => LinksAsAsked
  <2> SUFFICES ASSUME CampInv, NEW e \in Editors, edit[e].pc = "saved", Live(edit[e].id),
                      ~overlap[edit[e].id], ~(edit[e].two /\ edit[e].t.first = "")
               PROVE  UrlsOf(edit[e].id) = Given(edit[e].t)
    BY DEF LinksAsAsked
  <2>1. Known(edit[e], row[edit[e].id].links)
    BY DEF CampInv, SavesInOrder, SavingLinks
  <2> QED
    BY <2>1 DEF Known, UrlsOf
<1> QED
  BY <1>1, <1>2, CampSafe, PTL DEF SavedAsAsked

(* A save that changes a row changes the position of its request.          *)
LEMMA SavesMoveOn ==
  ASSUME CampInv, NEW e \in Editors, Save(e), UNCHANGED edit
  PROVE  row' = row
<1>1. \A k : edit' = [edit EXCEPT ![e] = k] => k = edit[e]
  BY DEF CampInv, TypeOK
<1>2. NoEdit.pc = "idle"
  BY DEF NoEdit
<1>3. ASSUME NEW url, NEW next, next # edit[e], edit[e] # NoEdit PROVE ~WriteLink(e, url, next)
  BY <1>1, <1>3, Zenon DEF WriteLink
<1>4. CASE WritePrimary(e) \/ WriteSecondary(e)
  <2>1. edit[e].pc \in {"write1", "write2"}
    BY <1>4 DEF WritePrimary, WriteSecondary
  <2>2. edit[e] \in [pc : SavingLinks, id : Ids, t : Targets, found : Nat, two : BOOLEAN]
    BY <2>1, EditIs DEF CampInv, SavingLinks
  <2>3. [edit[e] EXCEPT !.pc = "find2"].pc = "find2" /\ [edit[e] EXCEPT !.pc = "saved"].pc = "saved"
    BY <2>2
  <2>4. /\ [edit[e] EXCEPT !.pc = "find2"] # edit[e] /\ [edit[e] EXCEPT !.pc = "saved"] # edit[e]
        /\ edit[e] # NoEdit
    BY <1>2, <2>1, <2>3
  <2> QED
    BY <1>3, <1>4, <2>4, Zenon DEF WritePrimary, WriteSecondary
<1>5. CASE Update(e)
  <2>1. edit[e].pc = "update"
    BY <1>5 DEF Update
  <2>2. CASE edit' = [edit EXCEPT ![e] = NoEdit]
    BY <1>1, <1>2, <2>1, <2>2
  <2>3. ASSUME NEW i, NEW t, NEW b,
               edit' = [edit EXCEPT ![e] = [pc |-> "find1", id |-> i, t |-> t, found |-> 0,
                                            two |-> b]]
        PROVE  FALSE
    <3>1. PICK k : k = [pc |-> "find1", id |-> i, t |-> t, found |-> 0, two |-> b]
      OBVIOUS
    <3>2. k.pc = "find1" /\ edit' = [edit EXCEPT ![e] = k]
      BY <2>3, <3>1
    <3> QED
      BY <1>1, <2>1, <3>2
  <2>4. \/ edit' = [edit EXCEPT ![e] = NoEdit]
        \/ edit' = [edit EXCEPT ![e] = [pc |-> "find1", id |-> edit[e].id, t |-> edit[e].form.t,
                                        found |-> 0, two |-> Len(row[edit[e].id].links) > 1]]
    BY <1>5, Zenon DEF Update
  <2> QED
    BY <2>2, <2>3, <2>4, Zenon
<1> QED
  BY <1>4, <1>5 DEF Save, Submit, FindPrimary, FindSecondary, Leave, Open, Switch

(* A reel the check binds is the first after the campaign's creation.      *)
LEMMA BoundIsNext ==
  ASSUME CampInv, [Next]_vars, NEW i \in Ids, Waits(i), Live(i)', row'[i].post \in Reels,
         row'[i].post # row[i].post, UNCHANGED edit
  PROVE  row'[i].post = row[i].since + 1 \/ reels - ListMax > row[i].since
<1>1. row[i] \in CampaignRecords /\ row[i] # NoRow /\ row[i].since \in Nat /\ row[i].st = "live"
  BY RowIs DEF CampInv, Waits, Live
<1>2. row \in [Ids -> {NoRow, Gone} \union CampaignRecords]
  BY DEF CampInv, TypeOK
<1>3. row'[i] # row[i] /\ row'[i].st = "live"
  BY DEF Live
<1>4. PICK j \in Ids : Bind(j)
  <2>1. ASSUME NEW j \in Ids, Create(j) \/ Import(j) \/ Duplicate(j) PROVE FALSE
    <3>1. row[j] = NoRow
      BY <2>1 DEF Create, Import, Duplicate, Fresh
    <3>2. PICK r : row' = [row EXCEPT ![j] = r]
      BY <2>1, Zenon DEF Create, Import, Duplicate
    <3> QED
      BY <1>1, <1>2, <1>3, <3>1, <3>2
  <2>2. ASSUME NEW j \in Ids, Delete(j) PROVE FALSE
    <3>1. row' = [row EXCEPT ![j] = Gone] /\ Gone.st = "gone"
      BY <2>2 DEF Delete, Gone
    <3> QED
      BY <1>2, <1>3, <3>1
  <2>3. ASSUME NEW e \in Editors, Save(e) PROVE FALSE
    BY <1>3, <2>3, SavesMoveOn
  <2> QED
    BY <1>3, <2>1, <2>2, <2>3 DEF Next, vars, Publish, Check, ReadPending, FetchReels, CheckFails
<1>5. PICK c : c = Head(check.pending)
  OBVIOUS
<1>6. PICK r \in NextReel(c.since) : row' = [row EXCEPT ![j].post = r, ![j].next = FALSE]
  BY <1>3, <1>4, <1>5, Zenon DEF Bind
<1>7. j = i /\ row'[i].post = r
  BY <1>1, <1>2, <1>3, <1>6 DEF CampaignRecords
<1>8. check.pc = "bind" /\ c.id = i
  BY <1>4, <1>5, <1>7 DEF Bind
<1>9. c.since = row[i].since
  <2>1. check.pending # <<>> /\ check.pending \in Seq([id : Ids, since : Nat])
    BY <1>8, PendingIs DEF CampInv, ChecksInOrder
  <2>2. 1 \in DOMAIN check.pending /\ c = check.pending[1]
    BY <1>5, <2>1
  <2> QED
    BY <1>8, <2>2 DEF CampInv, ChecksInOrder, Waits
<1>10. /\ r \in check.seen /\ r > row[i].since
       /\ \A q \in check.seen : q > row[i].since => r <= q
  BY <1>6, <1>9 DEF NextReel
<1>11. /\ \A q \in check.seen : q \in Nat /\ q <= reels
       /\ \A p \in 1 .. reels :
            p \in check.seen \/ p <= reels - ListMax \/ \A q \in check.seen : q < p
       /\ reels \in Nat
  BY <1>8, PendingIs, CampaignAssumption DEF CampInv, TypeOK, ChecksInOrder, Reels
<1>12. row[i].since + 1 \in 1 .. reels
  BY <1>1, <1>10, <1>11
<1> QED
  BY <1>1, <1>7, <1>10, <1>11, <1>12, CampaignAssumption

(* A campaign that waits gets the first reel after its creation, whatever  *)
(* was published or saved while the check was under way, unless more than  *)
(* ListMax reels have come since.                                          *)
THEOREM NextReelIsBound == Spec => BoundToNext
<1>1. CampInv /\ [Next]_vars =>
        [\A i \in Ids :
            Waits(i) /\ Live(i)' /\ row'[i].post \in Reels /\ row'[i].post # row[i].post
            /\ UNCHANGED edit
               => row'[i].post = row[i].since + 1 \/ reels - ListMax > row[i].since]_row
  BY BoundIsNext
<1>2. Spec => [][Next]_vars
  BY DEF Spec
<1> QED
  BY <1>1, <1>2, CampSafe, PTL DEF BoundToNext

-----------------------------------------------------------------------------
(* The import.                                                             *)

(* The instance's symbols for what is staged are those of ImportTable.      *)
LEMMA QueueIs ==
    /\ Queue!NoQueue = NoQueue /\ Queue!Queues = Queues
    /\ Queue!Rows = Rows /\ Queue!Imports = Imports
BY DEF NoQueue, Queue!NoQueue, Queues, Queue!Queues, Rows, Queue!Rows, Imports, Queue!Imports

(* Behind the next row of what is held every row is handled.               *)
Behind ==
    \A q \in Queue!Unfinished :
        /\ q.import \in 1 .. staged
        /\ q.import \in mixed \/ \A r \in Rows : r < q.next => Handled(q.import, r)

(* What is held is of the latest import, or all of them are excepted.      *)
Alone == \A q \in Queue!Unfinished : q.import = staged \/ 1 .. staged \subseteq mixed

(* Only a builder with a row saves.                                        *)
SavesARow == \A t \in Tabs : tab[t].saving => Queue!Importing(t)

ImportInv == Queue!TypeOK /\ SavesARow /\ Behind /\ Alone /\ RowsHandled

-----------------------------------------------------------------------------
(* Nothing is held at first.                                               *)
LEMMA ImportInit == Queue!Init => ImportInv
BY ImportAssumption
   DEF Queue!Init, ImportInv, Queue!TypeOK, SavesARow, Behind, Alone, RowsHandled,
       Queue!Unfinished, Queue!Importing, Imports, Queue!Imports, Rows, Queue!Rows,
       Queues, Queue!Queues, NoQueue, Queue!NoQueue, Queue!Closed

(* A step that stages nothing, handles maybe more and holds nothing new    *)
(* keeps the invariant, provided what is stored stays.                     *)
LEMMA StoredKept ==
    ASSUME ImportInv, Queue!TypeOK', SavesARow',
           staged' = staged, stored' = stored, mixed' = mixed,
           imported \subseteq imported', skipped \subseteq skipped',
           \A t \in Tabs : tab[t]'.queue \in {tab[t].queue, stored, NoQueue}
    PROVE  ImportInv'
<1>1. Queue!Unfinished' \subseteq Queue!Unfinished
  BY QueueIs DEF Queue!Unfinished
<1>2. \A i, r : Handled(i, r) => Handled(i, r)'
  BY DEF Handled
<1>3. Behind' /\ Alone'
  BY <1>1, <1>2 DEF ImportInv, Behind, Alone
<1>4. RowsHandled'
  BY <1>2 DEF ImportInv, RowsHandled
<1> QED BY <1>3, <1>4 DEF ImportInv

(* The rest of an import after its front row has been handled.             *)
LEMMA Advanced ==
    ASSUME ImportInv, Queue!TypeOK', SavesARow', NEW t \in Tabs, Queue!Importing(t),
           Queue!Proceed(t),
           staged' = staged, mixed' = mixed,
           imported \subseteq imported', skipped \subseteq skipped',
           Queue!Front(t) \in imported' \union skipped'
    PROVE  ImportInv'
<1> DEFINE q == tab[t].queue
           left == [q EXCEPT !.next = @ + 1]
           HandledNow(i, r) == <<i, r>> \in imported' \union skipped'
<1>1. q \in Queues /\ q \in Queue!Unfinished /\ q # NoQueue
  BY QueueIs DEF ImportInv, Queue!TypeOK, Queue!Importing, Queue!Unfinished
<1>2. \A i, r : Handled(i, r) => HandledNow(i, r)
  BY DEF Handled
<1>3. q.import \in 1 .. staged /\ q.next \in Rows
  BY <1>1 DEF ImportInv, Behind, Queues, Queue!Queues
<1>4. q.import \in mixed \/ \A r \in Rows : r <= q.next => HandledNow(q.import, r)
  <2>1. HandledNow(q.import, q.next)
    BY DEF Queue!Front
  <2>2. \A r \in Rows : r <= q.next => r < q.next \/ r = q.next
    BY <1>3, ImportAssumption DEF Rows, Queue!Rows
  <2>3. q.import \in mixed \/ \A r \in Rows : r < q.next => Handled(q.import, r)
    BY <1>1 DEF ImportInv, Behind
  <2> QED BY <2>1, <2>2, <2>3, <1>2
<1>5. \A i \in 1 .. staged :
         i \notin mixed /\ stored # NoQueue /\ stored.import = i => q.import = i
  <2> SUFFICES ASSUME NEW i \in 1 .. staged, i \notin mixed, stored # NoQueue, stored.import = i
               PROVE  q.import = i
    OBVIOUS
  <2>1. stored \in Queue!Unfinished
    BY QueueIs DEF Queue!Unfinished
  <2> QED BY <2>1, <1>1 DEF ImportInv, Alone
<1>6. CASE q.next < NRows
  <2>1. left.import = q.import /\ left.next = q.next + 1
    BY <1>1 DEF Queues, Queue!Queues
  <2>2. stored' \in {left, stored} /\ tab' = [tab EXCEPT ![t].queue = left, ![t].saving = FALSE]
    BY <1>6 DEF Queue!Proceed
  <2>3. Queue!Unfinished' \subseteq Queue!Unfinished \union {left}
    BY <2>2 DEF Queue!Unfinished, ImportInv, Queue!TypeOK
  <2>4. \A r \in Rows : r < left.next => r <= q.next
    BY <2>1, <1>3, ImportAssumption DEF Rows, Queue!Rows
  <2>5. Behind'
    <3>1. left.import \in 1 .. staged
          /\ (left.import \in mixed \/ \A r \in Rows : r < left.next => HandledNow(left.import, r))
      BY <2>1, <2>4, <1>3, <1>4
    <3> HIDE DEF q, left
    <3> QED BY <3>1, <2>3, <1>2 DEF ImportInv, Behind, Handled
  <2>6. Alone'
    BY <2>1, <2>3, <1>1 DEF ImportInv, Alone
  <2>7. RowsHandled'
    <3> SUFFICES ASSUME NEW i \in 1 .. staged, NEW r \in Rows, i \notin mixed, ~HandledNow(i, r)
                 PROVE  stored' # NoQueue /\ stored'.import = i /\ stored'.next <= r
      BY DEF RowsHandled, Handled
    <3>1. stored # NoQueue /\ stored.import = i /\ stored.next <= r
      BY <1>2 DEF ImportInv, RowsHandled
    <3>2. CASE stored' = stored
      BY <3>1, <3>2
    <3>3. CASE stored' = left
      <4>1. q.import = i
        BY <3>1, <1>5
      <4>2. ~(r <= q.next)
        BY <4>1, <1>4
      <4>3. left.next <= r
        BY <4>2, <2>1, <1>3, ImportAssumption DEF Rows, Queue!Rows
      <4>4. left # NoQueue
        BY <2>1, <1>3 DEF NoQueue, Queue!NoQueue
      <4> QED BY <3>3, <4>1, <4>3, <4>4, <2>1
    <3> QED BY <3>2, <3>3, <2>2
  <2> QED BY <2>5, <2>6, <2>7 DEF ImportInv
<1>7. CASE ~(q.next < NRows)
  <2>1. stored' \in {NoQueue, stored} /\ tab' = [tab EXCEPT ![t] = Queue!Closed]
    BY <1>7, QueueIs DEF Queue!Proceed
  <2>2. Queue!Unfinished' \subseteq Queue!Unfinished
    BY <2>1, QueueIs DEF Queue!Unfinished, Queue!Closed, ImportInv, Queue!TypeOK
  <2>3. Behind' /\ Alone'
    BY <2>2, <1>2 DEF ImportInv, Behind, Alone, Handled
  <2>4. RowsHandled'
    <3> SUFFICES ASSUME NEW i \in 1 .. staged, NEW r \in Rows, i \notin mixed, ~HandledNow(i, r)
                 PROVE  stored' # NoQueue /\ stored'.import = i /\ stored'.next <= r
      BY DEF RowsHandled, Handled
    <3>1. stored # NoQueue /\ stored.import = i /\ stored.next <= r
      BY <1>2 DEF ImportInv, RowsHandled
    <3>2. r <= q.next
      BY <1>3, <1>7, ImportAssumption DEF Rows, Queue!Rows
    <3>3. FALSE
      BY <3>1, <3>2, <1>4, <1>5
    <3> QED BY <3>3
  <2> QED BY <2>3, <2>4 DEF ImportInv
<1> QED BY <1>6, <1>7

(* Every step preserves the inductive invariant.                           *)
LEMMA ImportStep == ImportInv /\ [Queue!Next]_(Queue!vars) => ImportInv'
<1> SUFFICES ASSUME ImportInv, [Queue!Next]_(Queue!vars) PROVE ImportInv'
  OBVIOUS
<1> USE ImportAssumption
    DEF Imports, Queue!Imports, Rows, Queue!Rows, Queues, Queue!Queues, NoQueue,
        Queue!NoQueue, Queue!Closed
<1>1. ASSUME NEW t \in Tabs, Queue!OpenImport(t) PROVE ImportInv'
  <2>1. Queue!TypeOK' /\ SavesARow'
    BY <1>1 DEF Queue!OpenImport, ImportInv, Queue!TypeOK, SavesARow, Queue!Importing
  <2> QED BY <1>1, <2>1, StoredKept DEF Queue!OpenImport, ImportInv, Queue!TypeOK
<1>2. ASSUME NEW t \in Tabs, Queue!StartImport(t) PROVE ImportInv'
  <2> DEFINE new == [import |-> staged + 1, next |-> 1]
  <2>1. Queue!TypeOK'
    BY <1>2 DEF Queue!StartImport, ImportInv, Queue!TypeOK
  <2>2. SavesARow'
    BY <1>2 DEF Queue!StartImport, ImportInv, Queue!TypeOK, SavesARow, Queue!Importing
  <2>3. Queue!Unfinished' \subseteq Queue!Unfinished \union {new}
    BY <1>2 DEF Queue!StartImport, Queue!Unfinished, ImportInv, Queue!TypeOK
  <2>4. staged \in Nat /\ staged' = staged + 1 /\ imported' = imported /\ skipped' = skipped
    BY <1>2 DEF Queue!StartImport, ImportInv, Queue!TypeOK
  <2>5. \A i, r : Handled(i, r)' = Handled(i, r)
    BY <2>4 DEF Handled
  <2>6. mixed \subseteq mixed' /\ (Queue!Unfinished # {} => 1 .. staged' \subseteq mixed')
    BY <1>2 DEF Queue!StartImport
  <2>7. Behind'
    <3> SUFFICES ASSUME NEW q \in Queue!Unfinished'
                 PROVE  /\ q.import \in 1 .. staged'
                        /\ \/ q.import \in mixed'
                           \/ \A r \in Rows : r < q.next => Handled(q.import, r)'
      BY DEF Behind
    <3>1. CASE q \in Queue!Unfinished
      BY <3>1, <2>4, <2>5, <2>6 DEF ImportInv, Behind
    <3>2. CASE q = new
      BY <3>2, <2>4
    <3> QED BY <3>1, <3>2, <2>3
  <2>8. Alone'
    BY <2>3, <2>4, <2>6 DEF Alone
  <2>9. RowsHandled'
    <3> SUFFICES ASSUME NEW i \in 1 .. staged', NEW r \in Rows, i \notin mixed', ~Handled(i, r)'
                 PROVE  stored' # NoQueue /\ stored'.import = i /\ stored'.next <= r
      BY DEF RowsHandled
    <3>1. Queue!Unfinished = {}
      BY <2>6
    <3>2. stored = NoQueue
      BY <3>1 DEF Queue!Unfinished
    <3>3. i = staged + 1
      BY <3>2, <2>4, <2>5, <2>6 DEF ImportInv, RowsHandled
    <3> QED BY <3>3, <2>4, <1>2 DEF Queue!StartImport
  <2> QED BY <2>1, <2>2, <2>7, <2>8, <2>9 DEF ImportInv
<1>3. ASSUME NEW t \in Tabs, Queue!OpenBuilder(t) PROVE ImportInv'
  <2>1. Queue!TypeOK' /\ SavesARow'
    BY <1>3 DEF Queue!OpenBuilder, ImportInv, Queue!TypeOK, SavesARow, Queue!Importing
  <2> QED BY <1>3, <2>1, StoredKept DEF Queue!OpenBuilder, ImportInv, Queue!TypeOK
<1>4. ASSUME NEW t \in Tabs, Queue!Submit(t) PROVE ImportInv'
  <2>1. Queue!TypeOK' /\ SavesARow'
    BY <1>4 DEF Queue!Submit, ImportInv, Queue!TypeOK, SavesARow, Queue!Importing
  <2> QED BY <1>4, <2>1, StoredKept DEF Queue!Submit, ImportInv, Queue!TypeOK
<1>5. ASSUME NEW t \in Tabs, Queue!Importing(t), Queue!Proceed(t) PROVE
        /\ stored' \in Queues \union {NoQueue}
        /\ tab' \in [Tabs -> [page : {"none", "import", "builder"},
                              queue : Queues \union {NoQueue}, saving : BOOLEAN]]
        /\ SavesARow'
  <2>1. tab[t].queue \in Queues
    BY <1>5 DEF Queue!Importing, ImportInv, Queue!TypeOK
  <2>2. CASE tab[t].queue.next < NRows
    <3>1. [tab[t].queue EXCEPT !.next = @ + 1] \in Queues
      BY <2>1, <2>2
    <3>2. [tab[t].queue EXCEPT !.next = @ + 1] # NoQueue
      BY <2>1
    <3>3. stored' \in Queues \union {NoQueue}
      BY <2>2, <3>1, <1>5 DEF Queue!Proceed, ImportInv, Queue!TypeOK
    <3>4. tab' = [tab EXCEPT ![t].queue = [tab[t].queue EXCEPT !.next = @ + 1], ![t].saving = FALSE]
      BY <2>2, <1>5 DEF Queue!Proceed
    <3> HIDE DEF Queues, Queue!Queues, NoQueue, Queue!NoQueue
    <3> QED
      BY <3>1, <3>2, <3>3, <3>4, <1>5, QueueIs
         DEF ImportInv, Queue!TypeOK, SavesARow, Queue!Importing
  <2>3. CASE ~(tab[t].queue.next < NRows)
    <3>1. stored' \in {NoQueue, stored} /\ tab' = [tab EXCEPT ![t] = Queue!Closed]
      BY <2>3, <1>5 DEF Queue!Proceed
    <3>2. Queue!Closed \in [page : {"none", "import", "builder"},
                      queue : Queues \union {NoQueue}, saving : BOOLEAN]
      OBVIOUS
    <3>3. Queue!Closed.saving = FALSE
      OBVIOUS
    <3> HIDE DEF Queues, Queue!Queues, NoQueue, Queue!NoQueue, Queue!Closed
    <3> QED BY <3>1, <3>2, <3>3, QueueIs DEF ImportInv, Queue!TypeOK, SavesARow, Queue!Importing
  <2> QED BY <2>2, <2>3
<1>6. ASSUME NEW t \in Tabs PROVE Queue!Importing(t) => Queue!Front(t) \in Imports \X Rows
  BY DEF Queue!Importing, Queue!Front, ImportInv, Queue!TypeOK
<1>7. ASSUME NEW t \in Tabs, Queue!SaveAnswered(t) PROVE ImportInv'
  <2>1. Queue!Importing(t)
    BY <1>7 DEF Queue!SaveAnswered, ImportInv, SavesARow
  <2>2. Queue!TypeOK' /\ SavesARow'
    BY <1>7, <2>1, <1>5, <1>6 DEF Queue!SaveAnswered, ImportInv, Queue!TypeOK
  <2> QED BY <1>7, <2>1, <2>2, Advanced DEF Queue!SaveAnswered
<1>8. ASSUME NEW t \in Tabs, Queue!SaveRefused(t) PROVE ImportInv'
  <2>1. Queue!TypeOK'
    BY <1>8, <1>6 DEF Queue!SaveRefused, ImportInv, Queue!TypeOK, SavesARow
  <2>2. SavesARow'
    BY <1>8 DEF Queue!SaveRefused, ImportInv, Queue!TypeOK, SavesARow, Queue!Importing
  <2> QED BY <1>8, <2>1, <2>2, StoredKept DEF Queue!SaveRefused, ImportInv, Queue!TypeOK
<1>9. ASSUME NEW t \in Tabs, Queue!Skip(t) PROVE ImportInv'
  <2>1. Queue!TypeOK' /\ SavesARow'
    BY <1>9, <1>5, <1>6 DEF Queue!Skip, ImportInv, Queue!TypeOK
  <2> QED BY <1>9, <2>1, Advanced DEF Queue!Skip
<1>10. ASSUME NEW t \in Tabs, Queue!Close(t) PROVE ImportInv'
  <2>1. Queue!TypeOK'
    BY <1>10, <1>6 DEF Queue!Close, ImportInv, Queue!TypeOK, SavesARow
  <2>2. SavesARow'
    BY <1>10 DEF Queue!Close, ImportInv, Queue!TypeOK, SavesARow, Queue!Importing
  <2> QED BY <1>10, <2>1, <2>2, StoredKept DEF Queue!Close, ImportInv, Queue!TypeOK
<1>11. CASE UNCHANGED Queue!vars
  <2>1. Queue!TypeOK' /\ SavesARow'
    BY <1>11 DEF Queue!vars, ImportInv, Queue!TypeOK, SavesARow, Queue!Importing
  <2> QED BY <1>11, <2>1, StoredKept DEF Queue!vars
<1> QED BY <1>1, <1>2, <1>3, <1>4, <1>7, <1>8, <1>9, <1>10, <1>11 DEF Queue!Next

(* The inductive invariant holds in every reachable state.                 *)
LEMMA ImportCorrect == Queue!Spec => []ImportInv
BY ImportInit, ImportStep, PTL DEF Queue!Spec

(* The variables keep their types.                                         *)
THEOREM ImportTyped == Queue!Spec => []Queue!TypeOK
BY ImportCorrect, PTL DEF ImportInv

(* A row of an import is staged until it has been saved or skipped, for    *)
(* any number of tabs, rows and imports: RowsHandled.                      *)
THEOREM RowsKept == Queue!Spec => []RowsHandled
BY ImportCorrect, PTL DEF ImportInv

(* What is left of an import, wherever it is held, has nothing unhandled   *)
(* behind it.                                                              *)
THEOREM NothingSkippedOver == Queue!Spec => []Behind
BY ImportCorrect, PTL DEF ImportInv

-----------------------------------------------------------------------------
(* The reports.                                                            *)

(* The definitions the module shares with the reports mean the same in     *)
(* both.                                                                   *)
LEMMA PagesIs ==
  /\ Pages!Sent = Sent /\ Pages!ClicksMade = ClicksMade
  /\ \A S : Pages!Cardinality(S) = Cardinality(S)
  /\ \A S, h : Pages!Since(S, h) = Since(S, h)
  /\ \A h : Pages!Day(h) = Day(h) /\ Pages!Midnight(h) = Midnight(h)
  /\ \A d : Pages!MonthStart(d) = MonthStart(d) /\ Pages!WeekStart(d) = WeekStart(d)
  /\ \A d : Pages!ChartDays(d) = ChartDays(d)
BY DEF Sent, Pages!Sent, ClicksMade, Pages!ClicksMade, Cardinality, Pages!Cardinality,
       Since, Pages!Since, Day, Pages!Day, Midnight, Pages!Midnight, MonthStart,
       Pages!MonthStart, WeekStart, Pages!WeekStart, ChartDays, Pages!ChartDays

(* A set of natural numbers has a least one.                               *)
LEMMA LeastExists ==
  ASSUME NEW T \in SUBSET Nat, T # {}
  PROVE  \E x \in T : \A y \in T : x <= y
<1>1. IsWellFoundedOn(OpToRel(<, Nat), Nat)
  BY NatLessThanWellFounded
<1>2. PICK x \in T : \A y \in T : ~ (<<y, x>> \in OpToRel(<, Nat))
  BY <1>1, WFMin
<1>3. \A y \in T : ~ (y < x)
  BY <1>2 DEF OpToRel
<1> QED
  BY <1>3

(* The days of a sum, added up: there is a function that does it.          *)
LEMMA SumExists ==
  ASSUME NEW n \in Nat, NEW b \in [0 .. n -> Nat]
  PROVE  \E f \in [0 .. n -> Nat] :
           \A k \in 0 .. n : f[k] = IF k = 0 THEN 0 ELSE f[k - 1] + b[k - 1]
<1> DEFINE Sums(m) == {f \in [0 .. m -> Nat] :
                         \A k \in 0 .. m : f[k] = IF k = 0 THEN 0 ELSE f[k - 1] + b[k - 1]}
           Bad == {m \in 0 .. n : Sums(m) = {}}
<1>1. Bad = {}
  <2> SUFFICES ASSUME Bad # {} PROVE FALSE
    OBVIOUS
  <2>1. PICK m \in Bad : \A j \in Bad : m <= j
    <3>1. Bad \in SUBSET Nat
      OBVIOUS
    <3> HIDE DEF Bad
    <3> QED
      BY <3>1, LeastExists
  <2>2. m \in 0 .. n /\ Sums(m) = {}
    OBVIOUS
  <2>3. m # 0
    <3>1. [k \in 0 .. 0 |-> 0] \in Sums(0)
      OBVIOUS
    <3> QED
      BY <2>2, <3>1
  <2>4. m - 1 \in 0 .. n /\ m - 1 \notin Bad
    <3>1. m - 1 \in 0 .. n /\ ~ (m <= m - 1)
      BY <2>2, <2>3
    <3> HIDE DEF Bad
    <3> QED
      BY <2>1, <3>1
  <2>5. PICK f \in [0 .. m - 1 -> Nat] :
          \A k \in 0 .. m - 1 : f[k] = IF k = 0 THEN 0 ELSE f[k - 1] + b[k - 1]
    BY <2>4
  <2> DEFINE g == [k \in 0 .. m |-> IF k = m THEN f[m - 1] + b[m - 1] ELSE f[k]]
  <2>6. g \in [0 .. m -> Nat]
    <3>1. f[m - 1] + b[m - 1] \in Nat
      BY <2>4, <2>5
    <3>2. \A k \in 0 .. m : k # m => k \in 0 .. m - 1
      BY <2>2
    <3> QED
      BY <2>5, <3>1, <3>2
  <2>7. ASSUME NEW k \in 0 .. m PROVE g[k] = IF k = 0 THEN 0 ELSE g[k - 1] + b[k - 1]
    <3>1. CASE k = m
      <4>1. m - 1 \in 0 .. m /\ m - 1 # m
        BY <2>2, <2>3
      <4>2. g[m - 1] = f[m - 1]
        BY <4>1
      <4> QED
        BY <2>3, <3>1, <4>2
    <3>2. CASE k # m
      <4>1. k \in 0 .. m - 1 /\ g[k] = f[k]
        BY <2>2, <3>2
      <4>2. k # 0 => k - 1 \in 0 .. m /\ k - 1 # m
        BY <2>2
      <4>3. k # 0 => g[k - 1] = f[k - 1]
        BY <4>2
      <4> QED
        BY <2>5, <4>1, <4>3
    <3> QED
      BY <3>1, <3>2
  <2>8. g \in Sums(m)
    BY <2>6, <2>7
  <2> QED
    BY <2>2, <2>8
<1>2. Sums(n) # {}
  <2>1. n \in 0 .. n
    OBVIOUS
  <2> HIDE DEF Sums
  <2> QED
    BY <1>1, <2>1
<1> QED
  BY <1>2

(* A number between the cardinalities of two sets stays between them as    *)
(* the second grows.                                                       *)
LEMMA ToldLater ==
  ASSUME NEW n \in Nat, NEW lower, NEW upper, NEW later, IsFiniteSet(later), upper \subseteq later,
         Told(n, lower, upper)
  PROVE  Told(n, lower, later)
<1>1. IsFiniteSet(upper) /\ Cardinality(upper) <= Cardinality(later)
  BY FS_Subset
<1>2. Cardinality(upper) \in Nat /\ Cardinality(later) \in Nat
  BY <1>1, FS_CardinalityType
<1> QED
  BY <1>1, <1>2 DEF Told

(* What is counted now is between what was there and what is there.        *)
LEMMA ToldNow ==
  ASSUME NEW now, NEW before, IsFiniteSet(now), before \subseteq now
  PROVE  Cardinality(now) \in Nat /\ Told(Cardinality(now), before, now)
<1>1. IsFiniteSet(before) /\ Cardinality(before) <= Cardinality(now)
  BY FS_Subset
<1>2. Cardinality(before) \in Nat /\ Cardinality(now) \in Nat
  BY <1>1, FS_CardinalityType
<1> QED
  BY <1>1, <1>2 DEF Told

(* Two disjoint sets have as many elements as both together.               *)
LEMMA Disjoint ==
  ASSUME NEW S, NEW T, IsFiniteSet(S), IsFiniteSet(T), S \intersect T = {}
  PROVE  Cardinality(S \union T) = Cardinality(S) + Cardinality(T)
         /\ Cardinality(S) \in Nat /\ Cardinality(T) \in Nat
<1>1. Cardinality(S) \in Nat /\ Cardinality(T) \in Nat
  BY FS_CardinalityType
<1>2. Cardinality(S \intersect T) = 0
  BY FS_EmptySet
<1>3. Cardinality(S \union T) = Cardinality(S) + Cardinality(T) - Cardinality(S \intersect T)
  BY FS_Union
<1> QED
  BY <1>1, <1>2, <1>3

(* Of the things that happened on[x], those of a day and those before it.  *)
OnDay(S, on, d) == {x \in S : on[x] = d}
Before(S, on, d) == {x \in S : on[x] < d}

(* The things before the next day are those before a day and those of it.  *)
LEMMA DaysApart ==
  ASSUME NEW S, IsFiniteSet(S), NEW on, \A x \in S : on[x] \in Nat, NEW d \in Nat
  PROVE  /\ Cardinality(Before(S, on, d + 1))
              = Cardinality(Before(S, on, d)) + Cardinality(OnDay(S, on, d))
         /\ Cardinality(Before(S, on, d)) \in Nat
         /\ Cardinality(OnDay(S, on, d)) \in Nat
<1>1. Before(S, on, d) \in SUBSET S /\ OnDay(S, on, d) \in SUBSET S
  BY DEF Before, OnDay
<1>2. IsFiniteSet(Before(S, on, d)) /\ IsFiniteSet(OnDay(S, on, d))
  BY <1>1, FS_Subset
<1>3. /\ Before(S, on, d) \intersect OnDay(S, on, d) = {}
      /\ Before(S, on, d + 1) = Before(S, on, d) \union OnDay(S, on, d)
  BY DEF Before, OnDay
<1> QED
  BY <1>2, <1>3, Disjoint

(* If the number of every day was true at some moment then so was their    *)
(* sum: nothing is in two days, and nothing between them.                  *)
LEMMA SumTold ==
  ASSUME NEW n \in Nat, NEW b \in [0 .. n -> Nat], NEW f,
         \A k \in 0 .. n : f[k] = IF k = 0 THEN 0 ELSE f[k - 1] + b[k - 1],
         NEW lower, NEW upper, IsFiniteSet(lower), IsFiniteSet(upper), NEW on,
         \A x \in lower \union upper : on[x] \in Nat,
         \A k \in 0 .. n - 1 : Told(b[k], OnDay(lower, on, k), OnDay(upper, on, k))
  PROVE  Told(f[n], Before(lower, on, n), Before(upper, on, n))
<1> DEFINE Right(k) == f[k] \in Nat /\ Told(f[k], Before(lower, on, k), Before(upper, on, k))
           Bad == {k \in 0 .. n : ~ Right(k)}
<1>1. Bad = {}
  <2> SUFFICES ASSUME Bad # {} PROVE FALSE
    OBVIOUS
  <2>1. PICK m \in Bad : \A j \in Bad : m <= j
    <3>1. Bad \in SUBSET Nat
      OBVIOUS
    <3> HIDE DEF Bad
    <3> QED
      BY <3>1, LeastExists
  <2>2. m \in 0 .. n /\ ~ Right(m)
    OBVIOUS
  <2>3. m # 0
    <3>1. Before(lower, on, 0) = {} /\ Before(upper, on, 0) = {} /\ f[0] = 0
      BY DEF Before
    <3>2. Cardinality(Before(lower, on, 0)) = 0 /\ Cardinality(Before(upper, on, 0)) = 0
      BY <3>1, FS_EmptySet
    <3>3. Right(0)
      BY <3>1, <3>2 DEF Told
    <3> HIDE DEF Right
    <3> QED
      BY <2>2, <3>3
  <2> DEFINE d == m - 1
  <2>4. d \in 0 .. n - 1 /\ d \in 0 .. n /\ d \in Nat /\ m = d + 1 /\ ~ (m <= d)
    BY <2>2, <2>3
  <2>5. d \notin Bad
    <3> HIDE DEF Bad, d
    <3> QED
      BY <2>1, <2>4
  <2>6. /\ f[d] \in Nat /\ Told(f[d], Before(lower, on, d), Before(upper, on, d))
        /\ Told(b[d], OnDay(lower, on, d), OnDay(upper, on, d))
    BY <2>4, <2>5
  <2>7. f[m] = f[d] + b[d] /\ f[d] \in Nat /\ b[d] \in Nat
    BY <2>2, <2>3, <2>4, <2>6
  <2> HIDE DEF d, Bad
  <2>8. /\ Cardinality(Before(lower, on, d + 1))
             = Cardinality(Before(lower, on, d)) + Cardinality(OnDay(lower, on, d))
        /\ Cardinality(Before(lower, on, d)) \in Nat /\ Cardinality(OnDay(lower, on, d)) \in Nat
    BY <2>4, DaysApart
  <2>9. /\ Cardinality(Before(upper, on, d + 1))
             = Cardinality(Before(upper, on, d)) + Cardinality(OnDay(upper, on, d))
        /\ Cardinality(Before(upper, on, d)) \in Nat /\ Cardinality(OnDay(upper, on, d)) \in Nat
    BY <2>4, DaysApart
  <2>10. Told(f[m], Before(lower, on, d + 1), Before(upper, on, d + 1))
    BY <2>6, <2>7, <2>8, <2>9 DEF Told
  <2> QED
    BY <2>2, <2>4, <2>7, <2>10
<1>2. n \in 0 .. n
  OBVIOUS
<1> QED
  BY <1>1, <1>2

(* So it is for the bars of a chart.                                       *)
LEMMA TotalTold ==
  ASSUME page.today \in Nat, NEW what, \A d \in 0 .. page.today : Bar(what, d) \in Nat,
         NEW lower, NEW upper, IsFiniteSet(lower), IsFiniteSet(upper), NEW on,
         \A x \in lower \union upper : on[x] \in Nat,
         \A d \in 0 .. page.today : Told(Bar(what, d), OnDay(lower, on, d), OnDay(upper, on, d))
  PROVE  Told(Total(what), Before(lower, on, page.today + 1), Before(upper, on, page.today + 1))
<1> DEFINE n == page.today + 1
           b == [k \in 0 .. n |-> IF k = n THEN 0 ELSE Bar(what, k)]
           U == CHOOSE f : f = [k \in 0 .. n |-> IF k = 0 THEN 0 ELSE f[k - 1] + Bar(what, k - 1)]
<1>1. n \in Nat /\ (\A k \in 0 .. n : k # n => k \in 0 .. page.today)
  OBVIOUS
<1>2. b \in [0 .. n -> Nat]
  BY <1>1
<1>3. \A k \in 1 .. n : b[k - 1] = Bar(what, k - 1)
  <2> SUFFICES ASSUME NEW k \in 1 .. n PROVE b[k - 1] = Bar(what, k - 1)
    OBVIOUS
  <2>1. k - 1 \in 0 .. n /\ k - 1 # n
    BY <1>1
  <2> QED
    BY <2>1
<1>4. \A k \in 0 .. n - 1 : Told(b[k], OnDay(lower, on, k), OnDay(upper, on, k))
  <2> SUFFICES ASSUME NEW k \in 0 .. n - 1
               PROVE  Told(b[k], OnDay(lower, on, k), OnDay(upper, on, k))
    OBVIOUS
  <2>1. k \in 0 .. n /\ k # n /\ k \in 0 .. page.today
    BY <1>1
  <2> QED
    BY <2>1
<1>5. Total(what) = U[n]
  BY DEF Total
<1> HIDE DEF n, b, U
<1>6. U = [k \in 0 .. n |-> IF k = 0 THEN 0 ELSE U[k - 1] + Bar(what, k - 1)]
  <2>1. PICK f \in [0 .. n -> Nat] :
          \A k \in 0 .. n : f[k] = IF k = 0 THEN 0 ELSE f[k - 1] + b[k - 1]
    BY <1>1, <1>2, SumExists
  <2>2. f = [k \in 0 .. n |-> IF k = 0 THEN 0 ELSE f[k - 1] + Bar(what, k - 1)]
    <3>1. \A k \in 0 .. n : k # 0 => k \in 1 .. n
      BY <1>1
    <3> QED
      BY <1>3, <2>1, <3>1
  <2> QED
    BY <2>2 DEF U
<1>7. \A k \in 0 .. n : U[k] = IF k = 0 THEN 0 ELSE U[k - 1] + b[k - 1]
  <2>1. \A k \in 0 .. n : k # 0 => k \in 1 .. n
    BY <1>1
  <2> QED
    BY <1>3, <1>6, <2>1
<1>8. Told(U[n], Before(lower, on, n), Before(upper, on, n))
  BY <1>1, <1>2, <1>4, <1>7, SumTold
<1> QED
  BY <1>5, <1>8 DEF n

(* The days of the messages and clicks.                                    *)
SentDay == [r \in Messages |-> Day(log[r].at)]
ClickDay == [c \in Clicks |-> Day(clicked[c])]

Messaged == [at : Nat, status : {"PENDING", "SENT", "FAILED"}]

(* Every variable of the reports has its type.                             *)
ReportsTyped ==
  /\ hour \in Nat \ {0} /\ slug \in Nat /\ slugs \in Nat
  /\ log \in [Messages -> Messaged \union {NoMessage}]
  /\ clicked \in [Clicks -> Nat]
  /\ list \in [Lists -> [pc : {"none", "assign", "answered"}, slug : Nat]]
  /\ crossed \in BOOLEAN

(* And what a page began with is still there.                              *)
PageTyped ==
  /\ page \in [pc : {"none", "first", "chart", "answered"},
               kind : {"none", "list", "report", "dashboard"}, today : Nat,
               before : SUBSET Sent, clicksBefore : SUBSET ClicksMade,
               got : {page.got}, bars : {page.bars}]

(* A slug that was answered is one, and the campaign's unless two crossed. *)
Addressed ==
  \A l \in Lists : list[l].pc = "answered" =>
    /\ list[l].slug # 0
    /\ ~crossed => list[l].slug = slug

(* The numbers of a page come first, then the bars of its chart.           *)
Asked ==
  /\ page.pc = "none" => DOMAIN page.got = {}
  /\ page.pc \in {"none", "first"} => DOMAIN page.bars = {}
  /\ page.pc # "none" => page.kind # "none" /\ DOMAIN page.got \subseteq Pages!First(page.kind)
  /\ page.pc \in {"chart", "answered"} =>
       DOMAIN page.got = Pages!First(page.kind) /\ DOMAIN page.bars \subseteq Pages!Bars
  /\ page.pc = "answered" => Pages!Bars \subseteq DOMAIN page.bars

(* The beginning of what a number of the dashboard counts.                 *)
From(q) ==
  CASE q = "today" -> Midnight(page.today)
    [] q = "week"  -> Midnight(WeekStart(page.today))
    [] q = "month" -> Midnight(MonthStart(page.today))

(* Every number asked for so far was true at some moment.                  *)
NumbersTold ==
  \A q \in DOMAIN page.got :
    /\ page.got[q] \in Nat
    /\ q = "sent" => Told(page.got[q], page.before, Sent)
    /\ q = "clicks" => Told(page.got[q], page.clicksBefore, ClicksMade)
    /\ q \in {"today", "week", "month"} => ToldSince(page.got[q], From(q))

(* So was every bar of the chart.                                          *)
BarsTold ==
  \A bar \in DOMAIN page.bars :
    /\ page.bars[bar] \in Nat
    /\ bar[1] = "sent" =>
         Told(page.bars[bar], OnDay(page.before, SentDay, bar[2]), OnDay(Sent, SentDay, bar[2]))
    /\ bar[1] = "clicks" =>
         Told(page.bars[bar], OnDay(page.clicksBefore, ClickDay, bar[2]),
              OnDay(ClicksMade, ClickDay, bar[2]))

ReportInv == ReportsTyped /\ PageTyped /\ Addressed /\ Asked /\ NumbersTold /\ BarsTold

(* There are only finitely many messages and clicks.                       *)
LEMMA Finite ==
  ASSUME NEW S, S \subseteq Messages \/ S \subseteq Clicks
  PROVE  IsFiniteSet(S)
BY ReportAssumption, FS_Subset

(* When the reports begin nothing has been asked.                          *)
LEMMA ReportInit == Pages!Init => ReportInv
<1> SUFFICES ASSUME Pages!Init PROVE ReportInv
  OBVIOUS
<1>1. /\ hour = 2 * Shown + 1
      /\ log \in [Messages -> {NoMessage} \union [at : 0 .. hour, status : {"SENT"}]]
      /\ clicked = [c \in Clicks |-> 0]
      /\ slug \in {0, 1} /\ slugs = 1
      /\ list = [l \in Lists |-> [pc |-> "none", slug |-> 0]]
      /\ crossed = FALSE
      /\ page = [pc |-> "none", kind |-> "none", today |-> 0, before |-> {}, clicksBefore |-> {},
                 got |-> <<>>, bars |-> <<>>]
  BY DEF Pages!Init, Pages!NoPage
<1>2. ReportsTyped
  <2>1. hour \in Nat \ {0}
    BY <1>1, ReportAssumption
  <2>2. [at : 0 .. hour, status : {"SENT"}] \subseteq Messaged
    BY <2>1 DEF Messaged
  <2>3. log \in [Messages -> Messaged \union {NoMessage}]
    BY <1>1, <2>2
  <2>4. list \in [Lists -> [pc : {"none", "assign", "answered"}, slug : Nat]]
    BY <1>1
  <2>5. clicked \in [Clicks -> Nat] /\ slug \in Nat /\ slugs \in Nat
    BY <1>1
  <2>6. crossed \in BOOLEAN
    BY <1>1
  <2> QED
    BY <2>1, <2>3, <2>4, <2>5, <2>6 DEF ReportsTyped
<1>3. PageTyped
  BY <1>1 DEF PageTyped
<1>4. DOMAIN page.got = {} /\ DOMAIN page.bars = {} /\ page.pc = "none"
  BY <1>1
<1>5. Addressed /\ Asked /\ NumbersTold /\ BarsTold
  BY <1>1, <1>4 DEF Addressed, Asked, NumbersTold, BarsTold
<1> QED
  BY <1>2, <1>3, <1>5 DEF ReportInv

(* What was sent and clicked stays so with its moment, and what a page was *)
(* told stays true as more is.                                             *)
LEMMA WorldStep ==
  ASSUME ReportInv, UNCHANGED page,
         \A r \in Sent : r \in Sent' /\ log'[r] = log[r],
         \A c \in ClicksMade : c \in ClicksMade' /\ clicked'[c] = clicked[c]
  PROVE  PageTyped' /\ Asked' /\ NumbersTold' /\ BarsTold'
<1>1. Sent \subseteq Sent' /\ ClicksMade \subseteq ClicksMade'
  OBVIOUS
<1>2. page.before \subseteq Sent /\ page.clicksBefore \subseteq ClicksMade
  BY DEF ReportInv, PageTyped
<1>3. PageTyped'
  <2>1. page.before \in SUBSET Sent' /\ page.clicksBefore \in SUBSET ClicksMade'
    BY <1>1, <1>2
  <2> QED
    BY <2>1 DEF ReportInv, PageTyped
<1>4. Asked'
  BY DEF ReportInv, Asked, Pages!First, Pages!Bars, Pages!OfList, Pages!OfReport, Pages!OfDashboard,
         Pages!ChartDays
<1>5. Sent' \subseteq Messages /\ ClicksMade' \subseteq Clicks
  BY DEF Sent, ClicksMade
<1>6. NumbersTold'
  <2> SUFFICES ASSUME NEW q \in DOMAIN page.got
               PROVE  /\ page.got[q] \in Nat
                      /\ q = "sent" => Told(page.got[q], page.before, Sent)'
                      /\ q = "clicks" => Told(page.got[q], page.clicksBefore, ClicksMade)'
                      /\ q \in {"today", "week", "month"} => ToldSince(page.got[q], From(q))'
    BY DEF NumbersTold
  <2>1. /\ page.got[q] \in Nat
        /\ q = "sent" => Told(page.got[q], page.before, Sent)
        /\ q = "clicks" => Told(page.got[q], page.clicksBefore, ClicksMade)
        /\ q \in {"today", "week", "month"} => ToldSince(page.got[q], From(q))
    BY DEF ReportInv, NumbersTold
  <2>2. ASSUME q = "sent" PROVE Told(page.got[q], page.before, Sent')
    BY <1>1, <1>5, <2>1, <2>2, Finite, ToldLater
  <2>3. ASSUME q = "clicks" PROVE Told(page.got[q], page.clicksBefore, ClicksMade')
    BY <1>1, <1>5, <2>1, <2>3, Finite, ToldLater
  <2>4. ASSUME q \in {"today", "week", "month"} PROVE ToldSince(page.got[q], From(q))'
    <3> DEFINE h == From(q)
    <3>1. From(q)' = h
      BY <2>4 DEF From, Midnight, WeekStart, MonthStart
    <3>2. Told(page.got[q], Since(page.before, h), Since(Sent, h))
      BY <2>1, <2>4 DEF ToldSince
    <3> DEFINE before == {r \in page.before : log'[r].at >= h}
               sent == {r \in Sent' : log'[r].at >= h}
    <3>3. before = Since(page.before, h) /\ Since(Sent, h) \subseteq sent
      BY <1>2 DEF Since
    <3>4. sent \subseteq Messages
      BY <1>5
    <3>5. ToldSince(page.got[q], From(q))' <=> Told(page.got[q], before, sent)
      BY <3>1 DEF ToldSince, Since, Told
    <3> HIDE DEF h, before, sent
    <3>6. Told(page.got[q], Since(page.before, h), sent)
      BY <2>1, <3>2, <3>3, <3>4, Finite, ToldLater
    <3> QED
      BY <3>3, <3>5, <3>6
  <2> QED
    BY <2>1, <2>2, <2>3, <2>4 DEF Told
<1>7. BarsTold'
  <2> SUFFICES ASSUME NEW bar \in DOMAIN page.bars
               PROVE  /\ page.bars[bar] \in Nat
                      /\ bar[1] = "sent" =>
                           Told(page.bars[bar], OnDay(page.before, SentDay, bar[2]),
                                OnDay(Sent, SentDay, bar[2]))'
                      /\ bar[1] = "clicks" =>
                           Told(page.bars[bar], OnDay(page.clicksBefore, ClickDay, bar[2]),
                                OnDay(ClicksMade, ClickDay, bar[2]))'
    BY DEF BarsTold
  <2>1. /\ page.bars[bar] \in Nat
        /\ bar[1] = "sent" =>
             Told(page.bars[bar], OnDay(page.before, SentDay, bar[2]), OnDay(Sent, SentDay, bar[2]))
        /\ bar[1] = "clicks" =>
             Told(page.bars[bar], OnDay(page.clicksBefore, ClickDay, bar[2]),
                  OnDay(ClicksMade, ClickDay, bar[2]))
    BY DEF ReportInv, BarsTold
  <2>2. ASSUME bar[1] = "sent"
        PROVE  Told(page.bars[bar], OnDay(page.before, SentDay', bar[2]),
                    OnDay(Sent', SentDay', bar[2]))
    <3>1. \A r \in Sent : SentDay'[r] = SentDay[r]
      BY DEF SentDay, Sent, Day
    <3>2. /\ OnDay(page.before, SentDay', bar[2]) = OnDay(page.before, SentDay, bar[2])
          /\ OnDay(Sent, SentDay, bar[2]) \subseteq OnDay(Sent', SentDay', bar[2])
          /\ OnDay(Sent', SentDay', bar[2]) \subseteq Messages
      BY <1>1, <1>2, <1>5, <3>1 DEF OnDay
    <3> QED
      BY <2>1, <2>2, <3>2, Finite, ToldLater
  <2>3. ASSUME bar[1] = "clicks"
        PROVE  Told(page.bars[bar], OnDay(page.clicksBefore, ClickDay', bar[2]),
                    OnDay(ClicksMade', ClickDay', bar[2]))
    <3>1. \A c \in ClicksMade : ClickDay'[c] = ClickDay[c]
      BY DEF ClickDay, ClicksMade, Day
    <3>2. /\ OnDay(page.clicksBefore, ClickDay', bar[2])
               = OnDay(page.clicksBefore, ClickDay, bar[2])
          /\ OnDay(ClicksMade, ClickDay, bar[2]) \subseteq OnDay(ClicksMade', ClickDay', bar[2])
          /\ OnDay(ClicksMade', ClickDay', bar[2]) \subseteq Clicks
      BY <1>1, <1>2, <1>5, <3>1 DEF OnDay
    <3> QED
      BY <2>1, <2>3, <3>2, Finite, ToldLater
  <2> QED
    BY <2>1, <2>2, <2>3 DEF Told, OnDay
<1> QED
  BY <1>3, <1>4, <1>6, <1>7

(* The worker writes and settles a row.                                    *)
LEMMA MessageSteps ==
  ASSUME ReportInv, NEW r \in Messages, Pages!Record(r) \/ Pages!Settle(r)
  PROVE  ReportInv'
<1>1. log \in [Messages -> Messaged \union {NoMessage}] /\ hour \in Nat
  BY DEF ReportInv, ReportsTyped
<1>2. PICK m \in Messaged : log' = [log EXCEPT ![r] = m]
  <2>1. CASE Pages!Record(r)
    <3>1. [at |-> hour, status |-> "PENDING"] \in Messaged
      BY <1>1 DEF Messaged
    <3> QED
      BY <2>1, <3>1 DEF Pages!Record
  <2>2. CASE Pages!Settle(r)
    <3>1. PICK t \in {"SENT", "FAILED"} : log' = [log EXCEPT ![r].status = t]
      BY <2>2 DEF Pages!Settle
    <3>2. log[r] \in Messaged
      BY <1>1, <2>2 DEF Pages!Settle
    <3>3. [log[r] EXCEPT !.status = t] \in Messaged
      BY <3>2 DEF Messaged
    <3> QED
      BY <1>1, <3>1, <3>3
  <2> QED
    BY <2>1, <2>2
<1>3. UNCHANGED <<hour, clicked, slug, slugs, list, crossed, page>> /\ r \notin Sent
  BY DEF Pages!Record, Pages!Settle, Sent
<1>4. \A x \in Sent : x \in Sent' /\ log'[x] = log[x]
  BY <1>1, <1>2, <1>3 DEF Sent
<1>5. \A c \in ClicksMade : c \in ClicksMade' /\ clicked'[c] = clicked[c]
  BY <1>3 DEF ClicksMade
<1>6. PageTyped' /\ Asked' /\ NumbersTold' /\ BarsTold'
  BY <1>3, <1>4, <1>5, WorldStep
<1>7. log' \in [Messages -> Messaged \union {NoMessage}]
  BY <1>1, <1>2
<1>8. ReportsTyped' /\ Addressed'
  BY <1>3, <1>7 DEF ReportInv, ReportsTyped, Addressed, Messaged
<1> QED
  BY <1>6, <1>8 DEF ReportInv

(* Half a day passes, or a visitor follows a link.                         *)
LEMMA ClickSteps ==
  ASSUME ReportInv, Pages!Pass \/ \E c \in Clicks : Pages!Click(c)
  PROVE  ReportInv'
<1>1. hour \in Nat \ {0} /\ clicked \in [Clicks -> Nat]
  BY DEF ReportInv, ReportsTyped
<1>2. UNCHANGED <<log, slug, slugs, list, crossed, page>> /\ hour' \in Nat \ {0}
  BY <1>1 DEF Pages!Pass, Pages!Click
<1>3. /\ clicked' \in [Clicks -> Nat]
      /\ \A c \in ClicksMade : c \in ClicksMade' /\ clicked'[c] = clicked[c]
  <2>1. CASE Pages!Pass
    BY <1>1, <2>1 DEF Pages!Pass, ClicksMade
  <2>2. ASSUME NEW c \in Clicks, Pages!Click(c)
        PROVE  /\ clicked' \in [Clicks -> Nat]
               /\ \A x \in ClicksMade : x \in ClicksMade' /\ clicked'[x] = clicked[x]
    BY <1>1, <2>2 DEF Pages!Click, ClicksMade
  <2> QED
    BY <2>1, <2>2
<1>4. \A r \in Sent : r \in Sent' /\ log'[r] = log[r]
  BY <1>2 DEF Sent
<1>5. PageTyped' /\ Asked' /\ NumbersTold' /\ BarsTold'
  BY <1>2, <1>3, <1>4, WorldStep
<1>6. ReportsTyped' /\ Addressed'
  BY <1>2, <1>3 DEF ReportInv, ReportsTyped, Addressed, Messaged
<1> QED
  BY <1>5, <1>6 DEF ReportInv

(* A list reads the campaign's slug, or gives it one.                      *)
LEMMA ListSteps ==
  ASSUME ReportInv, NEW l \in Lists, Pages!ReadList(l) \/ Pages!AssignSlug(l)
  PROVE  ReportInv'
<1>1. /\ list \in [Lists -> [pc : {"none", "assign", "answered"}, slug : Nat]]
      /\ slug \in Nat /\ slugs \in Nat /\ crossed \in BOOLEAN
  BY DEF ReportInv, ReportsTyped
<1>2. UNCHANGED <<hour, log, clicked, page>>
  BY DEF Pages!ReadList, Pages!AssignSlug
<1>3. /\ \A r \in Sent : r \in Sent' /\ log'[r] = log[r]
      /\ \A c \in ClicksMade : c \in ClicksMade' /\ clicked'[c] = clicked[c]
  BY <1>2 DEF Sent, ClicksMade
<1>4. PageTyped' /\ Asked' /\ NumbersTold' /\ BarsTold'
  BY <1>2, <1>3, WorldStep
<1>5. CASE Pages!ReadList(l)
  <2> DEFINE q == [pc |-> IF slug = 0 THEN "assign" ELSE "answered", slug |-> slug]
  <2>1. list' = [list EXCEPT ![l] = q] /\ UNCHANGED <<slug, slugs, crossed>>
    BY <1>5 DEF Pages!ReadList
  <2>2. q \in [pc : {"none", "assign", "answered"}, slug : Nat]
    BY <1>1
  <2>3. q.pc = "answered" => q.slug # 0 /\ q.slug = slug
    OBVIOUS
  <2> HIDE DEF q
  <2>4. list' \in [Lists -> [pc : {"none", "assign", "answered"}, slug : Nat]]
    BY <1>1, <2>1, <2>2
  <2>5. Addressed'
    BY <1>1, <2>1, <2>3 DEF ReportInv, Addressed
  <2> QED
    BY <1>2, <1>4, <2>1, <2>4, <2>5 DEF ReportInv, ReportsTyped
<1>6. CASE Pages!AssignSlug(l)
  <2> DEFINE q == [pc |-> "answered", slug |-> slugs + 1]
  <2>1. /\ list' = [list EXCEPT ![l] = q] /\ slugs' = slugs + 1 /\ slug' = slugs + 1
        /\ crossed' = (crossed \/ slug # 0)
    BY <1>6 DEF Pages!AssignSlug
  <2>2. q \in [pc : {"none", "assign", "answered"}, slug : Nat] /\ q.slug # 0 /\ q.slug = slug'
    BY <1>1, <2>1
  <2> HIDE DEF q
  <2>3. list' \in [Lists -> [pc : {"none", "assign", "answered"}, slug : Nat]]
    BY <1>1, <2>1, <2>2
  <2>4. Addressed'
    <3>1. ASSUME NEW x \in Lists, list'[x].pc = "answered"
          PROVE  list'[x].slug # 0 /\ (~crossed' => list'[x].slug = slug')
      <4>1. CASE x = l
        BY <1>1, <2>1, <2>2, <4>1
      <4>2. CASE x # l
        <5>1. list'[x] = list[x]
          BY <1>1, <2>1, <4>2
        <5>2. list[x].slug # 0 /\ (~crossed => list[x].slug = slug)
          BY <3>1, <5>1 DEF ReportInv, Addressed
        <5>3. ~crossed' => slug = 0 /\ ~crossed
          BY <2>1
        <5> QED
          BY <5>1, <5>2, <5>3
      <4> QED
        BY <4>1, <4>2
    <3> QED
      BY <3>1 DEF Addressed
  <2>5. slug' \in Nat /\ slugs' \in Nat /\ crossed' \in BOOLEAN
    BY <1>1, <2>1
  <2> QED
    BY <1>2, <1>4, <2>3, <2>4, <2>5 DEF ReportInv, ReportsTyped
<1> QED
  BY <1>5, <1>6

(* A page is opened.                                                       *)
LEMMA OpenStep ==
  ASSUME ReportInv, NEW kind \in {"list", "report", "dashboard"}, Pages!Open(kind)
  PROVE  ReportInv'
<1>1. /\ page = Pages!NoPage
      /\ page' = [Pages!NoPage EXCEPT !.pc = "first", !.kind = kind, !.today = Day(hour),
                                      !.before = Sent, !.clicksBefore = ClicksMade]
      /\ UNCHANGED <<hour, log, clicked, slug, slugs, list, crossed>>
  BY PagesIs DEF Pages!Open
<1>2. page' = [pc |-> "first", kind |-> kind, today |-> Day(hour), before |-> Sent,
               clicksBefore |-> ClicksMade, got |-> <<>>, bars |-> <<>>]
  BY <1>1 DEF Pages!NoPage
<1>3. Day(hour) \in Nat
  BY DEF ReportInv, ReportsTyped, Day
<1>4. Sent' = Sent /\ ClicksMade' = ClicksMade
  BY <1>1 DEF Sent, ClicksMade
<1>5. PageTyped'
  BY <1>2, <1>3, <1>4 DEF PageTyped
<1>6. page'.pc = "first" /\ page'.kind = kind /\ DOMAIN page'.got = {} /\ DOMAIN page'.bars = {}
  BY <1>2
<1>7. Asked' /\ NumbersTold' /\ BarsTold'
  BY <1>6 DEF Asked, NumbersTold, BarsTold
<1>8. ReportsTyped' /\ Addressed'
  BY <1>1 DEF ReportInv, ReportsTyped, Addressed
<1> QED
  BY <1>5, <1>7, <1>8 DEF ReportInv

(* What the numbers of the dashboard count stays as it is while nothing is *)
(* sent and the page keeps its day.                                        *)
LEMMA SinceSame ==
  ASSUME UNCHANGED log, Sent' = Sent, page'.before = page.before, page'.today = page.today
  PROVE  \A q \in {"today", "week", "month"} :
           /\ From(q)' = From(q)
           /\ Since(page.before, From(q))' = Since(page.before, From(q))
           /\ Since(Sent, From(q))' = Since(Sent, From(q))
<1> SUFFICES ASSUME NEW q \in {"today", "week", "month"}
             PROVE  /\ From(q)' = From(q)
                    /\ Since(page.before, From(q))' = Since(page.before, From(q))
                    /\ Since(Sent, From(q))' = Since(Sent, From(q))
  OBVIOUS
<1>1. From(q)' = From(q)
  BY DEF From, Midnight, WeekStart, MonthStart
<1> QED
  BY <1>1 DEF Since

(* A page that keeps its day and its numbers was told them truly, if       *)
(* nothing is sent.                                                        *)
LEMMA NumbersSame ==
  ASSUME NumbersTold, UNCHANGED log, Sent' = Sent, ClicksMade' = ClicksMade,
         page'.before = page.before, page'.clicksBefore = page.clicksBefore,
         page'.today = page.today, page'.got = page.got
  PROVE  NumbersTold'
<1> SUFFICES ASSUME NEW q \in DOMAIN page'.got
             PROVE  /\ page'.got[q] \in Nat
                    /\ q = "sent" => Told(page'.got[q], page'.before, Sent')
                    /\ q = "clicks" => Told(page'.got[q], page'.clicksBefore, ClicksMade')
                    /\ q \in {"today", "week", "month"} =>
                         Told(page'.got[q], Since(page.before, From(q))', Since(Sent, From(q))')
  BY DEF NumbersTold, ToldSince, Told
<1>1. /\ page.got[q] \in Nat
      /\ q = "sent" => Told(page.got[q], page.before, Sent)
      /\ q = "clicks" => Told(page.got[q], page.clicksBefore, ClicksMade)
      /\ q \in {"today", "week", "month"} =>
           Told(page.got[q], Since(page.before, From(q)), Since(Sent, From(q)))
  BY DEF NumbersTold, ToldSince
<1> QED
  BY <1>1, SinceSame

(* The first numbers of a page are asked for.                              *)
LEMMA AskStep ==
  ASSUME ReportInv, NEW q \in Pages!OfDashboard, Pages!Ask(q)
  PROVE  ReportInv'
<1> DEFINE n == Pages!Count(q)
<1>1. /\ page.pc = "first" /\ q \in Pages!First(page.kind)
      /\ page' = [page EXCEPT !.got = Pages!Answered(page.got, q, n)]
      /\ UNCHANGED <<hour, log, clicked, slug, slugs, list, crossed>>
  BY DEF Pages!Ask
<1>2. Sent' = Sent /\ ClicksMade' = ClicksMade
  BY <1>1 DEF Sent, ClicksMade
<1>3. page.before \subseteq Sent /\ page.clicksBefore \subseteq ClicksMade
  BY DEF ReportInv, PageTyped
<1>4. Sent \subseteq Messages /\ ClicksMade \subseteq Clicks
  BY DEF Sent, ClicksMade
<1>5. n \in Nat
  /\ (q = "sent" => Told(n, page.before, Sent))
  /\ (q = "clicks" => Told(n, page.clicksBefore, ClicksMade))
  /\ (q \in {"today", "week", "month"} => ToldSince(n, From(q)))
  <2>1. CASE q = "sent"
    <3>1. n = Cardinality(Sent)
      BY <2>1, PagesIs DEF Pages!Count
    <3> QED
      BY <1>3, <1>4, <2>1, <3>1, Finite, ToldNow
  <2>2. CASE q = "clicks"
    <3>1. n = Cardinality(ClicksMade)
      BY <2>2, PagesIs DEF Pages!Count
    <3> QED
      BY <1>3, <1>4, <2>2, <3>1, Finite, ToldNow
  <2>3. CASE q \in {"today", "week", "month"}
    <3>1. n = Cardinality(Since(Sent, From(q)))
      BY <2>3, PagesIs DEF Pages!Count, From
    <3>2. Since(page.before, From(q)) \subseteq Since(Sent, From(q))
          /\ Since(Sent, From(q)) \subseteq Messages
      BY <1>3, <1>4 DEF Since
    <3> QED
      BY <2>3, <3>1, <3>2, Finite, ToldNow DEF ToldSince
  <2> QED
    BY <2>1, <2>2, <2>3 DEF Pages!OfDashboard
<1> HIDE DEF n
<1>6. /\ page'.pc = page.pc /\ page'.kind = page.kind /\ page'.today = page.today
      /\ page'.before = page.before /\ page'.clicksBefore = page.clicksBefore
      /\ page'.bars = page.bars /\ page'.got = Pages!Answered(page.got, q, n)
      /\ PageTyped'
  BY <1>1, <1>2 DEF ReportInv, PageTyped
<1>7. /\ DOMAIN page'.got = DOMAIN page.got \union {q}
      /\ \A x \in DOMAIN page'.got : page'.got[x] = IF x = q THEN n ELSE page.got[x]
  BY <1>6 DEF Pages!Answered
<1>8. Asked'
  BY <1>1, <1>6, <1>7 DEF ReportInv, Asked, Pages!First, Pages!OfList,
                          Pages!OfReport, Pages!OfDashboard
<1>9. NumbersTold'
  <2> SUFFICES ASSUME NEW x \in DOMAIN page'.got
               PROVE  /\ page'.got[x] \in Nat
                      /\ x = "sent" => Told(page'.got[x], page'.before, Sent')
                      /\ x = "clicks" => Told(page'.got[x], page'.clicksBefore, ClicksMade')
                      /\ x \in {"today", "week", "month"} =>
                           Told(page'.got[x], Since(page.before, From(x))', Since(Sent, From(x))')
    BY DEF NumbersTold, ToldSince, Told
  <2>1. CASE x = q
    <3>1. /\ page'.got[x] = n
          /\ q \in {"today", "week", "month"} =>
               Told(n, Since(page.before, From(q)), Since(Sent, From(q)))
      BY <1>5, <1>7, <2>1 DEF ToldSince
    <3> QED
      BY <1>1, <1>2, <1>5, <1>6, <2>1, <3>1, SinceSame
  <2>2. CASE x # q
    <3>1. page'.got[x] = page.got[x] /\ x \in DOMAIN page.got
      BY <1>7, <2>2
    <3>2. /\ page.got[x] \in Nat
          /\ x = "sent" => Told(page.got[x], page.before, Sent)
          /\ x = "clicks" => Told(page.got[x], page.clicksBefore, ClicksMade)
          /\ x \in {"today", "week", "month"} =>
               Told(page.got[x], Since(page.before, From(x)), Since(Sent, From(x)))
      BY <3>1 DEF ReportInv, NumbersTold, ToldSince
    <3> QED
      BY <1>1, <1>2, <1>6, <3>1, <3>2, SinceSame
  <2> QED
    BY <2>1, <2>2
<1>10. BarsTold'
  BY <1>1, <1>6 DEF ReportInv, Asked, BarsTold
<1>11. ReportsTyped' /\ Addressed'
  BY <1>1 DEF ReportInv, ReportsTyped, Addressed
<1> QED
  BY <1>6, <1>8, <1>9, <1>10, <1>11 DEF ReportInv

(* The chart is begun.                                                     *)
LEMMA BeginStep ==
  ASSUME ReportInv, Pages!BeginChart
  PROVE  ReportInv'
<1>1. /\ page.pc = "first" /\ DOMAIN page.got = Pages!First(page.kind)
      /\ page' = [page EXCEPT !.pc = "chart",
                              !.today = IF page.kind = "report" THEN Day(hour) ELSE page.today]
      /\ UNCHANGED <<hour, log, clicked, slug, slugs, list, crossed>>
  BY PagesIs DEF Pages!BeginChart
<1>2. Sent' = Sent /\ ClicksMade' = ClicksMade
  BY <1>1 DEF Sent, ClicksMade
<1>3. Day(hour) \in Nat
  BY DEF ReportInv, ReportsTyped, Day
<1>4. /\ page'.pc = "chart" /\ page'.kind = page.kind
      /\ page.kind # "report" => page'.today = page.today
      /\ page'.before = page.before /\ page'.clicksBefore = page.clicksBefore
      /\ page'.bars = page.bars /\ page'.got = page.got
      /\ PageTyped'
  BY <1>1, <1>2, <1>3 DEF ReportInv, PageTyped
<1>5. DOMAIN page'.bars = {}
  BY <1>1, <1>4 DEF ReportInv, Asked
<1>6. Asked'
  BY <1>1, <1>4, <1>5
     DEF ReportInv, Asked, Pages!First, Pages!OfList, Pages!OfReport, Pages!OfDashboard
<1>7. NumbersTold'
  <2>1. CASE page.kind = "report"
    <3>1. DOMAIN page'.got = {"sent", "clicks"}
      BY <1>1, <1>4, <2>1 DEF Pages!First, Pages!OfReport
    <3> QED
      BY <1>2, <1>4, <3>1 DEF ReportInv, NumbersTold, Told
  <2>2. CASE page.kind # "report"
    BY <1>1, <1>2, <1>4, <2>2, NumbersSame DEF ReportInv
  <2> QED
    BY <2>1, <2>2
<1>8. BarsTold'
  BY <1>5 DEF BarsTold
<1>9. ReportsTyped' /\ Addressed'
  BY <1>1 DEF ReportInv, ReportsTyped, Addressed
<1> QED
  BY <1>4, <1>6, <1>7, <1>8, <1>9 DEF ReportInv

(* A moment is in the window of its day and of no other.                   *)
LEMMA WindowIs ==
  ASSUME NEW at \in Nat, NEW d \in Nat
  PROVE  at \in Pages!DayWindow(d) <=> Day(at) = d
BY DEF Pages!DayWindow, Pages!Midnight, Day

(* A day of the chart is asked for.                                        *)
LEMMA AskDayStep ==
  ASSUME ReportInv, NEW bar, Pages!AskDay(bar)
  PROVE  ReportInv'
<1> DEFINE n == IF bar[1] = "sent" THEN Pages!SentOn(bar[2]) ELSE Pages!ClicksOn(bar[2])
<1>1. /\ page.pc = "chart" /\ bar \in Pages!Bars \ DOMAIN page.bars
      /\ page' = [page EXCEPT !.bars = Pages!Answered(page.bars, bar, n)]
      /\ UNCHANGED <<hour, log, clicked, slug, slugs, list, crossed>>
  BY DEF Pages!AskDay, Pages!Missing
<1>2. Sent' = Sent /\ ClicksMade' = ClicksMade /\ SentDay' = SentDay /\ ClickDay' = ClickDay
  BY <1>1 DEF Sent, ClicksMade, SentDay, ClickDay, Day
<1>3. page.before \subseteq Sent /\ page.clicksBefore \subseteq ClicksMade
  BY DEF ReportInv, PageTyped
<1>4. Sent \subseteq Messages /\ ClicksMade \subseteq Clicks
  BY DEF Sent, ClicksMade
<1>5. bar[2] \in Nat /\ bar[1] \in {"sent", "clicks"}
  BY <1>1 DEF ReportInv, PageTyped, Asked, Pages!Bars, Pages!ChartDays
<1>6. n \in Nat
  /\ (bar[1] = "sent" => Told(n, OnDay(page.before, SentDay, bar[2]), OnDay(Sent, SentDay, bar[2])))
  /\ (bar[1] = "clicks" => Told(n, OnDay(page.clicksBefore, ClickDay, bar[2]),
                                OnDay(ClicksMade, ClickDay, bar[2])))
  <2>1. CASE bar[1] = "sent"
    <3>1. \A r \in Sent : log[r].at \in Nat
      BY DEF Sent, ReportInv, ReportsTyped, Messaged
    <3>2. \A r \in Sent : log[r].at \in Pages!DayWindow(bar[2]) <=> SentDay[r] = bar[2]
      BY <1>4, <1>5, <3>1, WindowIs DEF SentDay
    <3>3. n = Cardinality(OnDay(Sent, SentDay, bar[2]))
      <4>1. {r \in Sent : log[r].at \in Pages!DayWindow(bar[2])} = OnDay(Sent, SentDay, bar[2])
        BY <3>2 DEF OnDay
      <4> QED
        BY <2>1, <4>1, PagesIs DEF Pages!SentOn
    <3>4. /\ OnDay(page.before, SentDay, bar[2]) \subseteq OnDay(Sent, SentDay, bar[2])
          /\ OnDay(Sent, SentDay, bar[2]) \subseteq Messages
      BY <1>3, <1>4 DEF OnDay
    <3> QED
      BY <2>1, <3>3, <3>4, Finite, ToldNow
  <2>2. CASE bar[1] = "clicks"
    <3>1. \A c \in ClicksMade : clicked[c] \in Nat
      BY <1>4 DEF ReportInv, ReportsTyped
    <3>2. \A c \in ClicksMade : clicked[c] \in Pages!DayWindow(bar[2]) <=> ClickDay[c] = bar[2]
      BY <1>4, <1>5, <3>1, WindowIs DEF ClickDay
    <3>3. n = Cardinality(OnDay(ClicksMade, ClickDay, bar[2]))
      <4>1. {c \in ClicksMade : clicked[c] \in Pages!DayWindow(bar[2])}
              = OnDay(ClicksMade, ClickDay, bar[2])
        BY <3>2 DEF OnDay
      <4> QED
        BY <2>2, <4>1, PagesIs DEF Pages!ClicksOn
    <3>4. /\ OnDay(page.clicksBefore, ClickDay, bar[2])
               \subseteq OnDay(ClicksMade, ClickDay, bar[2])
          /\ OnDay(ClicksMade, ClickDay, bar[2]) \subseteq Clicks
      BY <1>3, <1>4 DEF OnDay
    <3> QED
      BY <2>2, <3>3, <3>4, Finite, ToldNow
  <2> QED
    BY <1>5, <2>1, <2>2
<1> HIDE DEF n
<1>7. /\ page'.pc = page.pc /\ page'.kind = page.kind /\ page'.today = page.today
      /\ page'.before = page.before /\ page'.clicksBefore = page.clicksBefore
      /\ page'.got = page.got /\ page'.bars = Pages!Answered(page.bars, bar, n)
      /\ PageTyped'
  BY <1>1, <1>2 DEF ReportInv, PageTyped
<1>8. /\ DOMAIN page'.bars = DOMAIN page.bars \union {bar}
      /\ \A x \in DOMAIN page'.bars : page'.bars[x] = IF x = bar THEN n ELSE page.bars[x]
  BY <1>7 DEF Pages!Answered
<1>9. Asked'
  BY <1>1, <1>7, <1>8
     DEF ReportInv, Asked, Pages!First, Pages!OfList, Pages!OfReport, Pages!OfDashboard,
         Pages!Bars, Pages!ChartDays
<1>10. NumbersTold'
  BY <1>1, <1>2, <1>7, NumbersSame DEF ReportInv
<1>11. BarsTold'
  <2> SUFFICES ASSUME NEW x \in DOMAIN page'.bars
               PROVE  /\ page'.bars[x] \in Nat
                      /\ x[1] = "sent" =>
                           Told(page'.bars[x], OnDay(page.before, SentDay, x[2]),
                                OnDay(Sent, SentDay, x[2]))
                      /\ x[1] = "clicks" =>
                           Told(page'.bars[x], OnDay(page.clicksBefore, ClickDay, x[2]),
                                OnDay(ClicksMade, ClickDay, x[2]))
    BY <1>2, <1>7 DEF BarsTold, Told, OnDay
  <2>1. CASE x = bar
    BY <1>6, <1>8, <2>1
  <2>2. CASE x # bar
    BY <1>8, <2>2 DEF ReportInv, BarsTold
  <2> QED
    BY <2>1, <2>2
<1>12. ReportsTyped' /\ Addressed'
  BY <1>1 DEF ReportInv, ReportsTyped, Addressed
<1> QED
  BY <1>7, <1>9, <1>10, <1>11, <1>12 DEF ReportInv

(* A page is answered, when no bar of its chart is missing.                *)
LEMMA RespondStep ==
  ASSUME ReportInv, Pages!Respond
  PROVE  ReportInv'
<1>1. /\ page.pc = "chart" /\ Pages!Bars \subseteq DOMAIN page.bars
      /\ page' = [page EXCEPT !.pc = "answered"]
      /\ UNCHANGED <<hour, log, clicked, slug, slugs, list, crossed>>
  BY DEF Pages!Respond, Pages!Missing
<1>2. Sent' = Sent /\ ClicksMade' = ClicksMade /\ SentDay' = SentDay /\ ClickDay' = ClickDay
  BY <1>1 DEF Sent, ClicksMade, SentDay, ClickDay, Day
<1>3. /\ page'.pc = "answered" /\ page'.kind = page.kind /\ page'.today = page.today
      /\ page'.before = page.before /\ page'.clicksBefore = page.clicksBefore
      /\ page'.bars = page.bars /\ page'.got = page.got
      /\ PageTyped'
  BY <1>1, <1>2 DEF ReportInv, PageTyped
<1>4. Asked'
  <2>1. Pages!Bars' = Pages!Bars
    BY <1>3 DEF Pages!Bars, Pages!ChartDays
  <2> QED
    BY <1>1, <1>3, <2>1 DEF ReportInv, Asked, Pages!First, Pages!OfList, Pages!OfReport,
                            Pages!OfDashboard
<1>5. NumbersTold'
  BY <1>1, <1>2, <1>3, NumbersSame DEF ReportInv
<1>6. BarsTold'
  BY <1>2, <1>3 DEF ReportInv, BarsTold, Told, OnDay
<1>7. ReportsTyped' /\ Addressed'
  BY <1>1 DEF ReportInv, ReportsTyped, Addressed
<1> QED
  BY <1>3, <1>4, <1>5, <1>6, <1>7 DEF ReportInv

(* No step of the reports breaks it.                                       *)
LEMMA ReportStep == ReportInv /\ [Pages!Next]_(Pages!vars) => ReportInv'
<1> SUFFICES ASSUME ReportInv, [Pages!Next]_(Pages!vars) PROVE ReportInv'
  OBVIOUS
<1>1. CASE Pages!Pass \/ \E c \in Clicks : Pages!Click(c)
  BY <1>1, ClickSteps
<1>2. CASE \E r \in Messages : Pages!Record(r) \/ Pages!Settle(r)
  BY <1>2, MessageSteps
<1>3. CASE \E l \in Lists : Pages!ReadList(l) \/ Pages!AssignSlug(l)
  BY <1>3, ListSteps
<1>4. CASE \E kind \in {"list", "report", "dashboard"} : Pages!Open(kind)
  BY <1>4, OpenStep
<1>5. CASE \E q \in Pages!OfDashboard : Pages!Ask(q)
  BY <1>5, AskStep
<1>6. CASE \E bar \in {"sent", "clicks"} \X (0 .. Pages!Day(LastHour)) : Pages!AskDay(bar)
  BY <1>6, AskDayStep
<1>7. CASE Pages!BeginChart
  BY <1>7, BeginStep
<1>8. CASE Pages!Respond
  BY <1>8, RespondStep
<1>9. CASE UNCHANGED Pages!vars
  <2>1. UNCHANGED <<hour, log, clicked, slug, slugs, list, crossed, page>>
    BY <1>9 DEF Pages!vars
  <2>2. /\ \A r \in Sent : r \in Sent' /\ log'[r] = log[r]
        /\ \A c \in ClicksMade : c \in ClicksMade' /\ clicked'[c] = clicked[c]
    BY <2>1 DEF Sent, ClicksMade
  <2>3. PageTyped' /\ Asked' /\ NumbersTold' /\ BarsTold'
    BY <2>1, <2>2, WorldStep
  <2>4. ReportsTyped' /\ Addressed'
    BY <2>1 DEF ReportInv, ReportsTyped, Addressed
  <2> QED
    BY <2>3, <2>4 DEF ReportInv
<1> QED
  BY <1>1, <1>2, <1>3, <1>4, <1>5, <1>6, <1>7, <1>8, <1>9 DEF Pages!Next

(* Of the things that happened on[x], those of the days of the chart.      *)
Charted(S, on) == {x \in S : on[x] \in ChartDays(page.today)}

(* The sum of a chart was true, of what happened in its days, when its     *)
(* bars were.                                                              *)
LEMMA ChartTold ==
  ASSUME page.today \in Nat, NEW what, NEW lower, NEW upper, IsFiniteSet(upper),
         lower \subseteq upper, NEW on, \A x \in upper : on[x] \in Nat,
         \A d \in ChartDays(page.today) :
           Bar(what, d) \in Nat
           /\ Told(Bar(what, d), OnDay(lower, on, d), OnDay(upper, on, d)),
         \A d \in (0 .. page.today) \ ChartDays(page.today) : Bar(what, d) = 0
  PROVE  Told(Total(what), Charted(lower, on), Charted(upper, on))
<1> DEFINE low == Charted(lower, on)
           up  == Charted(upper, on)
<1>1. ChartDays(page.today) \subseteq 0 .. page.today
  BY DEF ChartDays
<1>2. low \subseteq up /\ up \subseteq upper
  BY DEF Charted
<1>3. IsFiniteSet(low) /\ IsFiniteSet(up)
  BY <1>2, FS_Subset
<1>4. Before(low, on, page.today + 1) = low /\ Before(up, on, page.today + 1) = up
  BY <1>1 DEF Before, Charted
<1>5. ASSUME NEW d \in 0 .. page.today
      PROVE  Bar(what, d) \in Nat /\ Told(Bar(what, d), OnDay(low, on, d), OnDay(up, on, d))
  <2>1. CASE d \in ChartDays(page.today)
    <3>1. OnDay(low, on, d) = OnDay(lower, on, d) /\ OnDay(up, on, d) = OnDay(upper, on, d)
      BY <2>1 DEF OnDay, Charted
    <3> HIDE DEF low, up
    <3> QED
      BY <2>1, <3>1
  <2>2. CASE d \notin ChartDays(page.today)
    <3>1. OnDay(low, on, d) = {} /\ OnDay(up, on, d) = {}
      BY <2>2 DEF OnDay, Charted
    <3>2. Bar(what, d) = 0
      BY <2>2
    <3>3. Cardinality({}) = 0
      BY FS_EmptySet
    <3> HIDE DEF low, up
    <3> QED
      BY <3>1, <3>2, <3>3 DEF Told
  <2> QED
    BY <2>1, <2>2
<1>6. \A x \in low \union up : on[x] \in Nat
  BY <1>2
<1> HIDE DEF low, up
<1>7. Told(Total(what), Before(low, on, page.today + 1), Before(up, on, page.today + 1))
  BY <1>3, <1>5, <1>6, TotalTold
<1> QED
  BY <1>4, <1>7 DEF low, up

(* What makes a page true is in the invariant.                             *)
LEMMA ReportInvPages == ReportInv => PagesAreTrue
<1> SUFFICES ASSUME ReportInv PROVE PagesAreTrue
  OBVIOUS
<1>1. /\ page.before \subseteq Sent /\ page.clicksBefore \subseteq ClicksMade
      /\ page.today \in Nat
      /\ page.kind \in {"none", "list", "report", "dashboard"}
  BY DEF ReportInv, PageTyped
<1>2. Sent \subseteq Messages /\ ClicksMade \subseteq Clicks
  BY DEF Sent, ClicksMade
<1>3. IsFiniteSet(Sent) /\ IsFiniteSet(ClicksMade)
  BY <1>2, Finite
<1>4. /\ \A r \in Sent : SentDay[r] = Day(log[r].at) /\ SentDay[r] \in Nat
      /\ \A c \in ClicksMade : ClickDay[c] = Day(clicked[c]) /\ ClickDay[c] \in Nat
  <2>1. \A r \in Sent : log[r].at \in Nat
    BY DEF Sent, ReportInv, ReportsTyped, Messaged
  <2>2. \A c \in ClicksMade : clicked[c] \in Nat
    BY <1>2 DEF ReportInv, ReportsTyped
  <2>3. \A h \in Nat : Day(h) \in Nat
    BY DEF Day
  <2> QED
    BY <1>2, <2>1, <2>2, <2>3 DEF SentDay, ClickDay
<1>5. ASSUME page.pc = "answered"
      PROVE  /\ Told(page.got["sent"], page.before, Sent)
             /\ Told(page.got["clicks"], page.clicksBefore, ClicksMade)
             /\ page.kind = "dashboard" =>
                  /\ ToldSince(page.got["today"], Midnight(page.today))
                  /\ ToldSince(page.got["week"], Midnight(WeekStart(page.today)))
                  /\ ToldSince(page.got["month"], Midnight(MonthStart(page.today)))
  <2>1. page.kind \in {"list", "report", "dashboard"}
        /\ DOMAIN page.got = Pages!First(page.kind)
    BY <1>1, <1>5 DEF ReportInv, Asked
  <2>2. /\ {"sent", "clicks"} \subseteq DOMAIN page.got
        /\ page.kind = "dashboard" => {"today", "week", "month"} \subseteq DOMAIN page.got
    BY <2>1 DEF Pages!First, Pages!OfList, Pages!OfReport, Pages!OfDashboard
  <2>3. /\ From("today") = Midnight(page.today)
        /\ From("week") = Midnight(WeekStart(page.today))
        /\ From("month") = Midnight(MonthStart(page.today))
    BY DEF From
  <2> QED
    BY <2>2, <2>3 DEF ReportInv, NumbersTold
<1>6. ASSUME page.pc = "answered", page.kind # "list"
      PROVE  Told(Total("sent"), RowsOfChart(page.before), RowsOfChart(Sent))
  <2>1. page.kind \in {"report", "dashboard"}
        /\ DOMAIN page.bars = Pages!Bars
    BY <1>1, <1>6 DEF ReportInv, Asked
  <2>2. \A d : <<"sent", d>> \in DOMAIN page.bars <=> d \in ChartDays(page.today)
    BY <2>1, PagesIs DEF Pages!Bars
  <2>3. \A d \in ChartDays(page.today) :
          /\ Bar("sent", d) \in Nat
          /\ Told(Bar("sent", d), OnDay(page.before, SentDay, d), OnDay(Sent, SentDay, d))
    BY <2>2 DEF Bar, ReportInv, BarsTold
  <2>4. \A d \in (0 .. page.today) \ ChartDays(page.today) : Bar("sent", d) = 0
    BY <2>2 DEF Bar
  <2>5. Told(Total("sent"), Charted(page.before, SentDay), Charted(Sent, SentDay))
    BY <1>1, <1>3, <1>4, <2>3, <2>4, ChartTold
  <2>6. /\ Charted(page.before, SentDay) = RowsOfChart(page.before)
        /\ Charted(Sent, SentDay) = RowsOfChart(Sent)
    BY <1>1, <1>4 DEF RowsOfChart, Charted
  <2> QED
    BY <2>5, <2>6
<1>7. ASSUME page.pc = "answered", page.kind = "report"
      PROVE  Told(Total("clicks"), ClicksOfChart(page.clicksBefore), ClicksOfChart(ClicksMade))
  <2>1. DOMAIN page.bars = Pages!Bars
    BY <1>7 DEF ReportInv, Asked
  <2>2. \A d : <<"clicks", d>> \in DOMAIN page.bars <=> d \in ChartDays(page.today)
    BY <1>7, <2>1, PagesIs DEF Pages!Bars
  <2>3. \A d \in ChartDays(page.today) :
          /\ Bar("clicks", d) \in Nat
          /\ Told(Bar("clicks", d), OnDay(page.clicksBefore, ClickDay, d),
                  OnDay(ClicksMade, ClickDay, d))
    BY <2>2 DEF Bar, ReportInv, BarsTold
  <2>4. \A d \in (0 .. page.today) \ ChartDays(page.today) : Bar("clicks", d) = 0
    BY <2>2 DEF Bar
  <2>5. Told(Total("clicks"), Charted(page.clicksBefore, ClickDay),
                              Charted(ClicksMade, ClickDay))
    BY <1>1, <1>3, <1>4, <2>3, <2>4, ChartTold
  <2>6. /\ Charted(page.clicksBefore, ClickDay) = ClicksOfChart(page.clicksBefore)
        /\ Charted(ClicksMade, ClickDay) = ClicksOfChart(ClicksMade)
    BY <1>1, <1>4 DEF ClicksOfChart, Charted
  <2> QED
    BY <2>5, <2>6
<1>8. ~crossed => \A l \in Lists : list[l].pc = "answered" => list[l].slug = slug
  BY DEF ReportInv, Addressed
<1> QED
  BY <1>5, <1>6, <1>7, <1>8 DEF PagesAreTrue

(* Every number of a report, of the dashboard and of the list of campaigns *)
(* was true at some moment while the page was put together, the sums of    *)
(* its charts included, whatever was sent or clicked in between and though *)
(* midnight passed; and a report's address leads to it unless two lists    *)
(* gave the campaign a slug at once.                                       *)
THEOREM NumbersAreTrue == Pages!Spec => []PagesAreTrue
<1>1. Pages!Init => ReportInv
  BY ReportInit
<1>2. ReportInv /\ [Pages!Next]_(Pages!vars) => ReportInv'
  BY ReportStep
<1>3. ReportInv => PagesAreTrue
  BY ReportInvPages
<1> QED
  BY <1>1, <1>2, <1>3, PTL DEF Pages!Spec

-----------------------------------------------------------------------------
(* PostPicker.                                                             *)

Awaited == \E r \in requests : r.live

(* One request at most is live, of the account chosen and with the picker  *)
(* on the page; a copy it came with is in the grid.                        *)
OneLive ==
  /\ \A r, s \in requests : r.live /\ s.live => r = s
  /\ \A r \in requests : r.live => shown /\ r.of = account /\ (r.copy => posts = account)

(* With none live, the grid is the account's or a message is in its place. *)
Settled == shown /\ account # None => Awaited \/ posts = account \/ error

PickerInv == Picker!TypeOK /\ OneLive /\ Settled

(* Nothing but the posts of the account gets into the grid while the user  *)
(* stays with it and the picker stays on the page.                         *)
NotOverwritten ==
  account # None /\ account' = account /\ shown /\ shown' => posts' \in {posts, account}

(* What is cancelled is not live.                                          *)
LEMMA CancelledIs ==
  ASSUME Picker!TypeOK
  PROVE  Picker!Cancelled \subseteq Picker!Requests /\ \A r \in Picker!Cancelled : ~r.live
BY DEF Picker!TypeOK, Picker!Cancelled, Picker!Requests

(* The effect for an account leaves one live request, for that account.    *)
LEMMA LoadIs ==
  ASSUME Picker!TypeOK, NEW a \in Accounts \union {None}, NEW old \in Accounts \union {None},
         Picker!Load(a, old), account' = a, shown'
  PROVE  /\ requests' \subseteq Picker!Requests /\ posts' \in {a, old}
         /\ OneLive' /\ Awaited'
<1>1. PICK copy \in BOOLEAN :
        /\ posts' = IF copy THEN a ELSE old
        /\ requests' = Picker!Cancelled \union {[of |-> a, live |-> TRUE, copy |-> copy]}
  BY DEF Picker!Load
<1> DEFINE new == [of |-> a, live |-> TRUE, copy |-> copy]
<1>2. new \in Picker!Requests /\ new.live /\ new.of = a /\ new.copy = copy
  BY DEF Picker!Requests
<1> HIDE DEF new
<1>3. requests' = Picker!Cancelled \union {new}
  BY <1>1 DEF new
<1>4. \A r \in requests' : r.live => r = new
  BY <1>3, CancelledIs
<1>5. OneLive'
  BY <1>1, <1>2, <1>4 DEF OneLive
<1>6. Awaited'
  BY <1>2, <1>3 DEF Awaited
<1> QED
  BY <1>1, <1>2, <1>3, <1>5, <1>6, CancelledIs

(* The steps of the builder.                                               *)
LEMMA BuilderSteps ==
  ASSUME PickerInv,
         \/ \E a \in Accounts : Picker!AccountsLoaded(a) \/ Picker!Select(a)
         \/ Picker!Hide \/ Picker!Show \/ Picker!Prefill
  PROVE  PickerInv' /\ NotOverwritten
<1>1. /\ account \in Accounts \union {None} /\ posts \in Accounts \union {None}
      /\ post \in Accounts \union {None} /\ requests \subseteq Picker!Requests
      /\ Picker!TypeOK
  BY DEF PickerInv, Picker!TypeOK
<1>2. ASSUME NEW a \in Accounts \union {None}, NEW old \in Accounts \union {None},
             Picker!Load(a, old), account' = a, shown', post' \in Accounts \union {None}
      PROVE  PickerInv' /\ posts' \in {a, old}
  <2>1. /\ requests' \subseteq Picker!Requests /\ posts' \in {a, old} /\ OneLive' /\ Awaited'
    BY <1>1, <1>2, LoadIs
  <2>2. Picker!TypeOK'
    BY <1>1, <1>2, <2>1 DEF Picker!TypeOK
  <2> QED
    BY <2>1, <2>2 DEF PickerInv, Settled
<1>3. ASSUME UNCHANGED <<account, shown, posts, error, requests>>, post' \in Accounts \union {None}
      PROVE  PickerInv' /\ NotOverwritten
  BY <1>3 DEF PickerInv, Picker!TypeOK, OneLive, Settled, Awaited, NotOverwritten
<1>4. ASSUME ~shown, ~shown', UNCHANGED <<posts, requests>>,
             account' \in Accounts \union {None}, post' \in Accounts \union {None}
      PROVE  PickerInv' /\ NotOverwritten
  BY <1>4 DEF PickerInv, Picker!TypeOK, OneLive, Settled, Awaited, NotOverwritten
<1>5. ASSUME NEW a \in Accounts, Picker!AccountsLoaded(a) PROVE PickerInv' /\ NotOverwritten
  <2>1. CASE account # None
    BY <1>1, <1>3, <1>5, <2>1 DEF Picker!AccountsLoaded
  <2>2. CASE account = None /\ ~shown
    BY <1>1, <1>4, <1>5, <2>2 DEF Picker!AccountsLoaded
  <2>3. CASE account = None /\ shown
    <3>1. account' = a /\ shown' /\ post' = post /\ Picker!Load(a, posts)
      BY <1>5, <2>3 DEF Picker!AccountsLoaded
    <3> QED
      BY <1>1, <1>2, <2>3, <3>1 DEF NotOverwritten
  <2> QED
    BY <2>1, <2>2, <2>3
<1>6. ASSUME NEW a \in Accounts, Picker!Select(a) PROVE PickerInv' /\ NotOverwritten
  <2>1. /\ account' = a /\ account' # account /\ post' = None /\ shown' = shown
    BY <1>6 DEF Picker!Select
  <2>2. CASE ~shown
    BY <1>1, <1>4, <1>6, <2>1, <2>2 DEF Picker!Select
  <2>3. CASE shown
    <3>1. Picker!Load(a, posts)
      BY <1>6, <2>3 DEF Picker!Select
    <3> QED
      BY <1>1, <1>2, <2>1, <2>3, <3>1 DEF NotOverwritten
  <2> QED
    BY <2>2, <2>3
<1>7. CASE Picker!Hide
  <2>1. /\ ~shown' /\ posts' = None /\ requests' = Picker!Cancelled
        /\ account' = account /\ post' = post
    BY <1>7 DEF Picker!Hide
  <2>2. requests' \subseteq Picker!Requests /\ \A r \in requests' : ~r.live
    BY <1>1, <2>1, CancelledIs
  <2> QED
    BY <1>1, <2>1, <2>2 DEF PickerInv, Picker!TypeOK, OneLive, Settled, NotOverwritten
<1>8. CASE Picker!Show
  <2>1. ~shown /\ shown' /\ Picker!Load(account, None) /\ account' = account /\ post' = post
    BY <1>8 DEF Picker!Show
  <2> QED
    BY <1>1, <1>2, <2>1 DEF NotOverwritten
<1>9. CASE Picker!Prefill
  <2>1. shown' /\ post' = None /\ UNCHANGED <<account, error>>
    BY <1>9 DEF Picker!Prefill
  <2>2. CASE shown
    <3>1. UNCHANGED <<account, posts, error, requests>>
      BY <1>9, <2>2 DEF Picker!Prefill
    <3> QED
      BY <1>1, <2>1, <2>2, <3>1
         DEF PickerInv, Picker!TypeOK, OneLive, Settled, Awaited, NotOverwritten
  <2>3. CASE ~shown
    <3>1. Picker!Load(account, None)
      BY <1>9, <2>3 DEF Picker!Prefill
    <3> QED
      BY <1>1, <1>2, <2>1, <2>3, <3>1 DEF NotOverwritten
  <2> QED
    BY <2>2, <2>3
<1> QED
  BY <1>5, <1>6, <1>7, <1>8, <1>9

(* A request that ends leaves the others as they were.                     *)
LEMMA RequestSteps ==
  ASSUME PickerInv, NEW r, Picker!Answered(r) \/ Picker!Failed(r)
  PROVE  PickerInv' /\ NotOverwritten
<1>1. /\ r \in requests /\ requests' = requests \ {r} /\ r \in Picker!Requests
      /\ UNCHANGED <<account, shown, post>>
  BY DEF Picker!Answered, Picker!Failed, PickerInv, Picker!TypeOK
<1>2. r.live \in BOOLEAN /\ r.copy \in BOOLEAN /\ r.of \in Accounts \union {None}
  BY <1>1 DEF Picker!Requests
<1>3. CASE Picker!Answered(r)
  <2>1. error' = error
    BY <1>3 DEF Picker!Answered
  <2>2. CASE r.live
    <3>1. /\ \A s \in requests' : ~s.live
          /\ r.of = account /\ shown
      BY <1>1, <2>2 DEF PickerInv, OneLive
    <3>2. posts' \in Accounts \union {None} /\ (account # None => posts' = account)
      BY <1>2, <1>3, <2>2, <3>1 DEF Picker!Answered
    <3>3. Picker!TypeOK' /\ OneLive' /\ Settled'
      BY <1>1, <2>1, <3>1, <3>2 DEF PickerInv, Picker!TypeOK, OneLive, Settled
    <3> QED
      BY <3>2, <3>3 DEF PickerInv, NotOverwritten
  <2>3. CASE ~r.live
    <3>1. posts' = posts
      BY <1>3, <2>3 DEF Picker!Answered
    <3> QED
      BY <1>1, <2>1, <2>3, <3>1
         DEF PickerInv, Picker!TypeOK, OneLive, Settled, Awaited, NotOverwritten
  <2> QED
    BY <1>2, <2>2, <2>3
<1>4. CASE Picker!Failed(r)
  <2>1. posts' = posts /\ (error' = (error \/ (r.live /\ ~r.copy)))
    BY <1>4 DEF Picker!Failed
  <2>2. Picker!TypeOK' /\ OneLive' /\ NotOverwritten
    BY <1>1, <2>1 DEF PickerInv, Picker!TypeOK, OneLive, NotOverwritten
  <2>3. Settled'
    <3>1. CASE r.live
      BY <1>1, <1>2, <2>1, <3>1 DEF PickerInv, OneLive, Settled
    <3>2. CASE ~r.live
      BY <1>1, <1>2, <2>1, <3>2 DEF PickerInv, Settled, Awaited
    <3> QED
      BY <1>2, <3>1, <3>2
  <2> QED
    BY <2>2, <2>3 DEF PickerInv
<1> QED
  BY <1>3, <1>4

(* While the user stays with an account no other's posts get into the      *)
(* grid, and as soon as no request for it is under way the grid shows its  *)
(* posts, unless a message is in their place: the cleanup of the effect    *)
(* drops what was asked for earlier (components/post-picker.tsx:98).       *)
THEOREM GridIsNotOverwritten == Picker!Spec => []Settled /\ [][NotOverwritten]_(Picker!vars)
<1>1. Picker!Init => PickerInv
  <2> SUFFICES ASSUME Picker!Init PROVE PickerInv
    OBVIOUS
  <2> DEFINE first == [of |-> account, live |-> TRUE, copy |-> FALSE]
  <2>1. /\ account \in Accounts \union {None} /\ posts = None /\ post = None /\ shown
        /\ requests = {first}
    BY DEF Picker!Init
  <2>2. first \in Picker!Requests /\ first.live /\ first.of = account /\ ~first.copy
    BY <2>1 DEF Picker!Requests
  <2> HIDE DEF first
  <2> QED
    BY <2>1, <2>2 DEF PickerInv, Picker!TypeOK, OneLive, Settled, Awaited
<1>2. PickerInv /\ [Picker!Next]_(Picker!vars) => PickerInv' /\ [NotOverwritten]_(Picker!vars)
  <2> SUFFICES ASSUME PickerInv, [Picker!Next]_(Picker!vars)
               PROVE  PickerInv' /\ [NotOverwritten]_(Picker!vars)
    OBVIOUS
  <2>1. CASE Picker!Pick
    <3>1. UNCHANGED <<account, shown, posts, error, requests>> /\ post' = posts
      BY <2>1 DEF Picker!Pick
    <3> QED
      BY <3>1 DEF PickerInv, Picker!TypeOK, OneLive, Settled, Awaited, NotOverwritten
  <2>2. CASE UNCHANGED Picker!vars
    BY <2>2 DEF Picker!vars, PickerInv, Picker!TypeOK, OneLive, Settled, Awaited
  <2>3. CASE Picker!Next /\ ~Picker!Pick
    <3>1. \/ \/ \E a \in Accounts : Picker!AccountsLoaded(a) \/ Picker!Select(a)
             \/ Picker!Hide \/ Picker!Show \/ Picker!Prefill
          \/ \E r \in Picker!Requests : Picker!Answered(r) \/ Picker!Failed(r)
      BY <2>3 DEF Picker!Next
    <3> QED
      BY <3>1, BuilderSteps, RequestSteps
  <2> QED
    BY <2>1, <2>2, <2>3
<1>3. PickerInv => Settled
  BY DEF PickerInv
<1> QED
  BY <1>1, <1>2, <1>3, PTL DEF Picker!Spec
===============================================================================
