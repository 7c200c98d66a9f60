------------------------------ MODULE EventsTab ------------------------------
(***************************************************************************)
(* The page of a competition (competitions/[id]/page.tsx) with its tab of  *)
(* events and their entries (EventsTab.tsx).  Loading the page takes the   *)
(* tab away and mounts a new one, which asks for the entries of the event  *)
(* selected; a tab that is gone still ends what it has begun, as far as    *)
(* that concerns the page.  Requests are not cancelled, and their answers  *)
(* come in any order.                                                      *)
(***************************************************************************)
EXTENDS Filters, FiniteSets, SequencesExt

CONSTANTS
    Races,      \* ids of events
    Starters,   \* ids of entries
    NoRace,     \* no event is selected
    MaxTabCalls \* bound: requests in flight when the user goes on

ASSUME TabAssumption ==
    /\ IsFiniteSet(Races) /\ NoRace \notin Races
    /\ Starters # {}

VARIABLES
    listed,     \* the events in the database, in their order
    starts,     \* their entries: all, and those drawn into heats
    page,       \* the page: its flags, the events it shows, the one selected
    view,       \* the tab: the entries it shows, and its mode of reordering
    tabCalls,   \* requests in flight
    unsure      \* may the page show other events or entries, unknown to it?

tabVars == <<listed, starts, page, view, tabCalls, unsure>>

-----------------------------------------------------------------------------
Lists   == {s \in SeqOf(Races, Cardinality(Races)) : IsInjective(s)}
Drawing == {d \in [all : SUBSET Starters, drawn : SUBSET Starters] :
              d.drawn \subseteq d.all}
Page    == [loading : BOOLEAN, failed : BOOLEAN, tab : BOOLEAN, events : Lists,
            selected : Races \cup {NoRace}]
View    == [entries : Drawing, loading : BOOLEAN, sorting : BOOLEAN, order : Lists,
            saving : BOOLEAN]
TabCall == [op : {"load", "entries", "create", "seed", "seedAll", "remove",
                  "addEvent", "removeEvent", "order"},
            race : Races \cup {NoRace}, start : Starters, order : Lists,
            entries : Drawing, was : Races \cup {NoRace},
            step : {"write", "read", "answer"}, own : BOOLEAN, stale : BOOLEAN]

(* Types of the events, the entries, the page and the requests.            *)
TabTypeOK ==
    /\ listed \in Lists /\ starts \in [Races -> Drawing]
    /\ page \in Page /\ view \in View /\ tabCalls \in Seq(TabCall)
    /\ unsure \in [events : BOOLEAN, entries : BOOLEAN]

NoStarts == [all |-> {}, drawn |-> {}]
NewView  == [entries |-> NoStarts, loading |-> FALSE, sorting |-> FALSE,
             order |-> <<>>, saving |-> FALSE]
TabAsks(op, race, step) ==
    [op |-> op, race |-> race, start |-> CHOOSE s \in Starters : TRUE, order |-> <<>>,
     entries |-> NoStarts, was |-> NoRace, step |-> step, own |-> TRUE, stale |-> FALSE]
PageAsks(op, race) == [TabAsks(op, race, "write") EXCEPT !.was = page.selected]

(* The tab of events is on the screen.                                     *)
Mounted(p) == p.tab /\ ~p.loading /\ ~p.failed

OfPage == {"load", "addEvent", "removeEvent", "seedAll"}

(* The answers the page waits for, and the requests still to be served,    *)
(* once its tab is gone.                                                   *)
Orphaned(cs) ==
    LET left == Filtered(cs, {n \in DOMAIN cs : cs[n].op \in OfPage \cup {"order"}
                                            \/ cs[n].step = "write"})
    IN  [n \in DOMAIN left |-> [left[n] EXCEPT !.own = @ /\ left[n].op \in OfPage]]

(* The page becomes p, the requests cs.  A new tab, or one in which        *)
(* another event is selected, asks for its entries.                        *)
PageBecomes(p, cs) ==
    LET new  == Mounted(p) /\ ~Mounted(page)
        gone == Mounted(page) /\ ~Mounted(p)
        asks == Mounted(p) /\ (new \/ p.selected # page.selected)
        v    == IF new \/ gone THEN NewView ELSE view
        kept == IF gone THEN Orphaned(cs) ELSE cs
    IN
    /\ page' = p
    /\ IF ~asks THEN view' = v /\ tabCalls' = kept
       ELSE IF p.selected = NoRace
         THEN view' = [v EXCEPT !.entries = NoStarts] /\ tabCalls' = kept
       ELSE /\ view' = [v EXCEPT !.loading = TRUE]
            /\ tabCalls' = Append(kept, TabAsks("entries", p.selected, "read"))

-----------------------------------------------------------------------------
(* What the user does.                                                     *)
Room == Len(tabCalls) < MaxTabCalls

Select(e) ==
    /\ Mounted(page) /\ ~view.sorting /\ e \in ToSet(page.events)
    /\ e # page.selected /\ Room
    /\ PageBecomes([page EXCEPT !.selected = e], tabCalls)
    /\ UNCHANGED <<listed, starts, unsure>>

SwitchTab ==
    /\ ~page.loading /\ ~page.failed /\ Room
    /\ PageBecomes([page EXCEPT !.tab = ~@], tabCalls)
    /\ UNCHANGED <<listed, starts, unsure>>

Send(c) ==
    /\ Room
    /\ tabCalls' = Append(tabCalls, c)
    /\ UNCHANGED <<listed, starts, page, unsure>>

(* Buttons in the list of events.                                          *)
AddEvent ==
    /\ Mounted(page) /\ ~view.sorting
    /\ Send(PageAsks("addEvent", NoRace)) /\ UNCHANGED view

RemoveEvent(e) ==
    /\ Mounted(page) /\ ~view.sorting /\ e \in ToSet(page.events)
    /\ Send(PageAsks("removeEvent", e)) /\ UNCHANGED view

(* Buttons of the event selected, once its entries, or others, have come.  *)
OnRace == Mounted(page) /\ page.selected \in ToSet(page.events) /\ ~view.loading

CreateEntry ==
    OnRace /\ Send(TabAsks("create", page.selected, "write")) /\ UNCHANGED view

Seed ==
    OnRace /\ Send(TabAsks("seed", page.selected, "write")) /\ UNCHANGED view

(* The entries the tab shows are remembered as of the confirmation.        *)
RemoveEntry(s) ==
    /\ OnRace /\ s \in view.entries.all
    /\ Send([TabAsks("remove", page.selected, "write")
               EXCEPT !.start = s, !.entries = view.entries])
    /\ UNCHANGED view

Reorder ==
    /\ Mounted(page) /\ Len(page.events) > 1 /\ Room
    /\ view' = [view EXCEPT !.sorting = ~@,
                            !.order = IF view.sorting THEN <<>> ELSE page.events]
    /\ UNCHANGED <<listed, starts, page, tabCalls, unsure>>

(* An event is dropped on another one's place, or moved by an arrow.       *)
Move(i, j) ==
    /\ view.sorting /\ {i, j} \subseteq DOMAIN view.order /\ i # j /\ Room
    /\ view' = [view EXCEPT !.order = InsertAt(RemoveAt(@, i), j, @[i])]
    /\ UNCHANGED <<listed, starts, page, tabCalls, unsure>>

SaveOrder ==
    /\ view.sorting /\ ~view.saving
    /\ Send([PageAsks("order", NoRace) EXCEPT !.order = view.order])
    /\ view' = [view EXCEPT !.saving = TRUE]

(* The button of the page that draws all events for the start protocol.    *)
SeedAll ==
    /\ ~page.loading /\ ~page.failed /\ page.events # <<>>
    /\ \A n \in DOMAIN tabCalls : tabCalls[n].op # "seedAll"
    /\ Send(TabAsks("seedAll", NoRace, "write")) /\ UNCHANGED view

-----------------------------------------------------------------------------
(* What the service does.  An answer that will be shown, and was read      *)
(* before a change, is stale.                                              *)
Brings == {"load", "entries", "create", "seed", "remove"}
Stale(cs) == [n \in DOMAIN cs |->
    [cs[n] EXCEPT !.stale = @ \/ (cs[n].op \in Brings /\ cs[n].step = "answer")]]

Drawn(d) == [d EXCEPT !.drawn = d.all]

(* A new event comes somewhere in the order, whatever it was; an order     *)
(* with an event that is gone is refused, as is all that finds no row.     *)
WriteCall(c) ==
    \/ /\ c.op = "create" /\ c.race \in ToSet(listed)
       /\ \E s \in Starters :
            /\ \A e \in Races : s \notin starts[e].all
            /\ starts' = [starts EXCEPT ![c.race].all = @ \cup {s}]
       /\ UNCHANGED listed
    \/ /\ c.op = "seed" /\ c.race \in ToSet(listed)
       /\ starts' = [starts EXCEPT ![c.race] = Drawn(@)]
       /\ UNCHANGED listed
    \/ /\ c.op = "seedAll"
       /\ starts' = [e \in Races |-> Drawn(starts[e])]
       /\ UNCHANGED listed
    \/ /\ c.op = "remove" /\ \E e \in Races : c.start \in starts[e].all
       /\ starts' = [e \in Races |-> [all |-> starts[e].all \ {c.start},
                                      drawn |-> starts[e].drawn \ {c.start}]]
       /\ UNCHANGED listed
    \/ /\ c.op = "addEvent"
       /\ \E e \in Races \ ToSet(listed), k \in 1 .. Len(listed) + 1 :
            listed' = InsertAt(listed, k, e)
       /\ UNCHANGED starts
    \/ /\ c.op = "removeEvent" /\ c.race \in ToSet(listed)
       /\ listed' = Filtered(listed, {n \in DOMAIN listed : listed[n] # c.race})
       /\ starts' = [starts EXCEPT ![c.race] = NoStarts]
    \/ /\ c.op = "order" /\ ToSet(c.order) \subseteq ToSet(listed)
       /\ listed' \in Lists /\ ToSet(listed') = ToSet(listed)
       /\ Filtered(listed', {n \in DOMAIN listed' : listed'[n] \in ToSet(c.order)}) = c.order
       /\ UNCHANGED starts

(* Nobody waits for the end of it.                                         *)
Unwatched(c) == c.op = "seedAll" \/ (~c.own /\ c.op # "order")

(* After a write of entries the tab asks for them; after one of events the *)
(* page has to be told.  Nobody asks for entries after all were drawn, or  *)
(* for a tab that is gone.                                                 *)
Serves(i) ==
    LET c == tabCalls[i] IN
    /\ c.step = "write" /\ WriteCall(c)
    /\ tabCalls' =
         IF Unwatched(c) THEN Stale(RemoveAt(tabCalls, i))
         ELSE IF c.op \in {"create", "seed"} THEN Stale([tabCalls EXCEPT ![i].step = "read"])
         ELSE [Stale(tabCalls) EXCEPT ![i].step = "answer", ![i].order = <<>>]
    /\ unsure' = [unsure EXCEPT !.entries = @ \/ Unwatched(c)]
    /\ UNCHANGED <<page, view>>

Queries(i) ==
    LET c == tabCalls[i] IN
    /\ c.step = "read"
    /\ tabCalls' = [tabCalls EXCEPT ![i] =
         [c EXCEPT !.step = "answer",
                   !.order = IF c.op = "load" THEN listed ELSE <<>>,
                   !.entries = IF c.op = "load" THEN NoStarts ELSE starts[c.race]]]
    /\ UNCHANGED <<listed, starts, page, view, unsure>>

-----------------------------------------------------------------------------
(* Answers.  Entries are shown in whatever event is selected by then.      *)
ShowEntries(i) ==
    LET c == tabCalls[i] IN
    /\ c.step = "answer" /\ c.op \in {"entries", "create", "seed"}
    /\ tabCalls' = RemoveAt(tabCalls, i)
    /\ view' = [view EXCEPT !.entries = c.entries, !.loading = @ /\ c.op # "entries"]
    /\ unsure' = [unsure EXCEPT !.entries = c.stale \/ c.race # page.selected]
    /\ UNCHANGED <<listed, starts, page>>

(* Mutant: the entry stays among those shown.                              *)
StillShown(d, s) == d

NoLonger(d, s) == [all |-> d.all \ {s}, drawn |-> d.drawn \ {s}]

(* The entries of the time of the confirmation, without the one removed.   *)
EntryRemoved(i) ==
    LET c == tabCalls[i] IN
    /\ c.step = "answer" /\ c.op = "remove"
    /\ tabCalls' = RemoveAt(tabCalls, i)
    /\ view' = [view EXCEPT !.entries = NoLonger(c.entries, c.start)]
    /\ unsure' = [unsure EXCEPT !.entries =
         @ \/ c.stale \/ c.race # page.selected \/ view.entries # c.entries]
    /\ UNCHANGED <<listed, starts, page>>

(* The page loads again.  Who had selected the event that was removed when *)
(* that was confirmed has none selected now.                               *)
Reload(i) ==
    LET c == tabCalls[i]
        p == [page EXCEPT !.loading = TRUE,
                          !.selected = IF c.op = "removeEvent" /\ c.was = c.race
                                         THEN NoRace ELSE @]
    IN
    /\ c.step = "answer" /\ c.op \in {"addEvent", "removeEvent", "order"}
    /\ PageBecomes(p, [tabCalls EXCEPT ![i] =
                         [TabAsks("load", NoRace, "read") EXCEPT !.was = c.was]])
    /\ UNCHANGED <<listed, starts, unsure>>

Loaded(i) ==
    LET c == tabCalls[i] IN
    /\ c.step = "answer" /\ c.op = "load"
    /\ PageBecomes([page EXCEPT !.loading = FALSE, !.failed = FALSE, !.events = c.order,
                                !.selected = IF c.was = NoRace /\ c.order # <<>>
                                               THEN c.order[1] ELSE @],
                   RemoveAt(tabCalls, i))
    /\ unsure' = [unsure EXCEPT !.events = c.stale]
    /\ UNCHANGED <<listed, starts>>

(* A request is refused or lost, perhaps only its answer.  Nothing is said *)
(* but when the page itself cannot be loaded.                              *)
CallFails(i) ==
    LET c == tabCalls[i]
        p == [page EXCEPT !.failed = TRUE, !.loading = FALSE, !.events = <<>>]
    IN
    /\ \/ c.step = "write" /\ (WriteCall(c) \/ UNCHANGED <<listed, starts>>)
       \/ c.step = "read" /\ UNCHANGED <<listed, starts>>
    /\ unsure' = [events |-> TRUE, entries |-> TRUE]
    /\ IF c.op = "load" THEN PageBecomes(p, Stale(RemoveAt(tabCalls, i)))
       ELSE /\ tabCalls' = Stale(RemoveAt(tabCalls, i))
            /\ view' = [view EXCEPT !.loading = @ /\ ~(c.own /\ c.op = "entries"),
                                    !.saving = @ /\ ~(c.own /\ c.op = "order")]
            /\ UNCHANGED page

-----------------------------------------------------------------------------
(* Some events, no entries; the page has been opened.                      *)
TabInit ==
    /\ listed \in Lists /\ starts = [e \in Races |-> NoStarts]
    /\ page = [loading |-> TRUE, failed |-> FALSE, tab |-> TRUE, events |-> <<>>,
               selected |-> NoRace]
    /\ view = NewView
    /\ tabCalls = <<TabAsks("load", NoRace, "read")>>
    /\ unsure = [events |-> FALSE, entries |-> FALSE]

TabNext ==
    \/ \E e \in Races : Select(e) \/ RemoveEvent(e)
    \/ SwitchTab \/ AddEvent \/ Reorder \/ SaveOrder \/ SeedAll
    \/ CreateEntry \/ Seed
    \/ \E s \in Starters : RemoveEntry(s)
    \/ \E i, j \in DOMAIN view.order : Move(i, j)
    \/ \E i \in DOMAIN tabCalls :
         \/ Serves(i) \/ Queries(i) \/ CallFails(i)
         \/ ShowEntries(i) \/ EntryRemoved(i) \/ Reload(i) \/ Loaded(i)

TabSpec == TabInit /\ [][TabNext]_tabVars

-----------------------------------------------------------------------------
(* With no request in flight the page shows the events there are, and the  *)
(* tab the entries of the event selected as they are; unless a request     *)
(* failed, all events were drawn, the tab was loaded again before a change *)
(* it had asked for, an answer was older than a change or for another      *)
(* event, or one entry was removed while the others changed                *)
(* (EventsTab.tsx:78-181, competitions/[id]/page.tsx:34-63).               *)
TabCatchesUp ==
    tabCalls = <<>> /\ ~page.failed =>
      /\ ~unsure.events => page.events = listed
      /\ Mounted(page) /\ page.selected # NoRace /\ ~unsure.entries =>
           view.entries = starts[page.selected]
=============================================================================
