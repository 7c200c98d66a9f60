----------------------------- MODULE Applications -----------------------------
(***************************************************************************)
(* The page that makes a named application (applications/new/page.tsx):    *)
(* swimmers are added, each with the distances of an earlier application,  *)
(* the distances are edited, and the whole is sent for a document.  What a *)
(* distance says is left out: a draft has a number of rows.  A swimmer is  *)
(* asked for his earlier applications before he is added, and the swimmers *)
(* named in the address of the page are asked for all together.            *)
(***************************************************************************)
EXTENDS Filters, SequencesExt

CONSTANTS
    Athletes,
    InAddress,   \* the swimmers in the address of the page, each once
    Earlier,     \* Earlier[a]: rows of each earlier application, the latest first
    NoAthlete,
    MaxRows,     \* bound: rows of a draft
    MaxDrafts    \* bound: drafts and requests for them

Counts == 0 .. MaxRows

ASSUME ApplicationAssumption ==
    /\ InAddress \in Seq(Athletes) /\ IsInjective(InAddress)
    /\ Earlier \in [Athletes -> Seq(Counts)]
    /\ MaxRows \in Nat

VARIABLES
    drafts,      \* the swimmers in the application, and their rows
    active,      \* the one whose rows are shown
    paper,       \* preview only, a document on its way
    adding,      \* swimmers asked for, by click
    naming,      \* are the ones named being asked for?
    twice        \* swimmers added while being asked for otherwise

applicationVars == <<drafts, active, paper, adding, naming, twice>>

-----------------------------------------------------------------------------
AppDraft == [of : Athletes, rows : Counts]

(* Types of the drafts, the buttons and the requests.                      *)
ApplicationTypeOK ==
    /\ drafts \in Seq(AppDraft) /\ active \in Athletes \cup {NoAthlete}
    /\ paper \in [preview : BOOLEAN, exporting : BOOLEAN]
    /\ adding \in Seq(Athletes) /\ naming \in BOOLEAN /\ twice \in SUBSET Athletes

Drafted(ds)  == {d.of : d \in ToSet(ds)}
BuildDraft(a) == [of |-> a, rows |-> IF Earlier[a] = <<>> THEN 0 ELSE Earlier[a][1]]
FirstOf(ds)  == IF ds = <<>> THEN NoAthlete ELSE ds[1].of

-----------------------------------------------------------------------------
(* The button of a swimmer who is in the application is disabled.          *)
AddAthlete(a) ==
    /\ a \notin Drafted(drafts) /\ Len(drafts) + Len(adding) < MaxDrafts
    /\ adding' = Append(adding, a)
    /\ twice' = IF a \in ToSet(adding) \/ (naming /\ a \in ToSet(InAddress))
                  THEN twice \cup {a} ELSE twice
    /\ UNCHANGED <<drafts, active, paper, naming>>

(* His earlier applications have come, or not.                             *)
Added(i) ==
    /\ adding' = RemoveAt(adding, i)
    /\ drafts' = Append(drafts, BuildDraft(adding[i]))
    /\ active' = adding[i]
    /\ UNCHANGED <<paper, naming, twice>>

AddFails(i) ==
    /\ adding' = RemoveAt(adding, i)
    /\ UNCHANGED <<drafts, active, paper, naming, twice>>

(* Those named who are not in the application yet.                         *)
NewNamed(ds) ==
    Filtered(InAddress, {n \in DOMAIN InAddress : InAddress[n] \notin Drafted(ds)})

NamedLoaded ==
    /\ naming /\ naming' = FALSE
    /\ drafts' = drafts \o LET new == NewNamed(drafts)
                           IN  [n \in DOMAIN new |-> BuildDraft(new[n])]
    /\ active' = IF active = NoAthlete THEN InAddress[1] ELSE active
    /\ UNCHANGED <<paper, adding, twice>>

NamedFails ==
    /\ naming /\ naming' = FALSE
    /\ UNCHANGED <<drafts, active, paper, adding, twice>>

-----------------------------------------------------------------------------
(* Drafts are shown, and edited, once those named have come.               *)
Editing == ~naming /\ drafts # <<>>
Active  == Editing /\ active \in Drafted(drafts)
DraftsOf(a) ==              \* more than one if added twice
    Filtered(drafts, {n \in DOMAIN drafts : drafts[n].of = a})
RowsOf(a)   == DraftsOf(a)[1].rows

Activate(a) ==
    /\ Editing /\ a \in Drafted(drafts) /\ active' = a
    /\ UNCHANGED <<drafts, paper, adding, naming, twice>>

RemoveAthlete ==
    LET rest == Filtered(drafts, {n \in DOMAIN drafts : drafts[n].of # active}) IN
    /\ Active
    /\ drafts' = rest /\ active' = FirstOf(rest)
    /\ UNCHANGED <<paper, adding, naming, twice>>

(* Each draft of a swimmer in S gets f[n] rows for its n.                  *)
SetRows(S, f) ==
    /\ drafts' = [n \in DOMAIN drafts |->
                    IF drafts[n].of \in S
                    THEN [drafts[n] EXCEPT !.rows = f[@]] ELSE drafts[n]]
    /\ UNCHANGED <<active, paper, adding, naming, twice>>

SelectHistory(n) ==
    /\ Active /\ n \in DOMAIN Earlier[active]
    /\ SetRows({active}, [r \in Counts |-> Earlier[active][n]])

AddRow ==
    /\ Active /\ ~paper.preview /\ \A d \in ToSet(DraftsOf(active)) : d.rows < MaxRows
    /\ SetRows({active}, [r \in Counts |-> r + 1])

RemoveRow(row) ==
    /\ Active /\ ~paper.preview /\ row \in 1 .. RowsOf(active)
    /\ SetRows({active}, [r \in Counts |-> IF row <= r THEN r - 1 ELSE r])

CopyRows ==
    /\ Active /\ ~paper.preview
    /\ SetRows(Athletes \ {active}, [r \in Counts |-> RowsOf(active)])

ClearRows ==
    /\ Active /\ ~paper.preview
    /\ SetRows(Athletes, [r \in Counts |-> 0])

TogglePreview ==
    /\ Active /\ paper' = [paper EXCEPT !.preview = ~@]
    /\ UNCHANGED <<drafts, active, adding, naming, twice>>

(* Nothing is sent while a swimmer has no rows.                            *)
ExportApplication ==
    /\ Editing /\ ~paper.exporting /\ \A d \in ToSet(drafts) : d.rows > 0
    /\ paper' = [paper EXCEPT !.exporting = TRUE]
    /\ UNCHANGED <<drafts, active, adding, naming, twice>>

ExportEnds ==
    /\ paper.exporting /\ paper' = [paper EXCEPT !.exporting = FALSE]
    /\ UNCHANGED <<drafts, active, adding, naming, twice>>

-----------------------------------------------------------------------------
ApplicationInit ==
    /\ drafts = <<>> /\ active = NoAthlete /\ adding = <<>> /\ twice = {}
    /\ paper = [preview |-> FALSE, exporting |-> FALSE]
    /\ naming = (InAddress # <<>>)

ApplicationNext ==
    \/ \E a \in Athletes : AddAthlete(a) \/ Activate(a)
    \/ \E i \in DOMAIN adding : Added(i) \/ AddFails(i)
    \/ NamedLoaded \/ NamedFails
    \/ RemoveAthlete \/ AddRow \/ CopyRows \/ ClearRows \/ TogglePreview
    \/ \E row \in Counts : RemoveRow(row)
    \/ \E n \in UNION {DOMAIN Earlier[a] : a \in Athletes} : SelectHistory(n)
    \/ ExportApplication \/ ExportEnds

ApplicationSpec == ApplicationInit /\ [][ApplicationNext]_applicationVars

-----------------------------------------------------------------------------
(* A swimmer is in the application once, unless he was added while he was  *)
(* being asked for by another click or for the address of the page; and    *)
(* whose rows are edited is in it (applications/new/page.tsx:100-156).     *)
EverybodyOnce ==
    /\ \A m, n \in DOMAIN drafts :
         drafts[m].of = drafts[n].of => m = n \/ drafts[m].of \in twice
    /\ active # NoAthlete => active \in Drafted(drafts)
=============================================================================
