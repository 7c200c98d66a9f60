----------------------------- MODULE ImportWizard -----------------------------
(***************************************************************************)
(* The page that imports a file (competitions/[id]/import/page.tsx and     *)
(* EventConstructor.tsx): the file is parsed by the service, the user      *)
(* reviews its swimmers and chooses among its events, and the rest goes to *)
(* the import (module Import).  Of what can be changed for a swimmer only  *)
(* the gender is here, for events are told apart by it.  Nothing keeps the *)
(* user from choosing a second file while the first is being parsed, or    *)
(* from confirming twice.                                                  *)
(***************************************************************************)
EXTENDS Naturals, Sequences, SequencesExt

CONSTANTS
    Sheets,      \* files: sequences of rows, that have a name or not, a year of
                 \* birth or not, a gender, and a distance and style or none
    NoSheet,
    NoStyle,
    MaxParses,   \* bound: files being parsed
    MaxSaves     \* bound: imports in flight

Sexes == {"M", "F"}

ASSUME WizardAssumption ==
    /\ \A s \in Sheets : \A i \in DOMAIN s : s[i].gender \in Sexes
    /\ NoSheet \notin Sheets

VARIABLES
    gate,        \* is the competition a draft, are changes of all rows allowed?
    wiz,         \* the page
    parses,      \* files being parsed, in the order chosen
    saves        \* imports in flight

wizardVars == <<gate, wiz, parses, saves>>

-----------------------------------------------------------------------------
Positions == UNION {DOMAIN s : s \in Sheets}
Gives(sheet) == {r.style : r \in ToSet(sheet)} \ {NoStyle}
Offers == (UNION {Gives(s) : s \in Sheets}) \X Sexes

(* Rows without a name are left out; one with a name but no year is an     *)
(* error.  Every other row is a swimmer, told by its place in the file,    *)
(* and an entry if it has a style.  The events offered are those of the    *)
(* entries.                                                                *)
Parse(sheet) ==
    LET swims == {i \in DOMAIN sheet : sheet[i].named /\ sheet[i].year}
        in    == {i \in swims : sheet[i].style # NoStyle}
    IN
    [genders |-> [i \in swims |-> sheet[i].gender],
     entries |-> {<<i, sheet[i].style>> : i \in in},
     offers  |-> {<<sheet[i].style, sheet[i].gender>> : i \in in},
     bad     |-> \E i \in DOMAIN sheet : sheet[i].named /\ ~sheet[i].year]

Genders == UNION {[of -> Sexes] : of \in SUBSET Positions}
Save    == [sheet : Sheets, genders : Genders, edited : SUBSET Positions,
            off : SUBSET Offers, entries : SUBSET (Positions \X {o[1] : o \in Offers}),
            bulk : BOOLEAN]
Wizard  == [step : 0 .. 4,                  \* 0: left, after an import
            sheet : Sheets \cup {NoSheet},  \* of which there is a preview
            failed : BOOLEAN,               \* or there is one of an error
            genders : Genders,              \* as they are set
            edited : SUBSET Positions, \* whose gender was changed
            off : SUBSET Offers,            \* events that are not to be created
            bulk : BOOLEAN,                 \* all genders were set at once
            bulkOn : BOOLEAN, asked : BOOLEAN, locked : BOOLEAN]

(* Types of the page and its requests.                                     *)
WizardTypeOK ==
    /\ gate \in [draft : BOOLEAN, bulk : BOOLEAN] /\ wiz \in Wizard
    /\ parses \in Seq(Sheets) /\ saves \in Seq(Save)

Goes(w) == wiz' = w /\ UNCHANGED <<gate, parses, saves>>

-----------------------------------------------------------------------------
Start == wiz.step = 1 /\ Goes([wiz EXCEPT !.step = 2])

(* The runtime flags have come.  A secretary is refused them, and then     *)
(* changes of all rows are offered.                                        *)
FlagsCome(refused) ==
    /\ wiz.asked
    /\ LET on == refused \/ gate.bulk IN
       Goes([wiz EXCEPT !.asked = FALSE, !.bulkOn = on, !.bulk = @ /\ on])

ChooseFile(s) ==
    /\ wiz.step = 2 /\ ~wiz.locked /\ Len(parses) < MaxParses
    /\ parses' = Append(parses, s)
    /\ UNCHANGED <<gate, wiz, saves>>

(* The preview is to be reviewed, and with it the choice of events.        *)
Reviewed(w) == [w EXCEPT !.step = 3, !.off = {}]

(* The last answer is the one shown, wherever the user is meanwhile.       *)
FileParsed(i) ==
    /\ parses' = RemoveAt(parses, i)
    /\ wiz' = IF wiz.step = 0 THEN wiz
              ELSE Reviewed([wiz EXCEPT !.sheet = parses[i], !.failed = FALSE,
                               !.genders = Parse(parses[i]).genders,
                               !.edited = {}, !.bulk = FALSE])
    /\ UNCHANGED <<gate, saves>>

ParseFails(i) ==
    /\ parses' = RemoveAt(parses, i)
    /\ wiz' = IF wiz.step = 0 THEN wiz
              ELSE Reviewed([wiz EXCEPT !.sheet = NoSheet, !.failed = TRUE])
    /\ UNCHANGED <<gate, saves>>

-----------------------------------------------------------------------------
Preview == wiz.sheet # NoSheet
Other(g) == IF g = "F" THEN "M" ELSE "F"

Back ==
    \/ /\ wiz.step = 3
       /\ Goes([wiz EXCEPT !.step = 2, !.sheet = NoSheet, !.failed = FALSE])
    \/ /\ wiz.step = 4
       /\ Goes([wiz EXCEPT !.step = 3, !.off = {}])

ToEvents ==
    /\ wiz.step = 3 /\ Preview /\ ~Parse(wiz.sheet).bad
    /\ Goes([wiz EXCEPT !.step = 4])

ToggleGender(i) ==
    /\ wiz.step = 3 /\ Preview /\ i \in DOMAIN wiz.genders
    /\ Goes([wiz EXCEPT !.genders[i] = Other(@), !.edited = @ \cup {i}])

SetAllGenders(g) ==
    /\ wiz.step = 3 /\ Preview /\ wiz.bulkOn
    /\ Goes([wiz EXCEPT !.genders = [i \in DOMAIN @ |-> g],
                        !.edited = DOMAIN wiz.genders, !.bulk = TRUE])

(* Ranks are not told apart here, but this, too, is a change of all rows.  *)
SetAllRanks ==
    /\ wiz.step = 3 /\ Preview /\ wiz.bulkOn
    /\ Goes([wiz EXCEPT !.bulk = TRUE])

ToggleOffer(o) ==
    /\ wiz.step = 4 /\ Preview /\ o \in Parse(wiz.sheet).offers
    /\ Goes([wiz EXCEPT !.off = IF o \in @ THEN @ \ {o} ELSE @ \cup {o}])

(* An entry is kept if the event of its style, and of the gender its       *)
(* swimmer has now, is among those of the file that are to be created.     *)
Kept(w) == {e \in Parse(w.sheet).entries :
              <<e[2], w.genders[e[1]]>> \in Parse(w.sheet).offers \ w.off}

ConfirmWizard ==
    /\ wiz.step = 4 /\ Preview /\ Len(saves) < MaxSaves
    /\ Parse(wiz.sheet).offers \ wiz.off # {}
    /\ saves' = Append(saves, [sheet |-> wiz.sheet, genders |-> wiz.genders,
                               edited |-> wiz.edited, off |-> wiz.off,
                               entries |-> Kept(wiz), bulk |-> wiz.bulkOn /\ wiz.bulk])
    /\ UNCHANGED <<gate, wiz, parses>>

(* The import is admitted for a draft only, and with changes of all rows   *)
(* if these are allowed; then the page is left.  Otherwise, or if it fails,*)
(* everything stays.                                                       *)
SaveEnds(i) ==
    /\ saves' = RemoveAt(saves, i)
    /\ \/ /\ gate.draft /\ (saves[i].bulk => gate.bulk)
          /\ wiz' = [wiz EXCEPT !.step = 0]
       \/ UNCHANGED wiz
    /\ UNCHANGED <<gate, parses>>

(* An administrator changes the status, or the flag.                       *)
GateChanges ==
    /\ gate' \in [draft : BOOLEAN, bulk : BOOLEAN] \ {gate}
    /\ UNCHANGED <<wiz, parses, saves>>

-----------------------------------------------------------------------------
WizardInit ==
    /\ gate \in [draft : BOOLEAN, bulk : BOOLEAN]
    /\ wiz = [step |-> 1, sheet |-> NoSheet, failed |-> FALSE, genders |-> <<>>,
              edited |-> {}, off |-> {}, bulk |-> FALSE, bulkOn |-> TRUE,
              asked |-> TRUE, locked |-> ~gate.draft]
    /\ parses = <<>> /\ saves = <<>>

WizardNext ==
    \/ Start \/ Back \/ ToEvents \/ SetAllRanks \/ ConfirmWizard \/ GateChanges
    \/ \E refused \in BOOLEAN : FlagsCome(refused)
    \/ \E s \in Sheets : ChooseFile(s)
    \/ \E i \in DOMAIN parses : FileParsed(i) \/ ParseFails(i)
    \/ \E i \in DOMAIN wiz.genders : ToggleGender(i)
    \/ \E g \in Sexes : SetAllGenders(g)
    \/ \E o \in Offers : ToggleOffer(o)
    \/ \E i \in DOMAIN saves : SaveEnds(i)

WizardSpec == WizardInit /\ [][WizardNext]_wizardVars

-----------------------------------------------------------------------------
(* Whatever files are parsed in between: no file with errors is imported,  *)
(* the genders are those of the file that is imported but for what the     *)
(* user has changed in it, and an entry of the file is missing only if its *)
(* event was not to be created, or its swimmer's gender was changed: the   *)
(* event of the other gender may not be among those of the file, and then  *)
(* the entry is dropped without a word (import/page.tsx:131-203).          *)
SavesWhatWasReviewed ==
    \A c \in ToSet(saves) :
      LET parsed == Parse(c.sheet) IN
      /\ ~parsed.bad
      /\ \A i \in DOMAIN parsed.genders \ c.edited : c.genders[i] = parsed.genders[i]
      /\ \A e \in parsed.entries \ c.entries :
           e[1] \in c.edited \/ <<e[2], c.genders[e[1]]>> \in c.off
=============================================================================
