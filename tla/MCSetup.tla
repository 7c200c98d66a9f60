------------------------------- MODULE MCSetup -------------------------------
(* Instances, for TLC, of what fills a competition: the import of its      *)
(* entries, and the pages that change its events and entries, import a     *)
(* file, make an application and keep the norms.                           *)
(* They share no state: a behaviour is one of the part that is chosen at   *)
(* first, and the others stay as they begin.                               *)
EXTENDS Import, EventsTab, ImportWizard, Applications, Normatives, TLC

CONSTANTS s1, s2    \* swimmers

VARIABLE part

setupVars == <<part, vars, tabVars, wizardVars, applicationVars, normVars>>

Parts == {"import", "tab", "wizard", "application", "norms"}

SetupInit ==
    /\ part \in Parts
    /\ Init /\ TabInit /\ WizardInit /\ ApplicationInit /\ NormInit
    /\ part # "import" => groups = {}
    /\ part # "tab"    => listed = <<>>
    /\ part # "wizard" => gate = [draft |-> TRUE, bulk |-> TRUE]
    /\ part # "norms"  => section = "wa" /\ created = 0

Frozen(others) == UNCHANGED <<part, others>>

SetupNext ==
    \/ /\ part = "import" /\ Next
       /\ Frozen(<<tabVars, wizardVars, applicationVars, normVars>>)
    \/ /\ part = "tab" /\ TabNext
       /\ Frozen(<<vars, wizardVars, applicationVars, normVars>>)
    \/ /\ part = "wizard" /\ WizardNext
       /\ Frozen(<<vars, tabVars, applicationVars, normVars>>)
    \/ /\ part = "application" /\ ApplicationNext
       /\ Frozen(<<vars, tabVars, wizardVars, normVars>>)
    \/ /\ part = "norms" /\ NormNext
       /\ Frozen(<<vars, tabVars, wizardVars, applicationVars>>)

SetupSpec == SetupInit /\ [][SetupNext]_setupVars

(* The others keep their first values, that need no check again.           *)
SetupTypeOK ==
    CASE part = "import"      -> TypeOK
      [] part = "tab"         -> TabTypeOK
      [] part = "wizard"      -> WizardTypeOK
      [] part = "application" -> ApplicationTypeOK
      [] part = "norms"       -> NormTypeOK

(* With nothing on its way a page shows the rows, events and entries there *)
(* are, as far as it can know (EventsTab.tsx, normatives/page.tsx).        *)
ListsCatchUp == TabCatchesUp /\ TableCatchesUp

(* What is sent is what was shown for it: a norm, the swimmers of a file,  *)
(* an application (normatives/page.tsx, import/page.tsx,                   *)
(* applications/new/page.tsx).                                             *)
PagesSendWhatTheyShow == FormIsOfItsRow /\ SavesWhatWasReviewed /\ EverybodyOnce

-----------------------------------------------------------------------------
(* A file that enters every swimmer in every event.                        *)
AllRows  == {[swimmer : Swimmers, event : EventNames]}
AllFit   == Swimmers \X GroupIds

(* A file with a row left out, and one with an error and a swimmer without *)
(* an entry.                                                               *)
Row(named, year, gender, style) ==
    [named |-> named, year |-> year, gender |-> gender, style |-> style]
SomeSheets ==
    {<<Row(TRUE, TRUE, "M", "fly"), Row(FALSE, TRUE, "M", NoStyle), Row(TRUE, TRUE, "F", "fly")>>,
     <<Row(TRUE, FALSE, "F", "fly"), Row(TRUE, TRUE, "M", NoStyle)>>}

(* One swimmer with earlier applications, also named in the address, and   *)
(* one without.                                                            *)
OneNamed == <<s1>>
OneKnown == (s1 :> <<1, 2>>) @@ (s2 :> <<>>)

(* Bound: an import goes on from states with up to four ids given out.     *)
FewIds == Cardinality(used) <= 4

(* Two rows that can be there together.                                    *)
TwoRows  == {[key |-> k, time |-> 1] : k \in {1, 2}}
RowOne   == [key |-> 1, time |-> 1]

(* Imports and Races are given the same model values: of two parts that    *)
(* share no state, both are permuted together.                             *)
Symmetry == Permutations(Imports)
=============================================================================
