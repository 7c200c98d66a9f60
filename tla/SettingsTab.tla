------------------------------ MODULE SettingsTab ------------------------------
(***************************************************************************)
(* The form of the settings tab (SettingsTab.tsx) of one competition: its  *)
(* age groups, its status, the format of its protocols with the rules of   *)
(* advanced grouping, the presets and defaults of the user; and what       *)
(* CompetitionsService takes of it.  One request runs at a time here: how  *)
(* they overtake each other is ProtocolConfig's.                           *)
(*                                                                         *)
(* A condition is about the age group or about a text (region, club or     *)
(* gender); EQ is checked as CONTAINS is.  Of its value it is told whether *)
(* it is a text, a number or a list, and what stands in it, between its    *)
(* commas or as the items of the list: words, integers that are an id, and *)
(* low ones, zero or negative, that are none.  (Commas alone are nothing   *)
(* in a list, and a word elsewhere.)  The preset is the user's own.        *)
(***************************************************************************)
EXTENDS Naturals, Sequences, SequencesExt, Filters

CONSTANTS
    AgeGroupIds,   \* ids of age groups
    NoAgeGroup,    \* in place of one
    FirstConfigs,  \* configurations at the start, of defaults or stored before
    Texts,         \* what may be typed as the value of a condition
    MaxChanges     \* bound: changes by hand

VARIABLES
    comp,      \* the row of the competition, with its age groups
    saved,     \* the defaults and the preset of the user, if any
    settings,  \* the tab
    changes    \* how many there have been

settingsVars == <<comp, saved, settings, changes>>

-----------------------------------------------------------------------------
Formats  == {"SEPARATE", "COMBINED", "MIXED"}
Stages == {"draft", "active", "completed"}
Items == {"word", "low", "id"}

Condition == [field : {"ageGroupId", "text"}, operator : {"CONTAINS", "IN"},
              kind : {"text", "number", "list"}, is : Seq(Items)]

EmptyCondition == [field |-> "text", operator |-> "CONTAINS", kind |-> "text", is |-> <<>>]

(* The conditions of a group of rules are its first block, its subgroups   *)
(* the others.                                                             *)
EmptyBlock == <<EmptyCondition>>
EmptyGroup == [named |-> TRUE, blocks |-> <<EmptyBlock>>]
RulesOff   == [on |-> FALSE, groups |-> <<>>, unmatched |-> TRUE, named |-> TRUE]

Blocks(f)     == UNION {ToSet(g.blocks) : g \in ToSet(f.rules.groups)}
Conditions(f) == UNION {ToSet(b) : b \in Blocks(f)}

RuleGroup     == [named : BOOLEAN, blocks : Seq(Seq(Condition))]
AdvancedRules == [on : BOOLEAN, groups : Seq(RuleGroup), unmatched : BOOLEAN, named : BOOLEAN]
FormValues    == [format : Formats, primary : AgeGroupIds \cup {NoAgeGroup},
                  second : SUBSET AgeGroupIds, rules : AdvancedRules]

ASSUME SettingsAssumption == FirstConfigs \subseteq FormValues /\ Texts \subseteq Seq(Items)

(* Types of the row, the tab and what is kept of the form.                 *)
SettingsTypeOK ==
    /\ comp \in [ageGroups : SUBSET AgeGroupIds, status : Stages, config : FormValues]
    /\ \A k \in DOMAIN saved : k \in {"defaults", "preset"} /\ saved[k] \in FormValues
    /\ settings \in [open : BOOLEAN, shown : SUBSET AgeGroupIds, status : Stages,
                     role : {"none", "admin", "secretary"}, form : FormValues,
                     asked : {"nothing", "complete", "draft", "delete"}, editing : BOOLEAN]

-----------------------------------------------------------------------------
(* What Number() makes of a value: of nothing zero, of several items no    *)
(* number, of a list of one its item.                                      *)
NumberOf(is) ==
    CASE is = <<>>   -> "low"
      [] Len(is) = 1 -> is[1]
      [] OTHER       -> "word"

Integers(is) == Filtered(is, {i \in DOMAIN is : is[i] # "word"})

(* What is typed for condition c: a list of what is between the commas, of *)
(* age groups the integers; an integer, or zero; or the text.              *)
Typed(c, text) ==
    LET ofAge == c.field = "ageGroupId"
        number == NumberOf(text) IN
    CASE c.operator = "IN" ->
           [c EXCEPT !.kind = "list", !.is = IF ofAge THEN Integers(text) ELSE text]
      [] c.operator # "IN" /\ ofAge ->
           [c EXCEPT !.kind = "number", !.is = IF number = "word" THEN <<"low">> ELSE <<number>>]
      [] OTHER -> [c EXCEPT !.kind = "text", !.is = text]

(* Mutant: a value left from before IN was chosen is not looked at.        *)
TabTakesAnyKind(c) ==
    /\ c.is # <<>>
    /\ c.field = "ageGroupId" => ToSet(c.is) = {"id"}

(* The tab has no complaint about condition c.                             *)
TabTakesCondition(c) ==
    LET ofAge == c.field = "ageGroupId" IN
    IF c.operator = "IN"
    THEN c.kind = "list" /\ c.is # <<>> /\ (ofAge => ToSet(c.is) = {"id"})
    ELSE IF ofAge THEN NumberOf(c.is) = "id" ELSE c.kind = "text" /\ c.is # <<>>

TabTakes(f) ==
    /\ f.format = "MIXED" => f.primary # NoAgeGroup /\ f.second # {}
    /\ f.rules.on =>
         /\ f.rules.groups # <<>> /\ \A g \in ToSet(f.rules.groups) : g.named
         /\ \A b \in Blocks(f) : b # <<>>
         /\ \A c \in Conditions(f) : TabTakesCondition(c)
         /\ f.rules.unmatched => f.rules.named

Sent(f) ==
    [f EXCEPT !.primary = IF f.format = "MIXED" THEN @ ELSE NoAgeGroup,
              !.second  = IF f.format = "MIXED" THEN @ ELSE {},
              !.rules   = IF f.rules.on THEN @ ELSE RulesOff]

ServerTakesCondition(c) ==
    /\ (c.operator = "IN") = (c.kind = "list")
    /\ c.operator = "IN" => c.is # <<>>
    /\ c.field = "ageGroupId" =>
         IF c.operator = "IN" THEN "word" \notin ToSet(c.is) ELSE NumberOf(c.is) # "word"

ServerTakesRules(f) ==
    /\ f.rules.groups # <<>> /\ \A g \in ToSet(f.rules.groups) : g.named
    /\ \A b \in Blocks(f) : b # <<>>
    /\ \A c \in Conditions(f) : ServerTakesCondition(c)

ServerTakes(f) ==
    /\ f.format = "MIXED" => f.primary # NoAgeGroup /\ f.second # {} /\ f.primary \notin f.second
    /\ f.rules.on => ServerTakesRules(f)

(* What is stored: a group without a name gets the usual one.              *)
Normalized(f) == [f EXCEPT !.rules.named = TRUE]

(* Asked of what replaces the configuration, not of presets and defaults.  *)
OfCompetition(f) == f.format = "MIXED" => f.second \cup {f.primary} \subseteq comp.ageGroups

-----------------------------------------------------------------------------
(* The tab as it opens.  Without an answer to its request the competition  *)
(* has told all but the rules.                                             *)
Opened(c, answered) ==
    [open |-> TRUE, shown |-> c.ageGroups, status |-> c.status, role |-> "none",
     form |-> IF answered THEN c.config ELSE [c.config EXCEPT !.rules = RulesOff],
     asked |-> "nothing", editing |-> FALSE]

(* load() takes the tab away and opens it anew: what was typed is gone.    *)
Reopens(c) ==
    \E answered \in BOOLEAN : comp' = c /\ settings' = Opened(c, answered)

ByHand == settings.open /\ changes < MaxChanges /\ changes' = changes + 1

(* The session is told to the tab.                                         *)
RoleTold ==
    /\ settings.open /\ settings.role = "none"
    /\ \E role \in {"admin", "secretary"} : settings' = [settings EXCEPT !.role = role]
    /\ UNCHANGED <<comp, saved, changes>>

AddAgeGroup(g) ==
    /\ ByHand /\ g \notin comp.ageGroups
    /\ Reopens([comp EXCEPT !.ageGroups = @ \cup {g}])
    /\ UNCHANGED saved

RemoveAgeGroup(g) ==
    /\ ByHand /\ g \in settings.shown \cap comp.ageGroups
    /\ Reopens([comp EXCEPT !.ageGroups = @ \ {g}])
    /\ UNCHANGED saved

(* By somebody else: nothing looks for who names the group.                *)
AgeGroupDeleted(g) ==
    /\ g \in comp.ageGroups /\ changes < MaxChanges /\ changes' = changes + 1
    /\ comp' = [comp EXCEPT !.ageGroups = @ \ {g}]
    /\ UNCHANGED <<saved, settings>>

(* The other parameters are saved with a form of their own.                *)
SaveDetails == ByHand /\ Reopens(comp) /\ UNCHANGED saved

StatusBecomes(s) == Reopens([comp EXCEPT !.status = s]) /\ UNCHANGED saved

AskFirst(what) ==
    /\ settings' = [settings EXCEPT !.asked = what]
    /\ UNCHANGED <<comp, saved>>

StatusButtons ==
    /\ ByHand
    /\ \/ settings.status \in {"draft", "completed"} /\ StatusBecomes("active")
       \/ settings.status = "active" /\ AskFirst("complete")
       \/ settings.status # "draft"  /\ AskFirst("draft")

AskDelete == ByHand /\ settings.role = "admin" /\ AskFirst("delete")

Confirm ==
    /\ settings.open
    /\ \/ settings.asked = "complete" /\ StatusBecomes("completed")
       \/ settings.asked = "draft"    /\ StatusBecomes("draft")
       \/ /\ settings.asked = "delete"
          /\ settings' = [settings EXCEPT !.open = FALSE, !.asked = "nothing"]
          /\ UNCHANGED <<comp, saved>>
       \/ settings.asked # "nothing" /\ AskFirst("nothing")
    /\ UNCHANGED changes

-----------------------------------------------------------------------------
(* The form.                                                               *)
Shows(f) == settings' = [settings EXCEPT !.form = f] /\ UNCHANGED <<comp, saved>>
Rules(r) == Shows([settings.form EXCEPT !.rules = r])
Groups(gs) == Shows([settings.form EXCEPT !.rules.groups = gs])
BlocksOf(i, bs) == Shows([settings.form EXCEPT !.rules.groups[i].blocks = bs])

SetFormat == \E format \in Formats : Shows([settings.form EXCEPT !.format = format])

ChoosePrimary ==
    /\ settings.form.format = "MIXED"
    /\ \E g \in settings.shown \cup {NoAgeGroup} : Shows([settings.form EXCEPT !.primary = g])

(* The box of the primary group is disabled, ticked or not.                *)
ToggleSecondary ==
    /\ settings.form.format = "MIXED"
    /\ \E g \in settings.shown \ {settings.form.primary} :
         Shows([settings.form EXCEPT !.second = SymDiff(@, {g})])

SwitchRules == Rules([settings.form.rules EXCEPT !.on = ~@])

EditGroup(i) ==
    LET groups == settings.form.rules.groups IN
    \/ Groups([groups EXCEPT ![i].named = ~@])
    \/ Groups(Append(groups, [groups[i] EXCEPT !.named = TRUE]))
    \/ Groups([groups EXCEPT ![i].blocks = <<EmptyBlock>>])
    \/ Groups(RemoveAt(groups, i))

ChangedConditions(c) ==
    {[c EXCEPT !.field = IF @ = "text" THEN "ageGroupId" ELSE "text"],
     [c EXCEPT !.operator = IF @ = "IN" THEN "CONTAINS" ELSE "IN"]} \cup
    {Typed(c, text) : text \in Texts}

ChangedBlocks(b) ==
    {Append(b, EmptyCondition)} \cup {RemoveAt(b, i) : i \in DOMAIN b} \cup
    UNION {{[b EXCEPT ![i] = c] : c \in ChangedConditions(b[i])} : i \in DOMAIN b}

EditConditions(i) ==
    LET blocks == settings.form.rules.groups[i].blocks IN
    \E b \in ChangedBlocks(blocks[1]) : BlocksOf(i, [blocks EXCEPT ![1] = b])

EditSubgroup(i) ==
    LET blocks == settings.form.rules.groups[i].blocks IN
    \E j \in DOMAIN blocks \ {1} :
       \/ \E b \in ChangedBlocks(blocks[j]) : BlocksOf(i, [blocks EXCEPT ![j] = b])
       \/ BlocksOf(i, Append(blocks, blocks[j]))
       \/ BlocksOf(i, RemoveAt(blocks, j))

AddSubgroup(i) == BlocksOf(i, Append(settings.form.rules.groups[i].blocks, EmptyBlock))

AddGroup == Groups(Append(settings.form.rules.groups, EmptyGroup))

EditUnmatched ==
    \/ Rules([settings.form.rules EXCEPT !.unmatched = ~@])
    \/ settings.form.rules.unmatched /\ Rules([settings.form.rules EXCEPT !.named = ~@])

EditForm ==
    /\ ByHand
    /\ \/ SetFormat \/ ChoosePrimary \/ ToggleSecondary \/ SwitchRules
       \/ /\ settings.form.rules.on
          /\ \/ AddGroup \/ EditUnmatched
             \/ \E i \in DOMAIN settings.form.rules.groups :
                  EditGroup(i) \/ EditConditions(i) \/ EditSubgroup(i) \/ AddSubgroup(i)

-----------------------------------------------------------------------------
Manages == ByHand /\ settings.role # "none"

(* The form of a tab that has no complaint replaces the configuration,     *)
(* unless it is refused.                                                   *)
SaveConfig ==
    LET f == Sent(settings.form) IN
    /\ Manages /\ TabTakes(settings.form)
    /\ ServerTakes(f) /\ OfCompetition(f)
    /\ Reopens([comp EXCEPT !.config = Normalized(f)]) /\ UNCHANGED saved

(* Defaults and presets are stored without the checks of the tab.          *)
Keep(name) ==
    LET f == Sent(settings.form) IN
    /\ ServerTakes(f)
    /\ saved' = [k \in DOMAIN saved \cup {name} |-> IF k = name THEN Normalized(f) ELSE saved[k]]
    /\ UNCHANGED <<comp, settings>>

UseDefaults ==
    /\ "defaults" \in DOMAIN saved
    /\ Shows(saved["defaults"])

PresetBar ==
    /\ Manages
    /\ \/ UseDefaults \/ Keep("defaults")
       \/ "preset" \notin DOMAIN saved /\ Keep("preset")

EditPreset(editing) ==
    settings' = [settings EXCEPT !.editing = editing] /\ UNCHANGED <<comp, saved>>

(* A preset is applied as it is; its age groups are not looked at.         *)
PresetRow ==
    /\ Manages /\ "preset" \in DOMAIN saved
    /\ \/ EditPreset(~settings.editing)
       \/ /\ ~settings.editing
          /\ Reopens([comp EXCEPT !.config = saved["preset"]]) /\ UNCHANGED saved
       \/ /\ ~settings.editing
          /\ saved' = [k \in DOMAIN saved \ {"preset"} |-> saved[k]]
          /\ UNCHANGED <<comp, settings>>

-----------------------------------------------------------------------------
(* A competition is created with the defaults of its creator, whatever age *)
(* groups they name.                                                       *)
SettingsInit ==
    /\ saved = <<>> /\ changes = 0
    /\ \E c \in FirstConfigs :
         comp = [ageGroups |-> AgeGroupIds, status |-> "draft", config |-> c]
    /\ settings = Opened(comp, TRUE)

SettingsNext ==
    \/ \E g \in AgeGroupIds : AddAgeGroup(g) \/ RemoveAgeGroup(g) \/ AgeGroupDeleted(g)
    \/ RoleTold \/ SaveDetails \/ StatusButtons \/ AskDelete \/ Confirm
    \/ EditForm \/ SaveConfig \/ PresetBar \/ PresetRow

SettingsSpec == SettingsInit /\ [][SettingsNext]_settingsVars

-----------------------------------------------------------------------------
(* The tab and the server check a form each in its own way.  What the tab  *)
(* lets through is taken, unless the primary group had been ticked as a    *)
(* secondary one before, or a list of one age group is left under an       *)
(* operator that takes no list (SettingsTab.tsx:235-296,                   *)
(* competitions.service.ts:59-133).  And what the server takes, which is   *)
(* then stored as a preset, passes the tab again, unless a value is empty, *)
(* an age group is zero or negative, alone or in a list, a number is left  *)
(* where a text is asked, or the group of the others has no name.          *)
TabAgreesWithServer ==
    LET f == settings.form
        cs == Conditions(f) IN
    /\ TabTakes(f) =>
         \/ ServerTakes(Sent(f)) \/ f.primary \in f.second
         \/ \E c \in cs : c.field = "ageGroupId" /\ c.operator # "IN" /\ c.kind = "list"
    /\ ServerTakes(Sent(f)) =>
         \/ TabTakes(f)
         \/ f.rules.unmatched /\ ~f.rules.named
         \/ \E c \in cs : \/ c.is = <<>>
                          \/ c.field = "ageGroupId" /\ "low" \in ToSet(c.is)
                          \/ c.field = "text" /\ c.kind = "number"
=============================================================================
