---------------------------- MODULE MCDocuments ----------------------------
(* Instances, for TLC, of what makes the documents of a competition: how   *)
(* its protocols are configured, in the service and on the settings tab,   *)
(* and how a document is asked for, made and downloaded.                   *)
(* They share no state: a behaviour is one of the part that is chosen at   *)
(* first, and the others stay as they begin.                               *)
EXTENDS ExportClients, ProtocolConfig, SettingsTab, TLC

VARIABLE part

allVars == <<part, exportVars, configVars, settingsVars>>

DocumentsInit ==
    /\ part \in {"export", "config", "settings"}
    /\ ExportInit /\ ConfigInit /\ SettingsInit
    /\ part # "export"   => data = CHOOSE k \in Keys : TRUE
    /\ part # "settings" => comp.config = CHOOSE c \in FirstConfigs : TRUE

Frozen(others) == UNCHANGED <<part, others>>

DocumentsNext ==
    \/ part = "export"   /\ ExportNext   /\ Frozen(<<configVars, settingsVars>>)
    \/ part = "config"   /\ ConfigNext   /\ Frozen(<<exportVars, settingsVars>>)
    \/ part = "settings" /\ SettingsNext /\ Frozen(<<exportVars, configVars>>)
    \* Nobody has to change a setting: that a part ends is no deadlock.
    \/ part # "export"   /\ UNCHANGED allVars

(* The fairness is that of ExportSpec.                                     *)
DocumentsSpec ==
    /\ DocumentsInit /\ [][DocumentsNext]_allVars
    /\ \A c \in Clients :
         WF_allVars(part = "export" /\ ClientStep(c) /\ Frozen(<<configVars, settingsVars>>))

(* The others keep their first values, that need no check again.           *)
DocumentsTypeOK ==
    CASE part = "export"   -> ClientTypeOK
      [] part = "config"   -> ConfigTypeOK
      [] part = "settings" -> SettingsTypeOK

(* One submit request is open at a time.                                   *)
OneHandler == Services \X {1}

(* Each age group on its own, and one group of rules for a list of one.    *)
Plain      == [format |-> "SEPARATE", primary |-> NoAgeGroup, second |-> {}, rules |-> RulesOff]
OneListed  == [field |-> "ageGroupId", operator |-> "IN", kind |-> "list", is |-> <<"id">>]
WithRules  == [Plain EXCEPT !.rules.on = TRUE,
                            !.rules.groups = <<[named |-> TRUE, blocks |-> <<<<OneListed>>>>]>>]
PlainAndRules == {Plain, WithRules}

(* Nothing, one item, or an id with another; the order makes no difference *)
(* to the checks.                                                          *)
OneOrTwo == {<<>>} \cup {<<x>> : x \in Items} \cup {<<"id", x>> : x \in Items}
=============================================================================
