---------------------------- MODULE ProtocolConfig ----------------------------
(***************************************************************************)
(* The result protocol configuration of one competition, the presets kept  *)
(* for it (CompetitionsService), and a settings tab open on it.            *)
(*                                                                         *)
(* Every operation reads and checks in one call to the database and writes *)
(* in a later one, and the write asks for nothing but the id.              *)
(*                                                                         *)
(* Of a configuration it is told whether it has rules, those of advanced   *)
(* grouping; the format comes with every answer that has them.             *)
(***************************************************************************)
EXTENDS Naturals

CONSTANTS
    Clerks,       \* admins, and the secretary whose competition it is
    Chiefs,       \* the admins among them
    Presets,      \* ids of presets, never given out twice
    ConfigCalls   \* requests in flight at the same time

ASSUME ConfigAssumption == Chiefs \subseteq Clerks

VARIABLES
    config,  \* the configuration of the competition
    preset,  \* preset[p]: a row of the preset table, for the ids there are
    taken,   \* ids given out
    call,    \* call[k]: a request between its check and its write
    form     \* the settings tab

configVars == <<config, preset, taken, call, form>>

-----------------------------------------------------------------------------
Config   == {"plain", "rules"}
NoConfig == "none"

(* A field of a partial update: what it shall be, or nothing.              *)
OneAtMost(S)      == {{}} \cup {{x} : x \in S}
Given(asked, now) == IF asked = {} THEN now ELSE CHOOSE x \in asked : TRUE

Preset == [owner : Clerks, shared : BOOLEAN, config : Config]
Write  == [op : {"set"}, config : Config, base : Config \cup {NoConfig}]
    \cup [op : {"change"}, by : Clerks, preset : Presets, config : OneAtMost(Config),
          shared : OneAtMost(BOOLEAN), overtaken : BOOLEAN]
    \cup [op : {"delete"}, preset : Presets]
Form   == [state : {"closed", "opening", "ready"}, values : Config,
           answer : Config \cup {NoConfig}, base : Config \cup {NoConfig}]

Closed == [state |-> "closed", values |-> "plain", answer |-> NoConfig, base |-> NoConfig]

(* Types of the tables, the requests and the form.                         *)
ConfigTypeOK ==
    /\ config \in Config
    /\ DOMAIN preset \subseteq taken /\ taken \subseteq Presets
    /\ \A p \in DOMAIN preset : preset[p] \in Preset
    /\ DOMAIN call \subseteq ConfigCalls /\ \A k \in DOMAIN call : call[k] \in Write
    /\ form \in Form

Put(f, x, y) == [z \in DOMAIN f \cup {x} |-> IF z = x THEN y ELSE f[z]]
Minus(f, x)   == [z \in DOMAIN f \ {x} |-> f[z]]

(* Request k has passed its checks, and w is to be written.                *)
Starts(k, w) ==
    /\ k \in ConfigCalls \ DOMAIN call
    /\ call' = Put(call, k, w)
    /\ UNCHANGED <<config, preset, taken>>

(* Request k is done; changes of preset p in flight are overtaken by it.   *)
Done(k) == call' = Minus(call, k)
DoneOvertaking(k, p) ==
    call' = [j \in DOMAIN call \ {k} |->
               IF call[j].op = "change" /\ call[j].preset = p
               THEN [call[j] EXCEPT !.overtaken = TRUE] ELSE call[j]]

-----------------------------------------------------------------------------
(* A configuration is stored when it is valid and its age groups are those *)
(* of the competition at the check.                                        *)
SetCheck(k, c) ==
    /\ Starts(k, [op |-> "set", config |-> c, base |-> NoConfig])
    /\ UNCHANGED form

(* A preset is applied as it was read, its age groups unseen.              *)
ApplyCheck(k, u, p) ==
    /\ p \in DOMAIN preset
    /\ u \in Chiefs \/ preset[p].owner = u \/ preset[p].shared
    /\ Starts(k, [op |-> "set", config |-> preset[p].config, base |-> NoConfig])
    /\ UNCHANGED form

SetWrite(k) ==
    /\ call[k].op = "set"
    /\ config' = call[k].config
    /\ Done(k) /\ UNCHANGED <<preset, taken, form>>

(* Only an admin creates a shared preset.                                  *)
CreatePreset(u, p, c, shared) ==
    /\ shared => u \in Chiefs
    /\ p \in Presets \ taken
    /\ preset' = Put(preset, p, [owner |-> u, shared |-> shared, config |-> c])
    /\ taken' = taken \cup {p}
    /\ UNCHANGED <<config, call, form>>

Owns(u, p) == p \in DOMAIN preset /\ (u \in Chiefs \/ preset[p].owner = u)

Change(u, p, c, shared) ==
    [op |-> "change", by |-> u, preset |-> p, config |-> c, shared |-> shared,
     overtaken |-> FALSE]

(* Mutant: the sharing that is asked for is not looked at.                 *)
ChangeUnchecked(k, u, p, c, shared) ==
    /\ Owns(u, p)
    /\ Starts(k, Change(u, p, c, shared))
    /\ UNCHANGED form

(* Who is not an admin leaves the sharing as it was read, or unmentioned.  *)
ChangeCheck(k, u, p, c, shared) ==
    /\ Owns(u, p)
    /\ u \in Chiefs \/ shared \subseteq {preset[p].shared}
    /\ Starts(k, Change(u, p, c, shared))
    /\ UNCHANGED form

ChangeWrite(k) ==
    LET p == call[k].preset IN
    /\ call[k].op = "change" /\ p \in DOMAIN preset
    /\ preset' = [preset EXCEPT ![p].shared = Given(call[k].shared, @),
                                ![p].config = Given(call[k].config, @)]
    /\ DoneOvertaking(k, p)
    /\ UNCHANGED <<config, taken, form>>

DeleteCheck(k, u, p) ==
    /\ Owns(u, p)
    /\ Starts(k, [op |-> "delete", preset |-> p])
    /\ UNCHANGED form

DeleteWrite(k) ==
    /\ call[k].op = "delete" /\ call[k].preset \in DOMAIN preset
    /\ preset' = Minus(preset, call[k].preset)
    /\ Done(k) /\ UNCHANGED <<config, taken, form>>

(* The write finds no row, or the request fails before it.                 *)
GiveUp(k) == Done(k) /\ UNCHANGED <<config, preset, taken, form>>

-----------------------------------------------------------------------------
(* The settings tab.  It opens on the competition, which comes without its *)
(* rules, and asks for the configuration; what the answer brings replaces  *)
(* what is in the form, and no answer leaves the rules off.                *)
Show(f) == form' = f /\ UNCHANGED <<config, preset, taken, call>>

OpenForm ==
    Show([state |-> "opening", values |-> "plain", answer |-> NoConfig, base |-> NoConfig])

ReadForm ==
    /\ form.state = "opening" /\ form.answer = NoConfig
    /\ Show([form EXCEPT !.answer = config])

(* Mutant: the rules of the answer are left aside.                         *)
FillFormat ==
    /\ form.state = "opening" /\ form.answer # NoConfig
    /\ Show([state |-> "ready", values |-> "plain", answer |-> NoConfig,
              base |-> form.answer])

FillForm ==
    /\ form.state = "opening" /\ form.answer # NoConfig
    /\ Show([state |-> "ready", values |-> form.answer, answer |-> NoConfig,
              base |-> form.answer])

FormFails ==
    /\ form.state = "opening"
    /\ Show([form EXCEPT !.state = "ready", !.values = "plain", !.answer = NoConfig])

Configure(c) ==
    /\ form.state # "closed"
    /\ Show([form EXCEPT !.values = c, !.base = NoConfig])

(* A save that is done has the page open anew.                             *)
SaveForm(k) ==
    /\ form.state # "closed"
    /\ Starts(k, [op |-> "set", config |-> form.values, base |-> form.base])
    /\ UNCHANGED form

-----------------------------------------------------------------------------
ConfigInit ==
    /\ config = "plain" /\ preset = <<>> /\ taken = {} /\ call = <<>>
    /\ form = Closed

Checks(k) ==
    \/ \E c \in Config : SetCheck(k, c)
    \/ \E u \in Clerks, p \in Presets :
         \/ ApplyCheck(k, u, p) \/ DeleteCheck(k, u, p)
         \/ \E c \in OneAtMost(Config), shared \in OneAtMost(BOOLEAN) :
              ChangeCheck(k, u, p, c, shared)
    \/ SaveForm(k)

Finishes(k) == SetWrite(k) \/ ChangeWrite(k) \/ DeleteWrite(k) \/ GiveUp(k)

ConfigNext ==
    \/ \E u \in Clerks, p \in Presets, c \in Config, shared \in BOOLEAN :
         CreatePreset(u, p, c, shared)
    \/ \E k \in ConfigCalls : Checks(k)
    \/ \E k \in DOMAIN call : Finishes(k)
    \/ OpenForm \/ ReadForm \/ FillForm \/ FormFails
    \/ \E c \in Config : Configure(c)

ConfigSpec == ConfigInit /\ [][ConfigNext]_configVars

-----------------------------------------------------------------------------
(* What a step may change that ends a request other than the change of a   *)
(* preset by an admin, or one that was overtaken.                          *)
SharingKept ==
    \A k \in DOMAIN call :
      (/\ k \notin DOMAIN call'
       /\ call[k].op = "change" => call[k].by \notin Chiefs /\ ~call[k].overtaken) =>
        \A p \in DOMAIN preset \cap DOMAIN preset' : preset'[p].shared = preset[p].shared

(* Whether a preset is shared is changed by admins only (README.md:329),   *)
(* unless one of them changes it between the check and the write of a      *)
(* secretary: the secretary then takes it back unknowingly                 *)
(* (competitions.service.ts:390-411).                                      *)
SharedOnlyByAdmin == [][SharingKept]_configVars

(* What a step may change that ends the save of a form left as it was.     *)
SavedAsFilled ==
    \A k \in DOMAIN call :
      (k \notin DOMAIN call' /\ call[k].op = "set" /\ call[k].base # NoConfig) =>
        config' \in {config, call[k].base}

(* Whoever saves a form that was filled by the server and not touched      *)
(* stores what the server had sent: the rules of advanced grouping get     *)
(* lost only in a form that was saved before its answer came, or without   *)
(* one (SettingsTab.tsx:68-95).                                            *)
FormSavesWhatItShows == [][SavedAsFilled]_configVars
=============================================================================
