------------------------------- MODULE MCOffice -------------------------------
(* Instances of the components around the results.  They do not share any  *)
(* state, so a behaviour is one of the part that is chosen at first, and   *)
(* the others stay as they begin.                                          *)
EXTENDS AuthSessions, HeatDrafts, LiveBoard, DocxMemory, AdminPage, FeatureFlags,
        ResultsTab, TLC

CONSTANTS u1, u2, l1, l2

VARIABLE part

Parts == {"auth", "drafts", "board", "memory", "panel", "flags", "results"}

officeVars == <<part, authVars, draftVars, boardVars, memoryVars, adminVars, flagVars,
                resultsTabVars>>

HolderOf == (l1 :> u1) @@ (l2 :> u2)

OfficeInit ==
    /\ part \in Parts
    /\ AuthInit /\ DraftInit /\ MemoryInit /\ BoardInit /\ AdminInit /\ FlagInit
    /\ ResultsTabInit
    /\ part # "board" => board.event = CHOOSE e \in Distances : TRUE
    /\ part # "panel" => open = {}
    /\ part # "flags" => enabled
    /\ part # "results" => view.event = CHOOSE e \in Disciplines : TRUE

Frozen(others) == UNCHANGED <<part, others>>

OfficeNext ==
    \/ /\ part = "auth" /\ AuthNext
       /\ Frozen(<<draftVars, boardVars, memoryVars, adminVars, flagVars, resultsTabVars>>)
    \/ /\ part = "drafts" /\ DraftNext
       /\ Frozen(<<authVars, boardVars, memoryVars, adminVars, flagVars, resultsTabVars>>)
    \/ /\ part = "board" /\ BoardNext
       /\ Frozen(<<authVars, draftVars, memoryVars, adminVars, flagVars, resultsTabVars>>)
    \/ /\ part = "memory" /\ MemoryNext
       /\ Frozen(<<authVars, draftVars, boardVars, adminVars, flagVars, resultsTabVars>>)
    \/ /\ part = "panel" /\ AdminNext
       /\ Frozen(<<authVars, draftVars, boardVars, memoryVars, flagVars, resultsTabVars>>)
    \/ /\ part = "flags" /\ FlagNext
       /\ Frozen(<<authVars, draftVars, boardVars, memoryVars, adminVars, resultsTabVars>>)
    \/ /\ part = "results" /\ ResultsTabNext
       /\ Frozen(<<authVars, draftVars, boardVars, memoryVars, adminVars, flagVars>>)

OfficeSpec == OfficeInit /\ [][OfficeNext]_officeVars

(* The others keep their first values, that need no check again.           *)
OfficeTypeOK ==
    CASE part = "auth"   -> AuthTypeOK
      [] part = "drafts" -> DraftTypeOK
      [] part = "board"  -> BoardTypeOK
      [] part = "memory" -> MemoryTypeOK
      [] part = "panel"  -> AdminTypeOK
      [] part = "flags"  -> FlagTypeOK
      [] part = "results" -> ResultsTabTypeOK

(* Once nothing is on its way, a page shows what there is, as far as it    *)
(* can know: the board of a competition, the sessions of a user, the       *)
(* flags, the results of an event (live.gateway.ts:67,                     *)
(* admin/page.tsx:232-304, useFeatureFlags.ts:16-50,                       *)
(* ResultsTab.tsx:32-49).                                                  *)
PagesCatchUp ==
    BoardCatchesUp /\ PanelCatchesUp /\ FlagsCatchUp /\ ResultsTabCatchesUp

(* Bound: heats with a draft in the storage at the same time.              *)
TwoDrafts == Cardinality(DOMAIN draft) <= 2

Symmetry == Permutations(Requests)
==============================================================================
