\* Finalizations, undone and repeated, among batch saves and edited entries.
SPECIFICATION Spec
CONSTANTS
    Entries = {e1, e2}
    Requests = {r1, r2}
    AgeGroup <- OneGroup
    Times = {1, 2}
    Tier <- TierOfTime
    Reports <- TimesOrDQ
    MaxVersion = 2
    Ops = {"heat", "finalize", "unfinalize", "edit"}
SYMMETRY Symmetry
INVARIANT
    TypeOK
PROPERTIES
    FinalizationRanks
    RankDropsOnlyInRace
