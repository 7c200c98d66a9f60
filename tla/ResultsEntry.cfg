\* Saves of single results and of the heat, racing each other, deletions and the
\* completion of the competition.
SPECIFICATION FairSpec
CONSTANTS
    Entries = {e1}
    Requests = {r1, r2}
    AgeGroup <- OneGroup
    Times = {1, 2}
    Tier <- TierOfTime
    Reports <- TwoTimes
    MaxVersion = 3
    Ops = {"load", "save", "heat", "finalize", "unfinalize", "status", "delete"}
PROPERTIES
    LostUpdateOnlyInRace
    EventuallyFrozen
