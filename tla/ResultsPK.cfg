\* A placed swimmer is moved out of competition and the event finalized again.
SPECIFICATION Spec
CONSTANTS
    Entries = {e1, e2}
    Requests = {r1, r2}
    AgeGroup <- OneGroup
    Times = {1, 2}
    Tier <- TierOfTime
    Reports <- TimesOrPK
    MaxVersion = 2
    Ops = {"heat", "finalize"}
PROPERTY
    OutOfCompetitionHasNoPlace
