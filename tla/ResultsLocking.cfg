\* Two secretaries save the same heat from pages loaded at different times.
SPECIFICATION Spec
CONSTANTS
    Entries = {e1, e2}
    Requests = {r1, r2}
    AgeGroup <- OneGroup
    Times = {1, 2}
    Tier <- TierOfTime
    Reports <- TwoTimes
    MaxVersion = 2
    Ops = {"load", "heat"}
PROPERTY
    NoUnseenOverwrite
