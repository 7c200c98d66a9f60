\* The protocol with all age groups in one table.
SPECIFICATION RulesSpec
CONSTANTS
    MaxSwimmers = 1
    MaxPool = 1
    MaxListed = 4
    ListedTimes = {900000, 1200000}
    MaxClock = 0
INVARIANT
    CombinedGivesPlaces
\* The enumeration of the inputs ends.
CHECK_DEADLOCK FALSE
