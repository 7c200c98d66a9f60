\* Four swimmers on three lanes, two generations in flight, two edits; and
\* every pool the API accepts with up to 50 entries, protocols of up to
\* four results, and times of up to 70 seconds.
SPECIFICATION SeedingSpec
CONSTANTS
    Entries = {e1, e2, e3, e4}
    Requests = {r1, r2}
    Times = {0, 1}
    Pools = {1, 2, 3}
    MaxEdits = 2
    MaxSwimmers = 50
    MaxPool = 20
    MaxListed = 4
    ListedTimes = {900000, 1200000}
    MaxClock = 7000
SYMMETRY Symmetry
INVARIANTS
    TypeOK
    LaneSharedOnlyWithOutsider
    RulesFit
    ProtocolListsAll
    ProtocolPlaces
PROPERTY
    GenerationSeeds
\* The enumeration of the inputs of the rules ends.
CHECK_DEADLOCK FALSE
