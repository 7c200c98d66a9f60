\* Two imports by a secretary or an administrator, and changes around them; and
\* the pages, each with two or three requests in flight.
SPECIFICATION SetupSpec
CONSTANTS
    Swimmers = {1}
    EventNames = {1, 2}
    Users = {secretary, admin}
    Admins = {admin}
    AthleteIds = {1, 2}
    EventIds = {11, 12, 13}
    GroupIds = {21}
    Fits <- AllFit
    Files <- AllRows
    Imports = {v1, v2}
    MaxEdits = 1
    NoGroup = NoGroup
    Races = {v1, v2}
    Starters = {t1}
    NoRace = NoRace
    MaxTabCalls = 2
    Sheets <- SomeSheets
    NoSheet = NoSheet
    NoStyle = NoStyle
    MaxParses = 2
    MaxSaves = 1
    s1 = s1
    s2 = s2
    Athletes = {s1, s2}
    InAddress <- OneNamed
    Earlier <- OneKnown
    NoAthlete = NoAthlete
    MaxRows = 2
    MaxDrafts = 3
    NormRow <- TwoRows
    FirstRow <- RowOne
    MaxNorms = 2
    MaxAsks = 2
SYMMETRY Symmetry
CONSTRAINT FewIds
INVARIANTS
    SetupTypeOK
    ListsCatchUp
    PagesSendWhatTheyShow
PROPERTIES
    ReimportAddsNothing
    CleanUnlessRaced
\* A page that could not be loaded, or was left after the import, is not used
\* any more.
CHECK_DEADLOCK FALSE
