\* Each component on its own, safety only.
SPECIFICATION OfficeSpec
CONSTANTS
    Users = {chief, clerk}
    Admins = {chief}
    Bootstrap = chief
    Passwords = {first, second}
    FirstPassword = first
    MaxSessions = 2
    Requests = {r1, r2}
    Events = {fly, free}
    FirstEvent = fly
    Heats = {1, 2}
    FirstHeat = 1
    Marks = {blank, typed1}
    Blank = blank
    NoEvent = NoEvent
    Distances = {fly, free}
    MaxPublished = 2
    MaxLoads = 2
    MemJobs = {j1, j2, j3}
    MemKeys = {m1, m2}
    MemRetries = 2
    Nobody = Nobody
    u1 = u1
    u2 = u2
    l1 = l1
    l2 = l2
    People = {u1, u2}
    Logins = {l1, l2}
    Holder <- HolderOf
    NoUser = NoUser
    MaxChains = 2
    MaxFlagCalls = 3
    Disciplines = {fly, free}
    MaxResults = 2
    MaxClicks = 3
SYMMETRY Symmetry
CONSTRAINT TwoDrafts
INVARIANTS
    OfficeTypeOK
    AccessIsCurrent
    DraftKeepsTyped
    PagesCatchUp
    NothingNeededIsRemoved
PROPERTY
    MemoryImplementsJob
\* Nobody has to do anything more.
CHECK_DEADLOCK FALSE
