\* One user after the other exports a competition that is edited, and the jobs
\* they gave up on go on; two requests about the protocol configuration at the
\* same time; and changes made on the settings tab.
SPECIFICATION DocumentsSpec
CONSTANTS
    Jobs = {j1, j2}
    Keys = {k1, k2}
    Services = {s1}
    Handlers <- OneHandler
    MaxRetries = 2
    DeadLimit = 1
    Faults = {"crash", "expire"}
    NoJob = NoJob
    NoKey = NoKey
    Clients = {c1}
    MaxPolls = 2
    NoHandler = NoHandler
    Clerks = {admin, secretary}
    Chiefs = {admin}
    Presets = {p1}
    ConfigCalls = {q1, q2}
    AgeGroupIds = {1, 2}
    NoAgeGroup = NoAgeGroup
    FirstConfigs <- PlainAndRules
    Texts <- OneOrTwo
    MaxChanges = 4
INVARIANTS
    DocumentsTypeOK
    JobIsWhatWasAsked
    FailureIsFinal
    DoneIsDownloadable
    TabAgreesWithServer
PROPERTIES
    SharedOnlyByAdmin
    FormSavesWhatItShows
    EveryExportEnds
