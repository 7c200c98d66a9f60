\* One export requested over and over, two services, every kind of fault.
SPECIFICATION Spec
CONSTANTS
    Jobs = {j1, j2}
    Keys = {k1}
    Services = {s1, s2}
    Handlers <- TwoInOne
    MaxRetries = 2
    DeadLimit = 1
    Faults = {"crash", "redis", "expire"}
    NoJob = NoJob
    NoKey = NoKey
SYMMETRY Symmetry
INVARIANTS
    TypeOK
    SingleCarrier
    CarrierStatus
    StuckOnlyIfOrphaned
    CompletedDownloadable
    DeadLetterAgrees
PROPERTY
    FinalStatusIsFinal
