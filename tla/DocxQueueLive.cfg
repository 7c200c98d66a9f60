\* Services that stay up and keys that do not expire.
SPECIFICATION FairSpec
CONSTANTS
    Jobs = {j1, j2, j3}
    Keys = {k1}
    Services = {s1, s2}
    Handlers <- TwoInOne
    MaxRetries = 2
    DeadLimit = 2
    Faults = {}
    NoJob = NoJob
    NoKey = NoKey
INVARIANT
    OneJobPerOpenRequest
PROPERTIES
    AckedJobsSettle
    ImplementsLifecycle
