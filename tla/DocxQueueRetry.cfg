\* The retry the user interface offers after a failed job.
SPECIFICATION Spec
CONSTANTS
    Jobs = {j1, j2}
    Keys = {k1}
    Services = {s1}
    Handlers <- TwoInOne
    MaxRetries = 2
    DeadLimit = 2
    Faults = {}
    NoJob = NoJob
    NoKey = NoKey
PROPERTY
    RetryIsNotAnsweredWithFailure
