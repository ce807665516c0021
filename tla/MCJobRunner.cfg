SPECIFICATION FairSpec
CONSTANTS
    MaxJobs <- MCMaxJobs
    MaxSteps <- MCMaxSteps
INVARIANTS
    TypeOK
    OnePlacePerJob
    QueuedIsReachable
    OneJobInHand
    AuditAgreesWithJob
    StepsMatchOutcome
PROPERTIES
    KeepsPromise
    EveryAcceptedJobSettles
