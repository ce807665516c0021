SPECIFICATION MCSpec
CONSTANTS
    MaxJobs = 2
    MaxSteps = 5
    Names = {"jammy", "noble"}
    Suites <- MCSuites
    SuiteList <- MCSuiteList
    Checked = {"noble"}
    MaxMinute = 2
    MaxSets = 1
    MaxRecords = 3
    Handlers = {"adopt", "forget", "create", "remove", "removeOne", "new", "update", "switch", "discard", "discardOne", "stale"}
    MaxPending = 1
    Continues <- MCContinues
    InitialSets <- InThreeWorlds
    Synced = {"noble"}
INVARIANTS
    WorkflowInvariant
    NoHalfTakenSetPublished
    CompleteSetsExist
    HonestProgress
    OneWriter
PROPERTIES
    BaseBeforeUpdates
    SwitchMeansPublished
    ErasedMeansGone
    CreateMeansMirrors
    WorkerComesBack
