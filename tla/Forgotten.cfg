SPECIFICATION WorkflowSpec
CONSTANTS
    MaxJobs = 1
    MaxSteps = 5
    Names = {"jammy"}
    Suites <- MCSuites
    SuiteList <- MCSuiteList
    Checked = {}
    MaxMinute = 0
    MaxSets = 1
    MaxRecords = 2
    Handlers = {"update", "forget"}
    MaxPending = 1
    Continues = {}
    InitialSets <- MCInitialSets
    Synced = {}
INVARIANTS
    ForgettingIsSafe
