SPECIFICATION WorkflowSpec
CONSTANTS
    MaxJobs = 3
    MaxSteps = 5
    Names = {"jammy"}
    Suites <- MCOneSuite
    SuiteList <- MCOneList
    Checked = {}
    MaxMinute = 1
    MaxSets = 1
    MaxRecords = 2
    Handlers = {"update", "switch", "discard"}
    MaxPending = 1
    Continues = {}
    InitialSets <- MCInitialSets
    Synced = {"jammy"}
INVARIANTS
    NothingPublishedUnchosen
