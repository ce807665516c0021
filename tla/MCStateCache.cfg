SPECIFICATION CacheSpec
CONSTANTS
    Readers <- MCReaders
    Parts <- MCParts
    Refresh = 1
    MaxRead = 1
    MaxTime = 2
    MaxChanges = 2
INVARIANTS
    StateCacheTypeOK
    FreshMeansRecent
    ForcedAnswersAreNew
PROPERTIES
    CopiesNeverGoBack
    EveryGetAnswers
