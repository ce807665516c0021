SPECIFICATION AccountsSpec
CONSTANTS
    Names <- MCNames
    Roles <- MCRoles
    Requests = {q1, q2}
    Configurations <- MCConfigurations
INVARIANTS
    AccountsTypeOK
    FirstRunEndsOnce
PROPERTIES
    AdminKeptUnlessOvertaken
    ConfiguredAdminOutlastsProvider
