SPECIFICATION AccountsSpec
CONSTANTS
    Names <- MCNames
    Roles <- MCRoles
    Requests = {q1}
    Configurations <- MCConfigurations
INVARIANTS
    SignInRefusedOnlyWhenInactive
