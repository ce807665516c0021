SPECIFICATION MigrationsFairSpec
CONSTANTS
    Upgrades <- Scripts
    Marker <- AdoptionMarkers
INVARIANTS
    MigrationsTypeOK
    WholeDatabasesUpgrade
    ServingMeansCurrent
PROPERTIES
    WholeDatabasesAreServed
