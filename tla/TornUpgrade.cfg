SPECIFICATION MigrationsFairSpec
CONSTANTS
    Upgrades <- Scripts
    Marker <- AdoptionMarkers
INVARIANTS
    NoWipeNeeded
