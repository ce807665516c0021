SPECIFICATION DiskSpec
CONSTANTS
    Mib = 2
    Gib = 2
    Margins <- MCMargins
    Disks = {4, 5}
    Sizes = {0, 3, 6}
    MaxMirrors = 2
    MaxForeign = 2
    MaxAdrift = 3
INVARIANTS
    DiskTypeOK
    GuardedDownloadsFit
    ShortfallIsExact
