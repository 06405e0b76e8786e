SPECIFICATION Spec
CONSTANTS
    Workers = {w1, w2}
    Nobody = nobody
    MaxWrites = 2
    MaxEnd = 2
    MaxVersions = 2
    MaxCrashes = 1
SYMMETRY Symmetry
INVARIANTS
    TypeOK
    AckedWritesKept
    VersionHoldsItsWrites
    SavedOnce
    ReadsSnapshot
    SizeOfSomeMoment
    PinnedRefusesWrites
