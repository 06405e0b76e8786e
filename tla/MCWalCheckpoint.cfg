SPECIFICATION Spec
CONSTANTS
    MaxTxs = 4
    MaxVersions = 4
    MaxCrashes = 3
INVARIANTS
    TypeOK
    Recoverable
    OpenSeesCommitted
