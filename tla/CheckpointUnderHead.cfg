SPECIFICATION Spec
CONSTANTS
    Workers = {w1}
    Nobody = nobody
    MaxWrites = 2
    MaxEnd = 1
    MaxVersions = 2
    MaxCrashes = 0
PROPERTIES
    NoCheckpointUnderHead
