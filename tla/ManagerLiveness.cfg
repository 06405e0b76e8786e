SPECIFICATION Spec
CONSTANTS
    Workers = {w1, w2, w3}
    Nobody = nobody
    MaxWrites = 1
    MaxEnd = 1
    MaxVersions = 1
    MaxCrashes = 0
PROPERTIES
    CallsReturn
