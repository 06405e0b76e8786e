CONSTANTS
    f1 = f1
    f2 = f2
    t1 = t1
    t2 = t2
    NoTag = NoTag
    Files <- MCOneFile
    Tags <- MCTags
    Payloads <- MCOnePayload
    Offsets = {0, 3}
    MaxChunks = 3
    MaxVersions = 2
    MaxFileSize = 8
    Dense = FALSE
SPECIFICATION Spec
SYMMETRY Symmetry
INVARIANT
    ActiveRangesDisjoint
