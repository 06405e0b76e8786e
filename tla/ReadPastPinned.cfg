CONSTANTS
    f1 = f1
    f2 = f2
    t1 = t1
    t2 = t2
    NoTag = NoTag
    Files <- MCOneFile
    Tags <- MCTags
    Payloads <- MCPayloads
    Offsets = {0, 2, 4}
    MaxChunks = 2
    MaxVersions = 2
    MaxFileSize = 8
    Dense = TRUE
SPECIFICATION Spec
SYMMETRY Symmetry
INVARIANT
    ReadsInsideSizeReturn
