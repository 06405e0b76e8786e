CONSTANTS
    f1 = f1
    f2 = f2
    t1 = t1
    t2 = t2
    NoTag = NoTag
    Files <- MCFiles
    Tags <- MCTags
    Payloads <- MCOneThenTwo
    Offsets = {0, 2}
    MaxChunks = 3
    MaxVersions = 2
    MaxFileSize = 4
    Dense = FALSE
SPECIFICATION Spec
SYMMETRY Symmetry
INVARIANTS
    LayerObjects
    HeadNamesOwnLayer
    CatalogInv
PROPERTIES
    LayersKept
    VersionReadsStable
