SPECIFICATION Spec
CONSTANTS
    Workers = {w1, w2}
    Nobody = nobody
    Names <- MCNames
    HostFiles <- MCHostFiles
    MaxRecords = 1
SYMMETRY Symmetry
INVARIANTS
    TypeOK
    RemovalSavesItsDatabase
    RemovesOnlyCheckpointed
PROPERTIES
    ImplementsDirectory
