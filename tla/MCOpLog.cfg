SPECIFICATION Spec
CONSTANTS
    Users = {u1, u2, u3}
    MaxVersions = 3
SYMMETRY Symmetry
INVARIANTS
    TypeOK
    ScreensTruthful
