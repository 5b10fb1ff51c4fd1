CONSTANTS
    Handle <- Handles
    Key <- Keys
    Value <- Values
    Absent = Absent
    MaxBatch = 2
    h1 = h1  h2 = h2  k1 = k1  k2 = k2  v1 = v1  v2 = v2
SPECIFICATION Spec
INVARIANT TypeOK
PROPERTY ImplementsTxStore
SYMMETRY Symmetry
