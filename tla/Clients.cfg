\* Three mounts over one table, one of which reads, restarted at any time.
CONSTANTS
    Clients = {c, d, e}
    Readers = {e}
    Blocks = {a, b}
    NoRecords = NoRecords
    Hole = Hole
    Slots = {s}
    MaxUse = 3
    MaxRows = 4
SYMMETRY Symmetry
SPECIFICATION Spec
INVARIANTS
    TypeOK
    EveryReferenceResolves
    RowsBounded
    UseCountsCoverReferences
