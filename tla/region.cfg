SPECIFICATION Spec
CONSTANTS
    Uuids = {u1, u2}
    Nil = Nil
    Vpns = {0, 1}
    MAX_NODES = 2
    Readers = {r1}
    MaxSeq = 8
VIEW View
SYMMETRY Symmetry
CHECK_DEADLOCK FALSE
INVARIANTS
    SnapshotIsTable
    SlotFullIsFull
PROPERTIES
    ImplementsRegionTable
