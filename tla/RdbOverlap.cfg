SPECIFICATION Spec
CONSTANTS
    NKeys = 2
    Child = {c1}
    NFiles = 3
    Server = server
    MaxWrites = 2
INVARIANT SnapshotWhole
