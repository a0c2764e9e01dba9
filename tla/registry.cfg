SPECIFICATION Spec
CONSTANTS
    c1 = c1
    c2 = c2
    Conns = {c1, c2}
    Uuids = {"AI.one", "SY.two"}
    SystemNodes = {"SY.two"}
    Times = {1, 2}
    MAX_NODES = 1
    MaxConfig = 2
    ReadsTimeOut = TRUE
VIEW View
SYMMETRY Symmetry
INVARIANTS HolderIsLive NoGhosts RegionMatches
