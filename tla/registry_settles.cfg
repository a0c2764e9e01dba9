SPECIFICATION FairSpec
CONSTANTS
    c1 = c1
    c2 = c2
    Conns = {c1}
    Uuids = {"AI.one"}
    SystemNodes = {}
    Times = {1}
    MAX_NODES = 1
    MaxConfig = 2
    ReadsTimeOut = FALSE
PROPERTIES FibSettles ConfigSettles
