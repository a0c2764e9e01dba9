SPECIFICATION Spec
CONSTANTS
    Conns = {c1, c2}
    NoConn = NoConn
    Senders = {"spoke"}
    MaxSeq = 3
    MaxChanges = 1
    MaxFaults = 1
VIEW View
SYMMETRY Symmetry
INVARIANTS
    OnlyOvertakenRejected
    LsaSettled
    UplinkListed
CHECK_DEADLOCK FALSE
