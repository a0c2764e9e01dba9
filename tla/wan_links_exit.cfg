SPECIFICATION Spec
CONSTANTS
    Conns = {c1, c2}
    NoConn = NoConn
    Senders = {"spoke"}
    MaxSeq = 1
    MaxChanges = 0
    MaxFaults = 1
INVARIANT PeerListed
CHECK_DEADLOCK FALSE
