CONSTANTS
    Sockets = {s1, s2}
    Addrs = {a, b}
    NoAddr = NoAddr
    NumFds = 3
    Garbage <- MCGarbage
SYMMETRY MCSymmetry
SPECIFICATION Spec
CHECK_DEADLOCK FALSE
INVARIANTS TypeOK NoLeak TalksToConfigured HoldsOwn
