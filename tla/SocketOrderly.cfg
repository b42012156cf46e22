CONSTANTS
    Workers = {w1, w2}
    Servers = {srv}
    Clients = {}
    Accepted = {a1, a2, a3}
    NoSocket = NoSocket
    Faults = {"abort", "eof"}
    SendLens = {}
    MaxSockets = 1
    MaxSends = 0
    MaxConns = 2
    MaxChunks = 3
    BufSize = 4
    WordSize = 16
SPECIFICATION FairOrderlySpec
CHECK_DEADLOCK FALSE
INVARIANTS OrderlyIsSafe KeepsListening LeaksOnlyAtRelease
PROPERTY StreamSpec
