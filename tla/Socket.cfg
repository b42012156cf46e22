CONSTANTS
    Workers = {w1, w2}
    Servers = {srv}
    Clients = {cli}
    Accepted = {a1, a2, a3}
    NoSocket = NoSocket
    Faults = {"acceptex", "setsockopt", "attach", "recv", "send", "partial", "abort", "acceptAbort", "eof", "acceptEof"}
    SendLens = {0, 2, 3}
    MaxSockets = 1
    MaxSends = 2
    MaxConns = 2
    MaxChunks = 3
    BufSize = 4
    WordSize = 16
SPECIFICATION Spec
CHECK_DEADLOCK FALSE
INVARIANTS TypeOK OneHolder OneReceive OneAccept DanglingOnlyAfterAccept
