--------------------------- MODULE MCLinuxSocket ---------------------------
(* LinuxSocket for TLC: what an uninitialised m_socketInst may hold.       *)
EXTENDS LinuxSocket, TLC

\* A negative value that is not -1, -1, a descriptor and a value beyond them.
MCGarbage == {-2, -1, 1, 7}
MCSymmetry == Permutations(Sockets) \cup Permutations(Addrs)
=============================================================================
