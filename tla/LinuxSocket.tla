---------------------------- MODULE LinuxSocket ----------------------------
(***************************************************************************)
(* The client socket of the Linux build (src/utils/net/linux/socket.cpp):  *)
(* blocking, called by one thread, but one of several users of the         *)
(* process's descriptors.  Every call is one action.                       *)
(*                                                                         *)
(* No constructor gives m_socketInst the value that Connect waits for: the *)
(* one without parameters makes it 0, the other leaves it uninitialised.   *)
(***************************************************************************)
EXTENDS Integers

CONSTANTS
    Sockets,   \* socket objects
    Addrs,     \* addresses a socket is configured with
    NoAddr,    \* the empty address of a default-constructed socket
    NumFds,    \* how many descriptors the process can have
    Garbage    \* what an uninitialised m_socketInst may hold

VARIABLES
    live,           \* the objects that exist
    m_socketInst,   \* per object
    m_addr,         \* per object (with m_port)
    file,           \* what each descriptor of the process stands for
    ret,            \* what the last call returned, "killed" after a SIGPIPE
    assigned,       \* history: objects whose m_socketInst a call has set
    robbed          \* history: objects whose descriptor another object has closed

vars == <<live, m_socketInst, m_addr, file, ret, assigned, robbed>>

ASSUME NumFdsAssumption == NumFds \in Nat \ {0}
ASSUME GarbageAssumption == Garbage \subseteq Int
ASSUME NamesAssumption == NoAddr \notin Addrs

INVALID_SOCKET_FD == -1
Fds == 0 .. NumFds - 1
NoFile == [st |-> "free", owner |-> {}, peer |-> NoAddr]
OtherFile == [st |-> "other", owner |-> {}, peer |-> NoAddr]

Init ==
    /\ live = {}
    /\ m_socketInst = [s \in Sockets |-> INVALID_SOCKET_FD]
    /\ m_addr = [s \in Sockets |-> NoAddr]
    /\ file = [f \in Fds |-> IF f = 0 THEN OtherFile ELSE NoFile]
    /\ ret = "none"
    /\ assigned = {}
    /\ robbed = {}

Running == ret # "killed"
Free == {f \in Fds : file[f].st = "free"}

-----------------------------------------------------------------------------
\* The constructors.
NewSocket(s) ==
    /\ Running /\ s \notin live
    /\ live' = live \cup {s}
    /\ \/ /\ m_socketInst' = [m_socketInst EXCEPT ![s] = 0]
          /\ m_addr' = [m_addr EXCEPT ![s] = NoAddr]
       \/ \E g \in Garbage, a \in Addrs :
             /\ m_socketInst' = [m_socketInst EXCEPT ![s] = g]
             /\ m_addr' = [m_addr EXCEPT ![s] = a]
    /\ ret' = "none"
    /\ assigned' = assigned \ {s}
    /\ UNCHANGED <<file, robbed>>

Connected(s) == m_socketInst[s] >= 0

\* Disconnect closes whatever m_socketInst says, unless that is negative.
InstAfter(s) == IF Connected(s) THEN INVALID_SOCKET_FD ELSE m_socketInst[s]
FileAfter(s) ==
    IF m_socketInst[s] \in Fds THEN [file EXCEPT ![m_socketInst[s]] = NoFile] ELSE file
Victims(s) == IF m_socketInst[s] \in Fds THEN file[m_socketInst[s]].owner ELSE {}
RobbedAfter(s) == (robbed \cup Victims(s)) \ {s}

\* Connect on descriptors tab, with m_socketInst = i: refused unless i is the
\* invalid descriptor; socket fails; or connect fails or succeeds, and the
\* descriptor is kept either way.
Connect(s, i, tab) ==
    \/ /\ m_socketInst' = [m_socketInst EXCEPT ![s] = i]
       /\ file' = tab
       /\ ret' = "false"
    \/ /\ i = INVALID_SOCKET_FD
       /\ \E f \in Fds, st \in {"failed", "up"} :
            /\ tab[f].st = "free" /\ \A g \in Fds : tab[g].st = "free" => f <= g
            /\ m_socketInst' = [m_socketInst EXCEPT ![s] = f]
            /\ file' = [tab EXCEPT ![f] = [st |-> st, owner |-> {s}, peer |-> m_addr[s]]]
            /\ ret' = IF st = "up" THEN "true" ELSE "false"

\* Plausible bug: a socket connects without looking at what it has.
StartAgain(s) ==
    /\ Running /\ s \in live
    /\ Connect(s, INVALID_SOCKET_FD, file)
    /\ assigned' = assigned \cup {s}
    /\ UNCHANGED <<live, m_addr, robbed>>

Start(s) ==
    /\ Running /\ s \in live
    /\ Connect(s, m_socketInst[s], file)
    /\ assigned' = IF m_socketInst[s] = INVALID_SOCKET_FD THEN assigned \cup {s} ELSE assigned
    /\ UNCHANGED <<live, m_addr, robbed>>

\* Plausible bug: the old descriptor is closed but stays in m_socketInst.
ReconnectKeeps(s) ==
    /\ Running /\ s \in live
    /\ Connect(s, m_socketInst[s], FileAfter(s))
    /\ robbed' = RobbedAfter(s)
    /\ assigned' = IF m_socketInst[s] >= -1 THEN assigned \cup {s} ELSE assigned
    /\ UNCHANGED <<live, m_addr>>

Reconnect(s) ==
    /\ Running /\ s \in live
    /\ Connect(s, InstAfter(s), FileAfter(s))
    /\ robbed' = RobbedAfter(s)
    /\ assigned' = IF m_socketInst[s] >= -1 THEN assigned \cup {s} ELSE assigned
    /\ UNCHANGED <<live, m_addr>>

\* The destructor.
DeleteSocket(s) ==
    /\ Running /\ s \in live
    /\ live' = live \ {s}
    /\ m_socketInst' = [m_socketInst EXCEPT ![s] = INVALID_SOCKET_FD]
    /\ m_addr' = [m_addr EXCEPT ![s] = NoAddr]
    /\ file' = FileAfter(s)
    /\ robbed' = RobbedAfter(s)
    /\ assigned' = assigned \ {s}
    /\ ret' = "none"

\* Plausible bug: the address may change under a connection.
ConfigAlways(s) ==
    /\ Running /\ s \in live
    /\ \E a \in Addrs : m_addr' = [m_addr EXCEPT ![s] = a]
    /\ ret' = "true"
    /\ UNCHANGED <<live, m_socketInst, file, assigned, robbed>>

Config(s) ==
    /\ Running /\ s \in live
    /\ \/ Connected(s) /\ ret' = "false" /\ UNCHANGED m_addr
       \/ /\ ~Connected(s) /\ ret' = "true"
          /\ \E a \in Addrs : m_addr' = [m_addr EXCEPT ![s] = a]
    /\ UNCHANGED <<live, m_socketInst, file, assigned, robbed>>

\* Plausible bug: Send hands on what send returns.
SendCounts(s) ==
    /\ Running /\ s \in live
    /\ ret' \in {"-1", "1"}
    /\ UNCHANGED <<live, m_socketInst, m_addr, file, assigned, robbed>>

\* Send may always fail; a socket that was never connected, or whose peer is
\* gone, raises SIGPIPE.
Send(s) ==
    /\ Running /\ s \in live
    /\ LET f == m_socketInst[s] IN
       \/ ret' = "false"
       \/ f \in Fds /\ file[f].st \in {"other", "up"} /\ ret' = "true"
       \/ f \in Fds /\ file[f].st \in {"failed", "broken"} /\ ret' = "killed"
    /\ UNCHANGED <<live, m_socketInst, m_addr, file, assigned, robbed>>

-----------------------------------------------------------------------------
\* The peer goes away.
PeerCloses ==
    /\ Running
    /\ \E f \in Fds : /\ file[f].st = "up"
                      /\ file' = [file EXCEPT ![f].st = "broken"]
    /\ UNCHANGED <<live, m_socketInst, m_addr, ret, assigned, robbed>>

\* The rest of the program opens a descriptor, or closes one of its own.
OthersOpen ==
    /\ Running
    /\ \E f \in Fds : /\ \/ file[f].st = "other" /\ file' = [file EXCEPT ![f] = NoFile]
                         \/ /\ file[f].st = "free" /\ \A g \in Free : f <= g
                            /\ file' = [file EXCEPT ![f] = OtherFile]
    /\ UNCHANGED <<live, m_socketInst, m_addr, ret, assigned, robbed>>

Next ==
    \/ \E s \in Sockets : \/ NewSocket(s) \/ Start(s) \/ Reconnect(s) \/ DeleteSocket(s)
                          \/ Config(s) \/ Send(s)
    \/ PeerCloses \/ OthersOpen

Spec == Init /\ [][Next]_vars

-----------------------------------------------------------------------------
(***************************************************************************)
(* Properties.                                                             *)
(***************************************************************************)
File == [st : {"free", "other", "failed", "up", "broken"}, owner : SUBSET Sockets,
         peer : Addrs \cup {NoAddr}]

TypeOK ==
    /\ live \in SUBSET Sockets
    /\ m_socketInst \in [Sockets -> Int]
    /\ m_addr \in [Sockets -> Addrs \cup {NoAddr}]
    /\ file \in [Fds -> File]
    /\ ret \in {"none", "true", "false", "killed"}
    /\ assigned \in SUBSET live
    /\ robbed \in SUBSET Sockets

\* Nothing leaks: a descriptor that an object has opened is the one in its
\* m_socketInst, so the destructor or the next Reconnect will close it.
NoLeak == \A s \in Sockets, f \in Fds : file[f].owner = {s} => s \in live /\ m_socketInst[s] = f

\* A socket talks to the address it is configured with: Config cannot change
\* the address under a connection, not even one that failed.
TalksToConfigured ==
    \A s \in Sockets, f \in Fds : file[f].owner = {s} => file[f].peer = m_addr[s]

\* Once a call has set it, a non-negative m_socketInst is a descriptor of the
\* object's own until another object closes that very descriptor, as the first
\* Reconnect or the destructor of a socket that nobody connected may
\* (socket.cpp:51-56); the next Reconnect repairs the robbed object.
HoldsOwn ==
    \A s \in assigned \ robbed :
        Connected(s) => m_socketInst[s] \in Fds /\ file[m_socketInst[s]].owner = {s}
=============================================================================
