------------------------- MODULE LinuxSocketProofs -------------------------
(***************************************************************************)
(* Proofs about LinuxSocket, for any number of sockets, any descriptors    *)
(* and any garbage in an uninitialised m_socketInst.  The inductive        *)
(* invariant is the conjunction of type correctness and of the three       *)
(* safety invariants.  Every call changes one socket and at most the two   *)
(* descriptors that Disconnect and Connect name, so the proof of a step    *)
(* looks at each socket and descriptor on its own.                         *)
(***************************************************************************)
EXTENDS LinuxSocket, TLAPS

\* What makes HoldsOwn inductive: closing a free descriptor, or one of the
\* rest of the program, harms no socket.
FreeUnowned == \A f \in Fds : file[f].st \in {"free", "other"} => file[f].owner = {}

Inv == TypeOK /\ NoLeak /\ TalksToConfigured /\ HoldsOwn /\ FreeUnowned

USE NumFdsAssumption, GarbageAssumption, NamesAssumption
    DEF Fds, NoFile, OtherFile, INVALID_SOCKET_FD, Connected, Running

\* A process that starts has no sockets.
LEMMA InitInv == Init => Inv
<1> SUFFICES ASSUME Init PROVE Inv
  OBVIOUS
<1>2. \A f \in Fds : file[f].owner = {}
  BY DEF Init
<1>3. file \in [Fds -> File]
  BY DEF Init, File
<1>4. TypeOK
  <2>1. m_socketInst \in [Sockets -> Int] /\ m_addr \in [Sockets -> Addrs \cup {NoAddr}]
    BY DEF Init
  <2>2. live \in SUBSET Sockets /\ assigned \in SUBSET live /\ robbed \in SUBSET Sockets /\ ret = "none"
    BY DEF Init
  <2>3. QED
    BY <1>3, <2>1, <2>2 DEF TypeOK
<1>5. NoLeak /\ TalksToConfigured
  BY <1>2 DEF NoLeak, TalksToConfigured
<1>6. HoldsOwn
  BY DEF Init, HoldsOwn
<1>7. FreeUnowned
  BY <1>2 DEF FreeUnowned
<1>8. QED
  BY <1>4, <1>5, <1>6, <1>7 DEF Inv

\* A constructor: nothing refers to the object before.
LEMMA NewSocketInv ==
    ASSUME Inv, NEW s \in Sockets, NewSocket(s)
    PROVE  Inv'
<1>0. /\ TypeOK /\ NoLeak /\ TalksToConfigured /\ HoldsOwn /\ FreeUnowned
      /\ s \notin live /\ file' = file /\ robbed' = robbed /\ live' = live \cup {s}
      /\ assigned' = assigned \ {s}
  BY DEF NewSocket, Inv
<1>1. \A f \in Fds : file[f].owner # {s}
  BY <1>0 DEF NoLeak
<1>2. \A t \in Sockets \ {s} : m_socketInst'[t] = m_socketInst[t] /\ m_addr'[t] = m_addr[t]
  BY <1>0 DEF NewSocket, TypeOK
<1>3. TypeOK'
  BY <1>0 DEF NewSocket, TypeOK
<1>4. NoLeak'
  BY <1>0, <1>1, <1>2 DEF NoLeak
<1>5. TalksToConfigured'
  BY <1>0, <1>1, <1>2 DEF TalksToConfigured
<1>6. HoldsOwn'
  BY <1>0, <1>2 DEF HoldsOwn, TypeOK
<1>7. FreeUnowned'
  BY <1>0 DEF FreeUnowned
<1>8. QED
  BY <1>3, <1>4, <1>5, <1>6, <1>7 DEF Inv

\* Descriptors tab among which s owns at most i...
Owned(s, i, tab) ==
    /\ s \in live /\ i \in Int /\ tab \in [Fds -> File]
    /\ \A f \in Fds : tab[f].owner = {s} => i = f
    /\ \A t \in Sockets \ {s}, f \in Fds :
           tab[f].owner = {t} => t \in live /\ m_socketInst[t] = f
    /\ \A t \in Sockets, f \in Fds : tab[f].owner = {t} => tab[f].peer = m_addr[t]
    /\ \A f \in Fds : tab[f].st \in {"free", "other"} => tab[f].owner = {}

\* ... and what a call that ends with a Connect on them keeps.
Kept(s, i, tab) ==
    /\ m_socketInst' \in [Sockets -> Int] /\ file' \in [Fds -> File]
    /\ ret' \in {"true", "false"}
    /\ NoLeak' /\ TalksToConfigured' /\ FreeUnowned'
    /\ \A t \in Sockets \ {s} : m_socketInst'[t] = m_socketInst[t]
    /\ \A t \in Sockets \ {s}, f \in Fds : tab[f].owner = {t} => file'[f].owner = {t}
    /\ \/ m_socketInst'[s] = i /\ file' = tab
       \/ m_socketInst'[s] \in Fds /\ file'[m_socketInst'[s]].owner = {s}

LEMMA ConnectKeeps ==
    ASSUME TypeOK, NEW s, NEW i, NEW tab, Owned(s, i, tab), Connect(s, i, tab),
           m_addr' = m_addr, live' = live
    PROVE  Kept(s, i, tab)
<1>0. /\ s \in live /\ i \in Int /\ tab \in [Fds -> File]
      /\ \A f \in Fds : tab[f].owner = {s} => i = f
      /\ \A t \in Sockets \ {s}, f \in Fds :
             tab[f].owner = {t} => t \in live /\ m_socketInst[t] = f
      /\ \A t \in Sockets, f \in Fds : tab[f].owner = {t} => tab[f].peer = m_addr[t]
      /\ \A f \in Fds : tab[f].st \in {"free", "other"} => tab[f].owner = {}
  BY DEF Owned
<1>1. CASE m_socketInst' = [m_socketInst EXCEPT ![s] = i] /\ file' = tab /\ ret' = "false"
  <2>1. /\ s \in Sockets /\ m_socketInst' \in [Sockets -> Int] /\ m_socketInst'[s] = i
        /\ \A t \in Sockets \ {s} : m_socketInst'[t] = m_socketInst[t]
    BY <1>0, <1>1 DEF TypeOK
  <2>2. NoLeak'
    BY <1>0, <1>1, <2>1 DEF NoLeak
  <2>3. TalksToConfigured' /\ FreeUnowned'
    BY <1>0, <1>1, <2>1 DEF TalksToConfigured, FreeUnowned
  <2>4. \A t \in Sockets \ {s}, f \in Fds : tab[f].owner = {t} => file'[f].owner = {t}
    BY <1>0, <1>1
  <2>5. file' \in [Fds -> File] /\ ret' \in {"true", "false"}
    BY <1>0, <1>1
  <2>6. QED
    BY <1>1, <2>1, <2>2, <2>3, <2>4, <2>5 DEF Kept
<1>2. ASSUME i = INVALID_SOCKET_FD, NEW f \in Fds, NEW st \in {"failed", "up"},
             tab[f].st = "free",
             m_socketInst' = [m_socketInst EXCEPT ![s] = f],
             file' = [tab EXCEPT ![f] = [st |-> st, owner |-> {s}, peer |-> m_addr[s]]],
             ret' = IF st = "up" THEN "true" ELSE "false"
      PROVE  Kept(s, i, tab)
  <2>1. /\ s \in Sockets /\ f \in Int /\ tab[f].owner = {}
        /\ m_addr[s] \in Addrs \cup {NoAddr}
    BY <1>0, <1>2 DEF TypeOK
  <2>2. m_socketInst' \in [Sockets -> Int] /\ m_socketInst'[s] = f
    BY <1>0, <1>2, <2>1 DEF TypeOK
  <2>3. file' \in [Fds -> File]
    BY <1>0, <1>2, <2>1 DEF File
  <2>4. /\ file'[f] = [st |-> st, owner |-> {s}, peer |-> m_addr[s]]
        /\ \A g \in Fds \ {f} : file'[g] = tab[g]
    BY <1>0, <1>2
  <2>5. \A t \in Sockets \ {s} : m_socketInst'[t] = m_socketInst[t]
    BY <1>0, <1>2 DEF TypeOK
  <2>6. \A g \in Fds : tab[g].owner # {s}
    <3>1. \A g \in Fds : g # i
      BY <1>2
    <3>2. QED
      BY <1>0, <3>1
  <2>7. NoLeak'
    <3>1. ASSUME NEW t \in Sockets, NEW g \in Fds, file'[g].owner = {t}
          PROVE  t \in live' /\ m_socketInst'[t] = g
      <4>1. CASE g = f
        <5>1. t = s
          BY <1>0, <2>4, <3>1, <4>1
        <5>2. QED
          BY <1>0, <2>2, <4>1, <5>1
      <4>2. CASE g # f
        <5>1. tab[g].owner = {t} /\ t # s
          BY <1>0, <2>4, <2>6, <3>1, <4>2
        <5>2. QED
          BY <1>0, <2>5, <5>1
      <4>3. QED
        BY <4>1, <4>2
    <3>2. QED
      BY <3>1 DEF NoLeak
  <2>8. TalksToConfigured'
    BY <1>0, <2>1, <2>4 DEF TalksToConfigured
  <2>9. FreeUnowned'
    BY <1>0, <2>4, <1>2 DEF FreeUnowned
  <2>10. \A t \in Sockets \ {s}, g \in Fds : tab[g].owner = {t} => file'[g].owner = {t}
    BY <1>0, <2>1, <2>4
  <2>11. ret' \in {"true", "false"}
    BY <1>0, <1>2
  <2>12. QED
    BY <2>2, <2>3, <2>5, <2>7, <2>8, <2>9, <2>10, <2>11, <2>4 DEF Kept
<1>3. QED
  BY <1>1, <1>2 DEF Connect

\* What Disconnect leaves of the descriptors.
LEMMA DisconnectKeeps ==
    ASSUME Inv, NEW s \in live
    PROVE  /\ FileAfter(s) \in [Fds -> File]
           /\ InstAfter(s) \in Int
           /\ \A f \in Fds : FileAfter(s)[f].owner # {s}
           /\ \A f \in Fds : \/ FileAfter(s)[f] = file[f]
                             \/ f = m_socketInst[s] /\ FileAfter(s)[f] = NoFile
           /\ RobbedAfter(s) \in SUBSET Sockets /\ robbed \subseteq RobbedAfter(s) \cup {s}
           /\ \A t \in Sockets \ {s}, f \in Fds :
                 file[f].owner = {t} /\ t \notin RobbedAfter(s) => FileAfter(s)[f].owner = {t}
<1>1. /\ s \in Sockets /\ m_socketInst[s] \in Int /\ file \in [Fds -> File]
      /\ NoLeak /\ FreeUnowned
  BY DEF Inv, TypeOK
<1>2. NoFile \in File
  BY DEF File
<1>3. FileAfter(s) \in [Fds -> File] /\ InstAfter(s) \in Int
  BY <1>1, <1>2 DEF FileAfter, InstAfter
<1>4. \A f \in Fds : \/ f # m_socketInst[s] /\ FileAfter(s)[f] = file[f]
                     \/ f = m_socketInst[s] /\ FileAfter(s)[f] = NoFile
  BY <1>1 DEF FileAfter
<1>5. \A f \in Fds : FileAfter(s)[f].owner # {s}
  BY <1>1, <1>4 DEF NoLeak
<1>6. ASSUME NEW t \in Sockets \ {s}, NEW f \in Fds, file[f].owner = {t}, t \notin RobbedAfter(s)
      PROVE  FileAfter(s)[f].owner = {t}
  <2>1. f # m_socketInst[s]
    BY <1>6 DEF RobbedAfter, Victims
  <2>2. QED
    BY <1>4, <1>6, <2>1
<1>7. RobbedAfter(s) \in SUBSET Sockets /\ robbed \subseteq RobbedAfter(s) \cup {s}
  <2>1. robbed \in SUBSET Sockets /\ \A f \in Fds : file[f].owner \subseteq Sockets
    BY DEF Inv, TypeOK, File
  <2>2. QED
    BY <2>1 DEF RobbedAfter, Victims
<1>8. QED
  BY <1>3, <1>4, <1>5, <1>6, <1>7

LEMMA StartInv ==
    ASSUME Inv, NEW s \in Sockets, Start(s)
    PROVE  Inv'
<1>0. /\ TypeOK /\ NoLeak /\ TalksToConfigured /\ HoldsOwn /\ FreeUnowned
      /\ s \in live /\ Connect(s, m_socketInst[s], file)
      /\ live' = live /\ m_addr' = m_addr /\ robbed' = robbed
      /\ assigned' = IF m_socketInst[s] = INVALID_SOCKET_FD THEN assigned \cup {s} ELSE assigned
      /\ m_socketInst[s] \in Int /\ file \in [Fds -> File]
  BY DEF Start, Inv, TypeOK
<1>1. Kept(s, m_socketInst[s], file)
  <2>1. Owned(s, m_socketInst[s], file)
    BY <1>0 DEF Owned, NoLeak, TalksToConfigured, FreeUnowned
  <2>2. QED
    BY <1>0, <2>1, ConnectKeeps
<1>2. HoldsOwn'
  <2>1. ASSUME NEW t \in assigned' \ robbed', m_socketInst'[t] >= 0
        PROVE  m_socketInst'[t] \in Fds /\ file'[m_socketInst'[t]].owner = {t}
    <3>1. CASE t = s
      BY <1>0, <1>1, <2>1, <3>1 DEF HoldsOwn, Kept
    <3>2. CASE t # s
      <4>1. t \in assigned /\ t \in Sockets \ {s} /\ m_socketInst'[t] = m_socketInst[t]
        BY <1>0, <1>1, <2>1, <3>2 DEF TypeOK, Kept
      <4>2. m_socketInst[t] \in Fds /\ file[m_socketInst[t]].owner = {t}
        BY <1>0, <2>1, <4>1 DEF HoldsOwn
      <4>3. QED
        BY <1>1, <4>1, <4>2 DEF Kept
    <3>3. QED
      BY <3>1, <3>2
  <2>2. QED
    BY <2>1 DEF HoldsOwn
<1>3. TypeOK'
  BY <1>0, <1>1 DEF TypeOK, Kept
<1>4. QED
  BY <1>1, <1>2, <1>3 DEF Inv, Kept

LEMMA ReconnectInv ==
    ASSUME Inv, NEW s \in Sockets, Reconnect(s)
    PROVE  Inv'
<1> DEFINE tab == FileAfter(s)
           i == InstAfter(s)
<1>0. /\ TypeOK /\ NoLeak /\ TalksToConfigured /\ HoldsOwn /\ FreeUnowned
      /\ s \in live /\ Connect(s, i, tab)
      /\ live' = live /\ m_addr' = m_addr /\ robbed' = RobbedAfter(s)
      /\ assigned' = IF m_socketInst[s] >= -1 THEN assigned \cup {s} ELSE assigned
      /\ m_socketInst[s] \in Int
  BY DEF Reconnect, Inv, TypeOK
<1>1. /\ tab \in [Fds -> File] /\ i \in Int
      /\ \A f \in Fds : tab[f].owner # {s}
      /\ \A f \in Fds : tab[f] = file[f] \/ tab[f] = NoFile
      /\ robbed' \in SUBSET Sockets /\ robbed \subseteq robbed' \cup {s}
      /\ \A t \in Sockets \ {s}, f \in Fds :
            file[f].owner = {t} /\ t \notin robbed' => tab[f].owner = {t}
  <2>1. /\ tab \in [Fds -> File] /\ i \in Int
        /\ \A f \in Fds : tab[f].owner # {s}
        /\ \A f \in Fds : tab[f] = file[f] \/ tab[f] = NoFile
        /\ RobbedAfter(s) \in SUBSET Sockets /\ robbed \subseteq RobbedAfter(s) \cup {s}
        /\ \A t \in Sockets \ {s}, f \in Fds :
              file[f].owner = {t} /\ t \notin RobbedAfter(s) => tab[f].owner = {t}
    <3>1. s \in live
      BY <1>0
    <3>2. /\ \A f \in Fds : \/ tab[f] = file[f]
                            \/ f = m_socketInst[s] /\ tab[f] = NoFile
          /\ \A f \in Fds : tab[f].owner # {s}
          /\ tab \in [Fds -> File] /\ i \in Int
          /\ RobbedAfter(s) \in SUBSET Sockets /\ robbed \subseteq RobbedAfter(s) \cup {s}
          /\ \A t \in Sockets \ {s}, f \in Fds :
                file[f].owner = {t} /\ t \notin RobbedAfter(s) => tab[f].owner = {t}
      BY <3>1, DisconnectKeeps
    <3>3. QED
      BY <3>2
  <2> HIDE DEF tab, i
  <2>2. QED
    BY <1>0, <2>1
<1>2. i < 0
  BY <1>0 DEF InstAfter
<1>3. Owned(s, i, tab)
  <2> HIDE DEF tab, i
  <2>1. \A t \in Sockets, f \in Fds : tab[f].owner = {t} => file[f] = tab[f]
    <3>1. SUFFICES ASSUME NEW t \in Sockets, NEW f \in Fds, tab[f].owner = {t}
                   PROVE  file[f] = tab[f]
      OBVIOUS
    <3>2. NoFile.owner # {t}
      BY DEF NoFile
    <3>3. tab[f] # NoFile
      BY <3>1, <3>2
    <3>4. QED
      BY <1>1, <3>3
  <2>2. \A t \in Sockets \ {s}, f \in Fds :
            tab[f].owner = {t} => t \in live /\ m_socketInst[t] = f
    BY <1>0, <2>1 DEF NoLeak
  <2>3. \A t \in Sockets, f \in Fds : tab[f].owner = {t} => tab[f].peer = m_addr[t]
    BY <1>0, <2>1 DEF TalksToConfigured
  <2>4. \A f \in Fds : tab[f].st \in {"free", "other"} => tab[f].owner = {}
    BY <1>0, <1>1 DEF FreeUnowned
  <2>5. QED
    BY <1>0, <1>1, <2>2, <2>3, <2>4 DEF Owned
<1>4. Kept(s, i, tab)
  BY <1>0, <1>3, ConnectKeeps
<1>5. HoldsOwn'
  <2> HIDE DEF tab, i
  <2>1. ASSUME NEW t \in assigned' \ robbed', m_socketInst'[t] >= 0
        PROVE  m_socketInst'[t] \in Fds /\ file'[m_socketInst'[t]].owner = {t}
    <3>1. CASE t = s
      BY <1>2, <1>4, <2>1, <3>1 DEF Kept
    <3>2. CASE t # s
      <4>1. t \in assigned /\ t \in Sockets \ {s} /\ m_socketInst'[t] = m_socketInst[t]
        BY <1>0, <1>4, <2>1, <3>2 DEF TypeOK, Kept
      <4>2. t \notin robbed' /\ t \notin robbed
        BY <1>1, <2>1, <4>1
      <4>3. m_socketInst[t] \in Fds /\ file[m_socketInst[t]].owner = {t}
        BY <1>0, <2>1, <4>1, <4>2 DEF HoldsOwn
      <4>4. tab[m_socketInst[t]].owner = {t}
        BY <1>1, <4>1, <4>2, <4>3
      <4>5. QED
        BY <1>4, <4>1, <4>3, <4>4 DEF Kept
    <3>3. QED
      BY <3>1, <3>2
  <2>2. QED
    BY <2>1 DEF HoldsOwn
<1>6. TypeOK'
  <2> HIDE DEF tab, i
  <2> QED
    BY <1>0, <1>1, <1>4 DEF TypeOK, Kept
<1>7. QED
  BY <1>4, <1>5, <1>6 DEF Inv, Kept

LEMMA DeleteSocketInv ==
    ASSUME Inv, NEW s \in Sockets, DeleteSocket(s)
    PROVE  Inv'
<1>0. /\ TypeOK /\ NoLeak /\ TalksToConfigured /\ HoldsOwn /\ FreeUnowned
      /\ s \in live /\ live' = live \ {s} /\ file' = FileAfter(s) /\ robbed' = RobbedAfter(s)
      /\ assigned' = assigned \ {s} /\ ret' = "none"
      /\ m_socketInst' = [m_socketInst EXCEPT ![s] = -1]
      /\ m_addr' = [m_addr EXCEPT ![s] = NoAddr]
  BY DEF DeleteSocket, Inv
<1>1. /\ file' \in [Fds -> File]
      /\ \A f \in Fds : file'[f].owner # {s}
      /\ \A f \in Fds : file'[f] = file[f] \/ file'[f] = NoFile
      /\ robbed' \in SUBSET Sockets /\ robbed \subseteq robbed' \cup {s}
      /\ \A t \in Sockets \ {s}, f \in Fds :
            file[f].owner = {t} /\ t \notin robbed' => file'[f].owner = {t}
  <2>1. /\ FileAfter(s) \in [Fds -> File]
        /\ \A f \in Fds : FileAfter(s)[f].owner # {s}
        /\ \A f \in Fds : FileAfter(s)[f] = file[f] \/ FileAfter(s)[f] = NoFile
        /\ RobbedAfter(s) \in SUBSET Sockets /\ robbed \subseteq RobbedAfter(s) \cup {s}
        /\ \A t \in Sockets \ {s}, f \in Fds :
              file[f].owner = {t} /\ t \notin RobbedAfter(s) => FileAfter(s)[f].owner = {t}
    <3>1. s \in live
      BY <1>0
    <3>2. /\ \A f \in Fds : \/ FileAfter(s)[f] = file[f]
                            \/ f = m_socketInst[s] /\ FileAfter(s)[f] = NoFile
          /\ \A f \in Fds : FileAfter(s)[f].owner # {s}
          /\ FileAfter(s) \in [Fds -> File] /\ InstAfter(s) \in Int
          /\ RobbedAfter(s) \in SUBSET Sockets /\ robbed \subseteq RobbedAfter(s) \cup {s}
          /\ \A t \in Sockets \ {s}, f \in Fds :
                file[f].owner = {t} /\ t \notin RobbedAfter(s) => FileAfter(s)[f].owner = {t}
      BY <3>1, DisconnectKeeps
    <3>3. QED
      BY <3>2
  <2>2. QED
    BY <1>0, <2>1
<1>2. \A t \in Sockets \ {s} : m_socketInst'[t] = m_socketInst[t] /\ m_addr'[t] = m_addr[t]
  BY <1>0 DEF TypeOK
<1>3. TypeOK'
  BY <1>0, <1>1 DEF TypeOK
<1>4. \A t \in Sockets, f \in Fds : file'[f].owner = {t} => t # s /\ file[f] = file'[f]
  BY <1>1
<1>5. NoLeak'
  BY <1>0, <1>2, <1>4 DEF NoLeak
<1>6. TalksToConfigured'
  BY <1>0, <1>2, <1>4 DEF TalksToConfigured
<1>7. HoldsOwn'
  <2>1. ASSUME NEW t \in assigned' \ robbed', m_socketInst'[t] >= 0
        PROVE  m_socketInst'[t] \in Fds /\ file'[m_socketInst'[t]].owner = {t}
    <3>1. t \in assigned /\ t \in Sockets \ {s} /\ m_socketInst'[t] = m_socketInst[t]
      BY <1>0, <1>2, <2>1 DEF TypeOK
    <3>2. m_socketInst[t] \in Fds /\ file[m_socketInst[t]].owner = {t}
      BY <1>0, <1>1, <2>1, <3>1 DEF HoldsOwn
    <3>3. QED
      BY <1>1, <2>1, <3>1, <3>2
  <2>2. QED
    BY <2>1 DEF HoldsOwn
<1>8. FreeUnowned'
  BY <1>0, <1>1 DEF FreeUnowned
<1>9. QED
  BY <1>3, <1>5, <1>6, <1>7, <1>8 DEF Inv

\* Config is refused to a socket that has a descriptor.
LEMMA ConfigInv ==
    ASSUME Inv, NEW s \in Sockets, Config(s)
    PROVE  Inv'
<1>0. /\ TypeOK /\ NoLeak /\ TalksToConfigured /\ HoldsOwn /\ FreeUnowned
      /\ live' = live /\ m_socketInst' = m_socketInst /\ file' = file /\ robbed' = robbed
      /\ assigned' = assigned /\ ret' \in {"true", "false"}
  BY DEF Config, Inv
<1>1. /\ m_addr' \in [Sockets -> Addrs \cup {NoAddr}]
      /\ \A t \in Sockets : m_addr'[t] = m_addr[t] \/ (t = s /\ m_socketInst[s] < 0)
  BY <1>0 DEF Config, TypeOK
<1>2. TypeOK' /\ NoLeak' /\ HoldsOwn' /\ FreeUnowned'
  BY <1>0, <1>1 DEF TypeOK, NoLeak, HoldsOwn, FreeUnowned
<1>3. \A t \in Sockets, f \in Fds : file[f].owner = {t} => m_addr'[t] = m_addr[t]
  BY <1>0, <1>1 DEF NoLeak
<1>4. TalksToConfigured'
  BY <1>0, <1>3 DEF TalksToConfigured
<1>5. QED
  BY <1>0, <1>2, <1>4 DEF Inv

LEMMA SendInv ==
    ASSUME Inv, NEW s \in Sockets, Send(s)
    PROVE  Inv'
<1>1. /\ live' = live /\ m_socketInst' = m_socketInst /\ m_addr' = m_addr /\ file' = file
      /\ assigned' = assigned /\ robbed' = robbed /\ ret' \in {"true", "false", "killed"}
  BY DEF Send
<1>2. QED
  BY <1>1 DEF Inv, TypeOK, NoLeak, TalksToConfigured, HoldsOwn, FreeUnowned

\* The peer and the rest of the program touch no descriptor's owner.
LEMMA EnvironmentInv ==
    ASSUME Inv, PeerCloses \/ OthersOpen
    PROVE  Inv'
<1>0. /\ TypeOK /\ NoLeak /\ TalksToConfigured /\ HoldsOwn /\ FreeUnowned
      /\ live' = live /\ m_socketInst' = m_socketInst /\ m_addr' = m_addr
      /\ assigned' = assigned /\ robbed' = robbed /\ ret' = ret
  BY DEF PeerCloses, OthersOpen, Inv
<1>1. PICK f \in Fds : /\ file'[f].st \in {"free", "other"} => file'[f].owner = {}
                       /\ file'[f].owner = {} \/ (/\ file'[f].owner = file[f].owner
                                                  /\ file'[f].peer = file[f].peer)
                       /\ file' \in [Fds -> File]
                       /\ \A g \in Fds \ {f} : file'[g] = file[g]
                       /\ file[f].st \in {"free", "other"} \/ file'[f].owner = file[f].owner
  <2>1. CASE PeerCloses
    <3>1. PICK f \in Fds : file[f].st = "up" /\ file' = [file EXCEPT ![f].st = "broken"]
      BY <2>1 DEF PeerCloses
    <3>2. file \in [Fds -> File] /\ file[f] \in File
      BY <1>0 DEF TypeOK
    <3>3. file'[f] = [file[f] EXCEPT !.st = "broken"] /\ \A g \in Fds \ {f} : file'[g] = file[g]
      BY <3>1, <3>2
    <3>4. /\ file'[f].st = "broken" /\ file'[f].owner = file[f].owner
          /\ file'[f].peer = file[f].peer /\ file'[f] \in File
      BY <3>2, <3>3 DEF File
    <3>5. file' \in [Fds -> File]
      BY <3>1, <3>2, <3>3, <3>4
    <3>6. QED
      BY <3>3, <3>4, <3>5
  <2>2. CASE OthersOpen
    <3>1. PICK f \in Fds, n \in {NoFile, OtherFile} :
              file[f].st \in {"free", "other"} /\ file' = [file EXCEPT ![f] = n]
      BY <2>2 DEF OthersOpen
    <3>2. file \in [Fds -> File] /\ n \in File /\ n.owner = {}
      BY <1>0 DEF TypeOK, File
    <3>3. file'[f] = n /\ file' \in [Fds -> File] /\ \A g \in Fds \ {f} : file'[g] = file[g]
      BY <3>1, <3>2
    <3>4. QED
      BY <3>1, <3>2, <3>3
  <2>3. QED
    BY <2>1, <2>2
<1>2. TypeOK'
  BY <1>0, <1>1 DEF TypeOK
<1>3. \A t \in Sockets, g \in Fds : file'[g].owner = {t} => /\ file[g].owner = {t}
                                                           /\ file'[g].peer = file[g].peer
  BY <1>1
<1>4. NoLeak' /\ TalksToConfigured'
  BY <1>0, <1>3 DEF NoLeak, TalksToConfigured
<1>5. \A t \in Sockets, g \in Fds : file[g].owner = {t} => file'[g].owner = {t}
  BY <1>0, <1>1 DEF FreeUnowned
<1>6. HoldsOwn'
  BY <1>0, <1>5 DEF HoldsOwn, TypeOK
<1>7. FreeUnowned'
  BY <1>0, <1>1 DEF FreeUnowned
<1>8. QED
  BY <1>2, <1>4, <1>6, <1>7 DEF Inv

LEMMA NextInv == Inv /\ [Next]_vars => Inv'
<1> SUFFICES ASSUME Inv, [Next]_vars PROVE Inv'
  OBVIOUS
<1>1. ASSUME NEW s \in Sockets, NewSocket(s) PROVE Inv'
  BY <1>1, NewSocketInv
<1>2. ASSUME NEW s \in Sockets, Start(s) PROVE Inv'
  BY <1>2, StartInv
<1>3. ASSUME NEW s \in Sockets, Reconnect(s) PROVE Inv'
  BY <1>3, ReconnectInv
<1>4. ASSUME NEW s \in Sockets, DeleteSocket(s) PROVE Inv'
  BY <1>4, DeleteSocketInv
<1>5. ASSUME NEW s \in Sockets, Config(s) PROVE Inv'
  BY <1>5, ConfigInv
<1>6. ASSUME NEW s \in Sockets, Send(s) PROVE Inv'
  BY <1>6, SendInv
<1>7. CASE PeerCloses \/ OthersOpen
  BY <1>7, EnvironmentInv
<1>8. CASE UNCHANGED vars
  BY <1>8 DEF vars, Inv, TypeOK, NoLeak, TalksToConfigured, HoldsOwn, FreeUnowned
<1>9. QED
  BY <1>1, <1>2, <1>3, <1>4, <1>5, <1>6, <1>7, <1>8 DEF Next

LEMMA Invariant == Spec => []Inv
BY InitInv, NextInv, PTL DEF Spec

\* Type correctness of the socket objects and the descriptors (socket.cpp).
THEOREM TypeCorrect == Spec => []TypeOK
BY Invariant, PTL DEF Inv

\* What a socket opens it keeps in m_socketInst until it closes it
\* (socket.cpp:36-56), whatever the constructors left there.
THEOREM NothingLeaks == Spec => []NoLeak
BY Invariant, PTL DEF Inv

\* Config never changes the address under a descriptor (socket.cpp:19-24).
THEOREM AddressStays == Spec => []TalksToConfigured
BY Invariant, PTL DEF Inv

\* A handle that a call has set is negative or names a descriptor of the object's
\* own, as long as no other object has closed that descriptor (socket.cpp:36-56).
THEOREM HandlesOwn == Spec => []HoldsOwn
BY Invariant, PTL DEF Inv
=============================================================================
