----------------------------- MODULE WorkerPool -----------------------------
(***************************************************************************)
(* What IOLoop promises its owner: a pool that is opened, gains workers    *)
(* while it is being opened, loses them one by one for whatever reason,    *)
(* and is torn down only when none is left.  The tear-down is a join: it   *)
(* is the guarantee behind IOLoop::Release (ioloop.cpp:62-79), which code  *)
(* such as the test's TearDown relies on before it frees its own sockets.  *)
(* A worker runs in the pool until it gives back its count: what it does   *)
(* after that, a log line, is not part of the promise.                     *)
(***************************************************************************)
CONSTANT Workers

VARIABLES phase, running

vars == <<phase, running>>

Phase == {"none", "opening", "open", "closing"}

TypeOK ==
    /\ phase \in Phase
    /\ running \in SUBSET Workers

Init ==
    /\ phase = "none"
    /\ running = {}

\* Opening may also fail before the first worker: the pool is then open, and empty.
Open ==
    /\ phase = "none"
    /\ phase' \in {"opening", "open"}
    /\ UNCHANGED running

Spawn(w) ==
    /\ phase = "opening"
    /\ w \notin running
    /\ running' = running \cup {w}
    /\ UNCHANGED phase

Opened ==
    /\ phase = "opening"
    /\ phase' = "open"
    /\ UNCHANGED running

\* A worker may leave at any time, told to or not.
Leave(w) ==
    /\ w \in running
    /\ running' = running \ {w}
    /\ UNCHANGED phase

Shutdown ==
    /\ phase = "open"
    /\ phase' = "closing"
    /\ UNCHANGED running

\* The join: the pool disappears only when nobody runs in it any more.
Join ==
    /\ phase = "closing"
    /\ running = {}
    /\ phase' = "none"
    /\ UNCHANGED running

Next ==
    \/ Open \/ Opened \/ Shutdown \/ Join
    \/ \E w \in Workers : Spawn(w) \/ Leave(w)

Spec == Init /\ [][Next]_vars
=============================================================================
