------------------------------- MODULE IOLoop -------------------------------
(***************************************************************************)
(* The life cycle of IOLoop (src/utils/net/win/ioloop.cpp): a singleton    *)
(* that opens an I/O completion port, starts MAX_THREAD_COUNT worker       *)
(* threads on it, and is released by posting one END_THREAD packet per     *)
(* live worker and polling m_threadLivedCount until it reads zero.         *)
(*                                                                         *)
(* The owner is the one thread that calls Instanse, Init and Release, in   *)
(* that order, as test/utils/net/socket_test.cpp does.  What a worker does *)
(* with an I/O completion is the subject of SocketIO; here it is "busy".   *)
(***************************************************************************)
EXTENDS Integers, Sequences, FiniteSets

CONSTANTS
    Workers,           \* identities of worker threads
    MAX_THREAD_COUNT,  \* workers started by one Init (ioloop.h:22)
    Generations,       \* bound: IOLoop objects constructed in one behaviour
    MaxQueued,         \* bound: packets in a port when the kernel adds an I/O one
    WaitFaults         \* owner stages in which the kernel may fail a wait on
                       \* an open port (the branch at ioloop.cpp:94-108)

ASSUME IOLoopAssumption ==
    /\ IsFiniteSet(Workers)
    /\ MAX_THREAD_COUNT \in Nat \ {0}
    /\ Generations \in Nat \ {0}
    /\ MaxQueued \in Nat

VARIABLES
    m_io,                \* the static IOLoop::m_io: an object, or NoLoop
    created,             \* how many IOLoop objects were constructed
    freed,               \* the objects that were deleted
    m_threadLivedCount,  \* per object
    port,                \* per object: its completion port
    queue,               \* per object: the packets of its port, oldest first
    owner,               \* where the owner thread is
    started,             \* Init: the loop variable i
    tmp,                 \* Init: the value read by ++m_threadLivedCount
    toPost,              \* Release: END_THREAD packets still to be posted
    pc,                  \* where each worker is
    myPort,              \* per worker: the loop whose port it was started with
    io                   \* per worker: its local `io` after Instanse()

ownerVars == <<owner, started, tmp, toPost>>
loopVars == <<m_io, created, freed, port>>
workerVars == <<pc, myPort, io>>
vars == <<m_io, created, freed, m_threadLivedCount, port, queue,
          owner, started, tmp, toPost, pc, myPort, io>>

NoLoop == 0
Loops == 1 .. Generations
Packet == {"IO", "END_THREAD"}
OwnerStage == {"idle", "made", "creating", "incRead", "incWrite", "serving",
               "posting", "polling", "deleted"}
WorkerStage == {"none", "wait", "busy", "closing", "check", "dec", "log"}

\* A worker that has not yet given back its share of m_threadLivedCount.  One in
\* "log" has, but is still in OnThreadClose and reads the counter again.
Active == {"wait", "busy", "closing", "check", "dec"}
ActiveWorkers == {w \in Workers : pc[w] \in Active}

TypeOK ==
    /\ m_io \in Loops \cup {NoLoop}
    /\ created \in 0 .. Generations
    /\ freed \in SUBSET Loops
    /\ m_threadLivedCount \in [Loops -> Int]
    /\ port \in [Loops -> {"null", "open", "closed"}]
    /\ queue \in [Loops -> Seq(Packet)]
    /\ owner \in OwnerStage
    /\ started \in 0 .. MAX_THREAD_COUNT
    /\ tmp \in Int
    /\ toPost \in Int
    /\ pc \in [Workers -> WorkerStage]
    /\ myPort \in [Workers -> Loops \cup {NoLoop}]
    /\ io \in [Workers -> Loops \cup {NoLoop}]

Init ==
    /\ m_io = NoLoop
    /\ created = 0
    /\ freed = {}
    /\ m_threadLivedCount = [g \in Loops |-> 0]
    /\ port = [g \in Loops |-> "null"]
    /\ queue = [g \in Loops |-> <<>>]
    /\ owner = "idle"
    /\ started = 0
    /\ tmp = 0
    /\ toPost = 0
    /\ pc = [w \in Workers |-> "none"]
    /\ myPort = [w \in Workers |-> NoLoop]
    /\ io = [w \in Workers |-> NoLoop]

Goto(w, stage) == pc' = [pc EXCEPT ![w] = stage]

\* Instanse(): hand out m_io, constructing it if there is none.
Instanse ==
    IF m_io # NoLoop
    THEN UNCHANGED <<m_io, created>>
    ELSE /\ created < Generations
         /\ created' = created + 1
         /\ m_io' = created + 1

-----------------------------------------------------------------------------
(***************************************************************************)
(* The owner.                                                              *)
(***************************************************************************)
MakeLoop ==
    /\ owner = "idle"
    /\ Instanse
    /\ owner' = "made"
    /\ UNCHANGED <<freed, m_threadLivedCount, port, queue, started, tmp, toPost, workerVars>>

\* Init() up to the thread loop; if the port cannot be created it returns false.
InitPort ==
    /\ owner = "made"
    /\ m_threadLivedCount' = [m_threadLivedCount EXCEPT ![m_io] = 0]
    /\ started' = 0
    /\ \/ /\ port' = [port EXCEPT ![m_io] = "open"]
          /\ owner' = "creating"
       \/ /\ owner' = "serving"
          /\ UNCHANGED port
    /\ UNCHANGED <<m_io, created, freed, queue, tmp, toPost, workerVars>>

\* Plausible bug: `i <= MAX_THREAD_COUNT` in Init's loop.
InitCreateThreadExtra ==
    /\ owner = "creating"
    /\ started <= MAX_THREAD_COUNT
    /\ \E w \in Workers :
        /\ pc[w] = "none"
        /\ Goto(w, "wait")
        /\ myPort' = [myPort EXCEPT ![w] = m_io]
    /\ owner' = "incRead"
    /\ UNCHANGED <<loopVars, m_threadLivedCount, queue, started, tmp, toPost, io>>

\* One CreateThread of Init(), which may fail and end Init with false.
InitCreateThread ==
    /\ owner = "creating"
    /\ started < MAX_THREAD_COUNT
    /\ \/ \E w \in Workers :
            /\ pc[w] = "none"
            /\ Goto(w, "wait")
            /\ myPort' = [myPort EXCEPT ![w] = m_io]
            /\ owner' = "incRead"
       \/ /\ owner' = "serving"
          /\ UNCHANGED <<pc, myPort>>
    /\ UNCHANGED <<loopVars, m_threadLivedCount, queue, started, tmp, toPost, io>>

\* ++m_threadLivedCount is a plain read, then a plain write.
InitIncRead ==
    /\ owner = "incRead"
    /\ tmp' = m_threadLivedCount[m_io]
    /\ owner' = "incWrite"
    /\ UNCHANGED <<loopVars, m_threadLivedCount, queue, started, toPost, workerVars>>

\* Plausible bug: the count is never taken.
InitIncWriteForgets ==
    /\ owner = "incWrite"
    /\ started' = started + 1
    /\ owner' = "creating"
    /\ UNCHANGED <<loopVars, m_threadLivedCount, queue, tmp, toPost, workerVars>>

InitIncWrite ==
    /\ owner = "incWrite"
    /\ m_threadLivedCount' = [m_threadLivedCount EXCEPT ![m_io] = tmp + 1]
    /\ started' = started + 1
    /\ owner' = "creating"
    /\ UNCHANGED <<loopVars, queue, tmp, toPost, workerVars>>

InitDone ==
    /\ owner = "creating"
    /\ started = MAX_THREAD_COUNT
    /\ owner' = "serving"
    /\ UNCHANGED <<loopVars, m_threadLivedCount, queue, started, tmp, toPost, workerVars>>

\* Plausible bug: one packet too few, as with `i < livedThreadCount - 1`.
ReleaseBeginShort ==
    /\ owner = "serving"
    /\ toPost' = m_threadLivedCount[m_io] - 1
    /\ owner' = "posting"
    /\ UNCHANGED <<loopVars, m_threadLivedCount, queue, started, tmp, workerVars>>

\* Release() reads the number of workers once.
ReleaseBegin ==
    /\ owner = "serving"
    /\ toPost' = m_threadLivedCount[m_io]
    /\ owner' = "posting"
    /\ UNCHANGED <<loopVars, m_threadLivedCount, queue, started, tmp, workerVars>>

ReleasePost ==
    /\ owner = "posting"
    /\ toPost > 0
    /\ toPost' = toPost - 1
    /\ queue' = [queue EXCEPT ![m_io] = Append(@, "END_THREAD")]
    /\ UNCHANGED <<loopVars, m_threadLivedCount, owner, started, tmp, workerVars>>

ReleasePosted ==
    /\ owner = "posting"
    /\ toPost <= 0
    /\ owner' = "polling"
    /\ UNCHANGED <<loopVars, m_threadLivedCount, queue, started, tmp, toPost, workerVars>>

\* Plausible bugs: not waiting at all, or waiting until one worker is left.
PollNever == TRUE
PollOne == m_threadLivedCount[m_io] <= 1

\* `while (GetThreadLivedCount()) Sleep(10)` has read zero...
PollDone == m_threadLivedCount[m_io] = 0

\* ... so delete m_io, with the destructor that closes the port...
ReleaseDelete ==
    /\ owner = "polling"
    /\ PollDone
    /\ freed' = freed \cup {m_io}
    /\ port' = [port EXCEPT ![m_io] = IF @ = "open" THEN "closed" ELSE @]
    /\ owner' = "deleted"
    /\ UNCHANGED <<m_io, created, m_threadLivedCount, queue, started, tmp, toPost, workerVars>>

\* ... and only then m_io = NULL.
ReleaseClear ==
    /\ owner = "deleted"
    /\ m_io' = NoLoop
    /\ owner' = "idle"
    /\ UNCHANGED <<created, freed, port, m_threadLivedCount, queue, started, tmp,
                   toPost, workerVars>>

-----------------------------------------------------------------------------
(***************************************************************************)
(* The workers (ServerWorkThread) and, at its end, OnThreadClose.          *)
(***************************************************************************)
\* GetQueuedCompletionStatus hands one packet, the oldest, to one waiter.
Take(w, kind) ==
    /\ pc[w] = "wait"
    /\ port[myPort[w]] = "open"
    /\ queue[myPort[w]] # <<>>
    /\ Head(queue[myPort[w]]) = kind
    /\ queue' = [queue EXCEPT ![myPort[w]] = Tail(@)]
    /\ UNCHANGED <<loopVars, m_threadLivedCount, ownerVars, myPort, io>>

TakeIo(w) == Take(w, "IO") /\ Goto(w, "busy")
TakeEnd(w) == Take(w, "END_THREAD") /\ Goto(w, "closing")

\* GetQueuedCompletionStatus fails without a packet: the worker leaves.
WaitFails(w) ==
    /\ pc[w] = "wait"
    /\ port[myPort[w]] # "open" \/ owner \in WaitFaults
    /\ Goto(w, "closing")
    /\ UNCHANGED <<loopVars, m_threadLivedCount, queue, ownerVars, myPort, io>>

FinishIo(w) ==
    /\ pc[w] = "busy"
    /\ Goto(w, "wait")
    /\ UNCHANGED <<loopVars, m_threadLivedCount, queue, ownerVars, myPort, io>>

\* Plausible bug: a leaving worker makes itself a loop of its own.
CloseInstanseNew(w) ==
    /\ pc[w] = "closing"
    /\ created < Generations
    /\ created' = created + 1
    /\ m_io' = created + 1
    /\ io' = [io EXCEPT ![w] = m_io']
    /\ Goto(w, "check")
    /\ UNCHANGED <<freed, port, m_threadLivedCount, queue, ownerVars, myPort>>

\* The leaving worker asks the singleton for its loop.
CloseInstanse(w) ==
    /\ pc[w] = "closing"
    /\ Instanse
    /\ io' = [io EXCEPT ![w] = m_io']
    /\ Goto(w, "check")
    /\ UNCHANGED <<freed, port, m_threadLivedCount, queue, ownerVars, myPort>>

\* OnThreadClose: test the counter...
CloseCheck(w) ==
    /\ pc[w] = "check"
    /\ Goto(w, IF m_threadLivedCount[io[w]] > 0 THEN "dec" ELSE "log")
    /\ UNCHANGED <<loopVars, m_threadLivedCount, queue, ownerVars, myPort, io>>

\* ... decrement it atomically...
CloseDec(w) ==
    /\ pc[w] = "dec"
    /\ m_threadLivedCount' = [m_threadLivedCount EXCEPT ![io[w]] = @ - 1]
    /\ Goto(w, "log")
    /\ UNCHANGED <<loopVars, queue, ownerVars, myPort, io>>

\* ... and read it once more, for the log line; then the thread is gone.
CloseLog(w) ==
    /\ pc[w] = "log"
    /\ Goto(w, "none")
    /\ UNCHANGED <<loopVars, m_threadLivedCount, queue, ownerVars, myPort, io>>

\* The kernel queues the completion of some socket operation.
CompleteIo(g) ==
    /\ port[g] = "open"
    /\ Len(queue[g]) < MaxQueued
    /\ queue' = [queue EXCEPT ![g] = Append(@, "IO")]
    /\ UNCHANGED <<loopVars, m_threadLivedCount, ownerVars, workerVars>>

-----------------------------------------------------------------------------
OwnerInit == InitPort \/ InitCreateThread \/ InitIncRead \/ InitIncWrite \/ InitDone
OwnerRelease == ReleasePost \/ ReleasePosted \/ ReleaseDelete \/ ReleaseClear
WorkerStep(w) ==
    \/ TakeIo(w) \/ TakeEnd(w) \/ FinishIo(w)
    \/ CloseInstanse(w) \/ CloseCheck(w) \/ CloseDec(w) \/ CloseLog(w)

Next ==
    \/ MakeLoop \/ OwnerInit \/ ReleaseBegin \/ OwnerRelease
    \/ \E w \in Workers : WorkerStep(w) \/ WaitFails(w)
    \/ \E g \in Loops : CompleteIo(g)

Spec == Init /\ [][Next]_vars

(***************************************************************************)
(* Once in Init or Release the owner keeps running, and so does every      *)
(* worker: they are operating-system threads, and what they call returns.  *)
(* Nothing makes the owner start anything, or the kernel fail or complete. *)
(***************************************************************************)
FairSpec ==
    /\ Spec
    /\ WF_vars(OwnerInit) /\ WF_vars(OwnerRelease)
    /\ \A w \in Workers : WF_vars(WorkerStep(w))

-----------------------------------------------------------------------------
(***************************************************************************)
(* Properties.                                                             *)
(***************************************************************************)
\* How far Release is a join (ioloop.cpp:73-77): when the loop is deleted and
\* after, a worker is gone or has only the read of ioloop.cpp:32 left, the one
\* for the log line.  Nobody takes a completion or asks for the singleton any
\* more; that one read of the deleted loop's counter can still happen.
ReleaseJoins ==
    owner \in {"deleted", "idle"} => \A w \in Workers : pc[w] \in {"none", "log"}

\* A leaving worker finds the loop it served: its call of Instanse() at
\* ioloop.cpp:191 never constructs a second IOLoop nor gets a deleted one.
LeavesOwnLoop ==
    \A w \in Workers : pc[w] \in {"closing", "check", "dec"} =>
        m_io = myPort[w] /\ m_io \notin freed

\* The counter never reads less than the number of workers that still have to
\* decrement it, whatever the unlocked ++ of Init and the workers that leave at
\* the same time do to it: reading zero is proof that all of them have.
CountCovers ==
    owner \in {"creating", "serving", "posting", "polling"} =>
        m_threadLivedCount[m_io] >= Cardinality(ActiveWorkers)

\* Release returns (ioloop.cpp:62-79) whenever it starts from a counter that
\* is right: every END_THREAD it posts ends one worker, so the count it polls
\* does reach zero, however workers leave by themselves meanwhile.
ReleaseReturns ==
    owner = "posting" /\ m_threadLivedCount[m_io] = Cardinality(ActiveWorkers)
        ~> owner = "idle"

\* The abstract pool that IOLoop implements: its phase, as the owner sees it...
PoolPhase ==
    CASE owner \in {"idle", "made"} -> "none"
      [] owner \in {"creating", "incRead", "incWrite"} -> "opening"
      [] owner = "serving" -> "open"
      [] owner \in {"posting", "polling", "deleted"} -> "closing"

Pool == INSTANCE WorkerPool WITH running <- ActiveWorkers, phase <- PoolPhase

\* ... and the whole of its behaviour: workers come only while it opens, and it
\* is gone only after the last one gave back its count (ioloop.cpp:37-79).
PoolSpec == Pool!Spec
=============================================================================
