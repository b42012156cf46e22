---------------------------- MODULE IOLoopProofs ----------------------------
(***************************************************************************)
(* Proofs about IOLoop, for any set of workers, any MAX_THREAD_COUNT, any  *)
(* number of IOLoop objects and any failures of the kernel.                *)
(*                                                                         *)
(* The argument: a worker that has not yet given back its share of the     *)
(* counter always serves the current loop (WorkersServe); the counter, or  *)
(* the value that Init is about to write over it, covers those workers     *)
(* (Covered); so when Release reads zero none has a share left             *)
(* (NobodyLeft).                                                           *)
(***************************************************************************)
EXTENDS IOLoop, FiniteSetTheorems, TLAPS

USE IOLoopAssumption

(***************************************************************************)
(* The inductive invariant.                                                *)
(***************************************************************************)
\* There is a loop exactly while the owner is using one.
LoopExists == owner = "idle" <=> m_io = NoLoop

\* Objects are numbered in the order of construction; only the current one
\* can be freed and still be in m_io, between `delete m_io` and `m_io = NULL`.
Numbered ==
    /\ m_io <= created
    /\ \A g \in freed : g <= created
    /\ m_io \in freed => owner = "deleted"

WorkersServe ==
    \A w \in Workers : pc[w] \in Active =>
        /\ myPort[w] = m_io
        /\ pc[w] \in {"check", "dec"} => io[w] = m_io

NobodyLeft == owner \in {"idle", "made", "deleted"} => ActiveWorkers = {}

Covered ==
    /\ owner \in {"creating", "serving", "posting", "polling"} =>
           m_threadLivedCount[m_io] >= Cardinality(ActiveWorkers)
    /\ owner = "incRead" => m_threadLivedCount[m_io] + 1 >= Cardinality(ActiveWorkers)
    /\ owner = "incWrite" => tmp + 1 >= Cardinality(ActiveWorkers)

\* Inside the loop of Init, i is still below its bound.
Starting == owner \in {"incRead", "incWrite"} => started < MAX_THREAD_COUNT

IInv ==
    /\ TypeOK /\ LoopExists /\ Numbered /\ Starting
    /\ WorkersServe /\ NobodyLeft /\ Covered

-----------------------------------------------------------------------------
(***************************************************************************)
(* How the set of active workers moves with pc.                            *)
(***************************************************************************)
LEMMA ActiveFinite ==
    /\ IsFiniteSet(ActiveWorkers)
    /\ Cardinality(ActiveWorkers) \in Nat
<1>1. ActiveWorkers \subseteq Workers
  BY DEF ActiveWorkers
<1> QED
  BY <1>1, FS_Subset, FS_CardinalityType DEF IOLoopAssumption

\* A worker that moves from one active stage to another stays active.
LEMMA StaysActive ==
    ASSUME TypeOK, NEW w \in Workers, pc[w] \in Active,
           NEW stage \in Active, Goto(w, stage)
    PROVE  ActiveWorkers' = ActiveWorkers
BY DEF TypeOK, Goto, ActiveWorkers, Active

\* A worker that leaves makes the set one smaller.
LEMMA Leaves ==
    ASSUME TypeOK, NEW w \in Workers, pc[w] \in Active, Goto(w, "log")
    PROVE  /\ ActiveWorkers' = ActiveWorkers \ {w}
           /\ Cardinality(ActiveWorkers') = Cardinality(ActiveWorkers) - 1
<1>1. ActiveWorkers' = ActiveWorkers \ {w}
  BY DEF TypeOK, Goto, ActiveWorkers, Active
<1>2. w \in ActiveWorkers
  BY DEF ActiveWorkers
<1> QED
  BY <1>1, <1>2, ActiveFinite, FS_RemoveElement

\* A new thread makes it one larger.
LEMMA Arrives ==
    ASSUME TypeOK, NEW w \in Workers, pc[w] = "none", Goto(w, "wait")
    PROVE  /\ ActiveWorkers' = ActiveWorkers \cup {w}
           /\ Cardinality(ActiveWorkers') = Cardinality(ActiveWorkers) + 1
<1>1. ActiveWorkers' = ActiveWorkers \cup {w}
  BY DEF TypeOK, Goto, ActiveWorkers, Active
<1>2. w \notin ActiveWorkers
  BY DEF ActiveWorkers, Active
<1> QED
  BY <1>1, <1>2, ActiveFinite, FS_AddElement

-----------------------------------------------------------------------------
LEMMA IInvInit == Init => IInv
<1> SUFFICES ASSUME Init PROVE IInv
  OBVIOUS
<1>1. TypeOK
  BY DEF Init, TypeOK, IOLoopAssumption, OwnerStage, WorkerStage, NoLoop, Loops, Packet
<1>2. ActiveWorkers = {}
  BY DEF Init, ActiveWorkers, Active
<1> QED
  BY <1>1, <1>2 DEF Init, IInv, Starting, LoopExists, Numbered, WorkersServe, NobodyLeft, Covered,
                    Active, NoLoop

LEMMA IInvNext == IInv /\ [Next]_vars => IInv'
<1> SUFFICES ASSUME IInv, [Next]_vars PROVE IInv'
  OBVIOUS
<1> USE DEF IInv, Starting
<1>0. /\ owner # "idle" => m_io \in Loops
      /\ \A w \in Workers : pc[w] \in Active => myPort[w] = m_io /\ m_io \in Loops
  BY DEF TypeOK, LoopExists, WorkersServe, NobodyLeft, ActiveWorkers
<1>1. CASE MakeLoop
  <2> USE <1>1 DEF MakeLoop, Instanse
  <2>1. TypeOK'
    BY DEF TypeOK, OwnerStage, Loops, NoLoop, workerVars, LoopExists
  <2>2. ActiveWorkers' = ActiveWorkers
    BY DEF ActiveWorkers, workerVars
  <2> QED
    BY <2>1, <2>2 DEF TypeOK, LoopExists, Numbered, WorkersServe, NobodyLeft, Covered, workerVars,
                      Loops, NoLoop, ActiveWorkers
<1>2. CASE InitPort
  <2> USE <1>2 DEF InitPort
  <2>1. TypeOK'
    <3>1. m_threadLivedCount' \in [Loops -> Int]
      BY <1>0 DEF TypeOK
    <3>2. port' \in [Loops -> {"null", "open", "closed"}]
      BY <1>0 DEF TypeOK
    <3>3. started' \in 0 .. MAX_THREAD_COUNT
      BY DEF IOLoopAssumption
    <3> QED
      BY <3>1, <3>2, <3>3 DEF TypeOK, OwnerStage, workerVars
  <2>2. ActiveWorkers' = {}
    BY DEF ActiveWorkers, workerVars, NobodyLeft
  <2> QED
    BY <2>1, <2>2, FS_EmptySet DEF TypeOK, LoopExists, Numbered, WorkersServe, NobodyLeft, Covered,
                      workerVars, Loops, NoLoop
<1>3. CASE InitCreateThread
  <2> USE <1>3 DEF InitCreateThread, loopVars
  <2>1. TypeOK'
    BY DEF TypeOK, OwnerStage, WorkerStage, Goto
  <2>2. CASE owner' = "serving" /\ UNCHANGED <<pc, myPort>>
    BY <2>1, <2>2 DEF LoopExists, Numbered, WorkersServe, NobodyLeft, Covered, ActiveWorkers
  <2>3. ASSUME NEW w \in Workers, pc[w] = "none", Goto(w, "wait"),
               myPort' = [myPort EXCEPT ![w] = m_io], owner' = "incRead"
        PROVE  IInv'
    <3>1. /\ ActiveWorkers' = ActiveWorkers \cup {w}
          /\ Cardinality(ActiveWorkers') = Cardinality(ActiveWorkers) + 1
      BY <2>3, Arrives
    <3>2. Covered'
      BY ActiveFinite, <2>3, <3>1 DEF Covered, TypeOK, LoopExists
    <3>3. WorkersServe'
      BY <2>3 DEF WorkersServe, TypeOK, Goto, Active
    <3> QED
      BY <2>1, <2>3, <3>2, <3>3 DEF LoopExists, Numbered, NobodyLeft
  <2> QED
    BY <2>2, <2>3
<1>4. CASE InitIncRead
  <2> USE <1>4 DEF InitIncRead, loopVars, workerVars
  <2>1. TypeOK'
    BY DEF TypeOK, OwnerStage, LoopExists
  <2> QED
    BY <2>1 DEF LoopExists, Numbered, WorkersServe, NobodyLeft, Covered, ActiveWorkers
<1>5. CASE InitIncWrite
  <2> USE <1>5 DEF InitIncWrite, loopVars, workerVars
  <2>1. TypeOK'
    <3>1. m_threadLivedCount' \in [Loops -> Int]
      BY <1>0 DEF TypeOK
    <3>2. started' \in 0 .. MAX_THREAD_COUNT
      BY DEF TypeOK, IOLoopAssumption
    <3> QED
      BY <3>1, <3>2 DEF TypeOK, OwnerStage
  <2>2. m_threadLivedCount'[m_io] = tmp + 1
    BY DEF TypeOK, LoopExists
  <2> QED
    BY <2>1, <2>2 DEF LoopExists, Numbered, WorkersServe, NobodyLeft, Covered, ActiveWorkers
<1>6. CASE InitDone
  <2> USE <1>6 DEF InitDone, loopVars, workerVars
  <2>1. TypeOK'
    BY DEF TypeOK, OwnerStage
  <2> QED
    BY <2>1 DEF LoopExists, Numbered, WorkersServe, NobodyLeft, Covered, ActiveWorkers
<1>7. CASE ReleaseBegin
  <2> USE <1>7 DEF ReleaseBegin, loopVars, workerVars
  <2>1. TypeOK'
    BY DEF TypeOK, OwnerStage, LoopExists
  <2> QED
    BY <2>1 DEF LoopExists, Numbered, WorkersServe, NobodyLeft, Covered, ActiveWorkers
<1>8. CASE ReleasePost
  <2> USE <1>8 DEF ReleasePost, loopVars, workerVars
  <2>1. TypeOK'
    <3>1. queue' \in [Loops -> Seq(Packet)]
      BY <1>0 DEF TypeOK, Packet
    <3>2. toPost' \in Int
      BY DEF TypeOK
    <3> QED
      BY <3>1, <3>2 DEF TypeOK
  <2> QED
    BY <2>1 DEF LoopExists, Numbered, WorkersServe, NobodyLeft, Covered, ActiveWorkers
<1>9. CASE ReleasePosted
  <2> USE <1>9 DEF ReleasePosted, loopVars, workerVars
  <2>1. TypeOK'
    BY DEF TypeOK, OwnerStage
  <2> QED
    BY <2>1 DEF LoopExists, Numbered, WorkersServe, NobodyLeft, Covered, ActiveWorkers
<1>10. CASE ReleaseDelete
  <2> USE <1>10 DEF ReleaseDelete, workerVars
  <2>1. TypeOK'
    BY DEF TypeOK, OwnerStage, LoopExists
  <2>2. ActiveWorkers = {}
    BY ActiveFinite, FS_EmptySet DEF Covered, PollDone
  <2> QED
    BY <2>1, <2>2 DEF LoopExists, Numbered, WorkersServe, NobodyLeft, Covered, ActiveWorkers
<1>11. CASE ReleaseClear
  <2> USE <1>11 DEF ReleaseClear, workerVars
  <2>1. TypeOK'
    BY DEF TypeOK, OwnerStage
  <2>2. ActiveWorkers = {} /\ ActiveWorkers' = {}
    BY DEF NobodyLeft, ActiveWorkers
  <2>3. \A g \in freed : g # NoLoop
    BY DEF TypeOK, Loops, NoLoop
  <2> QED
    BY <2>1, <2>2, <2>3 DEF TypeOK, LoopExists, Numbered, WorkersServe, NobodyLeft, Covered, ActiveWorkers, NoLoop, Loops
<1>12. ASSUME NEW w \in Workers, TakeIo(w) \/ TakeEnd(w)
       PROVE  IInv'
  <2> USE <1>12 DEF TakeIo, TakeEnd, Take, loopVars, ownerVars
  <2>1. TypeOK'
    <3>1. queue' \in [Loops -> Seq(Packet)]
      <4>1. myPort[w] \in Loops /\ queue[myPort[w]] \in Seq(Packet)
        BY <1>0 DEF TypeOK, Active
      <4>2. Tail(queue[myPort[w]]) \in Seq(Packet)
        BY <4>1
      <4> QED
        BY <4>1, <4>2 DEF TypeOK
    <3>2. pc' \in [Workers -> WorkerStage]
      BY DEF TypeOK, WorkerStage, Goto
    <3> QED
      BY <3>1, <3>2 DEF TypeOK
  <2>2. ActiveWorkers' = ActiveWorkers
    BY StaysActive DEF Active
  <2>3. WorkersServe'
    BY DEF WorkersServe, Goto, Active, TypeOK
  <2> QED
    BY <2>1, <2>2, <2>3 DEF LoopExists, Numbered, NobodyLeft, Covered
<1>13. ASSUME NEW w \in Workers, WaitFails(w) \/ FinishIo(w)
       PROVE  IInv'
  <2> USE <1>13 DEF WaitFails, FinishIo, loopVars, ownerVars
  <2>1. TypeOK'
    BY DEF TypeOK, WorkerStage, Goto
  <2>2. ActiveWorkers' = ActiveWorkers
    BY StaysActive DEF Active
  <2>3. WorkersServe'
    BY DEF WorkersServe, Goto, Active, TypeOK
  <2> QED
    BY <2>1, <2>2, <2>3 DEF LoopExists, Numbered, NobodyLeft, Covered
<1>14. ASSUME NEW w \in Workers, CloseInstanse(w)
       PROVE  IInv'
  <2> USE <1>14 DEF CloseInstanse, Instanse, ownerVars
  <2>1. m_io # NoLoop
    BY DEF NobodyLeft, LoopExists, ActiveWorkers, Active
  <2>2. TypeOK'
    BY <2>1 DEF TypeOK, WorkerStage, Goto
  <2>3. ActiveWorkers' = ActiveWorkers
    BY StaysActive DEF Active
  <2>4. WorkersServe'
    BY <2>1 DEF WorkersServe, Goto, Active, TypeOK
  <2> QED
    BY <2>1, <2>2, <2>3, <2>4 DEF LoopExists, Numbered, NobodyLeft, Covered
<1>15. ASSUME NEW w \in Workers, CloseCheck(w)
       PROVE  IInv'
  <2> USE <1>15 DEF CloseCheck, loopVars, ownerVars
  <2>1. TypeOK'
    BY DEF TypeOK, WorkerStage, Goto
  <2>2. WorkersServe'
    BY DEF WorkersServe, Goto, Active, TypeOK
  <2>3. CASE Goto(w, "dec")
    <3>1. ActiveWorkers' = ActiveWorkers
      BY <2>3, StaysActive DEF Active
    <3> QED
      BY <2>1, <2>2, <3>1 DEF LoopExists, Numbered, NobodyLeft, Covered
  <2>4. CASE Goto(w, "log")
    <3>1. /\ ActiveWorkers' \subseteq ActiveWorkers
          /\ Cardinality(ActiveWorkers') = Cardinality(ActiveWorkers) - 1
      BY <2>4, Leaves DEF Active
    <3> QED
      BY ActiveFinite, <2>1, <2>2, <3>1 DEF LoopExists, Numbered, NobodyLeft, Covered, TypeOK
  <2> QED
    BY <2>3, <2>4
<1>16. ASSUME NEW w \in Workers, CloseDec(w)
       PROVE  IInv'
  <2> USE <1>16 DEF CloseDec, loopVars, ownerVars
  <2>1. io[w] = m_io /\ m_io \in Loops
    BY DEF WorkersServe, Active, NobodyLeft, LoopExists, ActiveWorkers, TypeOK
  <2>2. TypeOK'
    BY <2>1 DEF TypeOK, WorkerStage, Goto
  <2>3. WorkersServe'
    BY DEF WorkersServe, Goto, Active, TypeOK
  <2>4. m_threadLivedCount'[m_io] = m_threadLivedCount[m_io] - 1
    BY <2>1 DEF TypeOK
  <2>5. /\ ActiveWorkers' \subseteq ActiveWorkers
        /\ Cardinality(ActiveWorkers') = Cardinality(ActiveWorkers) - 1
    BY Leaves DEF Active
  <2> QED
    BY ActiveFinite, <2>1, <2>2, <2>3, <2>4, <2>5 DEF LoopExists, Numbered, NobodyLeft, Covered, TypeOK
<1>17. ASSUME NEW w \in Workers, CloseLog(w)
       PROVE  IInv'
  <2> USE <1>17 DEF CloseLog, loopVars, ownerVars
  <2>1. TypeOK'
    BY DEF TypeOK, WorkerStage, Goto
  <2>2. ActiveWorkers' = ActiveWorkers
    BY DEF ActiveWorkers, Active, Goto, TypeOK
  <2> QED
    BY <2>1, <2>2 DEF LoopExists, Numbered, WorkersServe, NobodyLeft, Covered, Goto, Active, TypeOK
<1>18. ASSUME NEW g \in Loops, CompleteIo(g)
       PROVE  IInv'
  <2> USE <1>18 DEF CompleteIo, loopVars, ownerVars, workerVars
  <2>1. TypeOK'
    BY DEF TypeOK, Packet
  <2> QED
    BY <2>1 DEF LoopExists, Numbered, WorkersServe, NobodyLeft, Covered, ActiveWorkers
<1>19. CASE UNCHANGED vars
  BY <1>19 DEF vars, Active, TypeOK, LoopExists, Numbered, WorkersServe, NobodyLeft, Covered, ActiveWorkers
<1> QED
  BY <1>1, <1>2, <1>3, <1>4, <1>5, <1>6, <1>7, <1>8, <1>9, <1>10, <1>11, <1>12, <1>13,
     <1>14, <1>15, <1>16, <1>17, <1>18, <1>19
  DEF Next, OwnerInit, OwnerRelease, WorkerStep

-----------------------------------------------------------------------------
\* Every reachable state satisfies the inductive invariant.
THEOREM Invariance == Spec => []IInv
BY IInvInit, IInvNext, PTL DEF Spec

\* Every variable keeps its type, whatever fails.
THEOREM TypeCorrect == Spec => []TypeOK
<1>1. IInv => TypeOK
  BY DEF IInv
<1> QED
  BY <1>1, Invariance, PTL

\* When Release (ioloop.cpp:62-79) deletes the loop, no worker waits, handles a
\* completion or still has to decrement: each is gone or only has to log.
THEOREM Joins == Spec => []ReleaseJoins
<1>1. IInv => ReleaseJoins
  BY DEF IInv, NobodyLeft, TypeOK, ReleaseJoins, WorkerStage, Active, ActiveWorkers
<1> QED
  BY <1>1, Invariance, PTL

\* A leaving worker (ioloop.cpp:191) finds the loop it served, not freed.
THEOREM OwnLoop == Spec => []LeavesOwnLoop
<1>1. IInv => LeavesOwnLoop
  BY DEF IInv, WorkersServe, NobodyLeft, Numbered, LeavesOwnLoop, Active, ActiveWorkers
<1> QED
  BY <1>1, Invariance, PTL

\* m_threadLivedCount never reads less than the workers it stands for.
THEOREM CounterCovers == Spec => []CountCovers
<1>1. IInv => CountCovers
  BY DEF IInv, Covered, CountCovers
<1> QED
  BY <1>1, Invariance, PTL

-----------------------------------------------------------------------------
(***************************************************************************)
(* Refinement: every step of IOLoop is a step of the abstract pool, or a   *)
(* stutter of it.                                                          *)
(***************************************************************************)
LEMMA PoolStep == IInv /\ [Next]_vars => [Pool!Next]_(Pool!vars)
<1> SUFFICES ASSUME IInv, [Next]_vars PROVE [Pool!Next]_(Pool!vars)
  OBVIOUS
<1> USE DEF Pool!Next, Pool!vars
<1>0. TypeOK /\ NobodyLeft
  BY DEF IInv
<1>1. CASE MakeLoop \/ ReleasePost \/ ReleasePosted \/ InitIncRead \/ InitIncWrite
  BY <1>1 DEF MakeLoop, ReleasePost, ReleasePosted, InitIncRead, InitIncWrite, PoolPhase,
              ActiveWorkers, workerVars
<1>2. CASE InitPort
  <2>1. Pool!Open
    BY <1>2 DEF InitPort, PoolPhase, Pool!Open, ActiveWorkers, workerVars
  <2> QED
    BY <2>1
<1>3. CASE InitCreateThread
  <2>1. CASE owner' = "serving" /\ UNCHANGED <<pc, myPort>>
    <3>1. Pool!Opened
      BY <1>3, <2>1 DEF InitCreateThread, PoolPhase, Pool!Opened, ActiveWorkers
    <3> QED
      BY <3>1
  <2>2. ASSUME NEW w \in Workers, pc[w] = "none", Goto(w, "wait"), owner' = "incRead"
        PROVE  Pool!Next
    <3>1. ActiveWorkers' = ActiveWorkers \cup {w} /\ w \notin ActiveWorkers
      BY <1>0, <2>2, Arrives DEF ActiveWorkers, Active
    <3>2. Pool!Spawn(w)
      BY <1>3, <2>2, <3>1 DEF InitCreateThread, PoolPhase, Pool!Spawn
    <3> QED
      BY <3>2
  <2> QED
    BY <1>3, <2>1, <2>2 DEF InitCreateThread
<1>4. CASE InitDone
  <2>1. Pool!Opened
    BY <1>4 DEF InitDone, PoolPhase, Pool!Opened, ActiveWorkers, workerVars
  <2> QED
    BY <2>1
<1>5. CASE ReleaseBegin
  <2>1. Pool!Shutdown
    BY <1>5 DEF ReleaseBegin, PoolPhase, Pool!Shutdown, ActiveWorkers, workerVars
  <2> QED
    BY <2>1
<1>6. CASE ReleaseDelete
  BY <1>6 DEF ReleaseDelete, PoolPhase, ActiveWorkers, workerVars
<1>7. CASE ReleaseClear
  <2>1. Pool!Join
    BY <1>0, <1>7 DEF ReleaseClear, PoolPhase, Pool!Join, NobodyLeft, ActiveWorkers, workerVars
  <2> QED
    BY <2>1
<1>8. ASSUME NEW w \in Workers, WorkerStep(w) \/ WaitFails(w)
      PROVE  [Pool!Next]_(Pool!vars)
  <2>0. PoolPhase' = PoolPhase
    BY <1>8 DEF WorkerStep, TakeIo, TakeEnd, Take, WaitFails, FinishIo, CloseInstanse, CloseCheck,
                CloseDec, CloseLog, ownerVars, PoolPhase
  <2>1. CASE pc[w] \in Active /\ Goto(w, "log")
    <3>1. ActiveWorkers' = ActiveWorkers \ {w} /\ w \in ActiveWorkers
      BY <1>0, <2>1, Leaves DEF ActiveWorkers
    <3>2. Pool!Leave(w)
      BY <2>0, <3>1 DEF Pool!Leave
    <3> QED
      BY <3>2
  <2>2. CASE pc[w] \in Active /\ \E stage \in Active : Goto(w, stage)
    BY <1>0, <2>0, <2>2, StaysActive
  <2>3. CASE CloseLog(w)
    BY <1>0, <2>0, <2>3 DEF CloseLog, Goto, ActiveWorkers, Active, TypeOK
  <2> QED
    BY <1>8, <2>1, <2>2, <2>3
    DEF WorkerStep, TakeIo, TakeEnd, Take, WaitFails, FinishIo, CloseInstanse, CloseCheck,
        CloseDec, Active
<1>9. ASSUME NEW g \in Loops, CompleteIo(g)
      PROVE  UNCHANGED Pool!vars
  BY <1>9 DEF CompleteIo, ownerVars, workerVars, PoolPhase, ActiveWorkers
<1>10. CASE UNCHANGED vars
  BY <1>10 DEF vars, PoolPhase, ActiveWorkers
<1> QED
  BY <1>1, <1>2, <1>3, <1>4, <1>5, <1>6, <1>7, <1>8, <1>9, <1>10
  DEF Next, OwnerInit, OwnerRelease

\* IOLoop implements the abstract pool: whoever calls Release can rely on the
\* join whatever the workers, the kernel and the unlocked counter do.
THEOREM ImplementsPool == Spec => PoolSpec
<1>1. Init => Pool!Init
  BY DEF Init, Pool!Init, PoolPhase, ActiveWorkers, Active
<1> QED
  BY <1>1, PoolStep, Invariance, PTL DEF Spec, PoolSpec, Pool!Spec
=============================================================================
