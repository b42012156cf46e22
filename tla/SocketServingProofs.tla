------------------------ MODULE SocketServingProofs -------------------------
(***************************************************************************)
(* Proofs about what the socket part keeps up, once accepts and blocks     *)
(* have their owners (SocketIOProofs): a server goes on listening, no      *)
(* block is lost before Release, and, under the conditions that Orderly    *)
(* states, nothing deleted is touched and every connection is a            *)
(* ByteStream, however many workers there are. Each theorem names the      *)
(* failures it excludes; the runs that check its property exclude the same *)
(* ones or more.                                                           *)
(***************************************************************************)
EXTENDS SocketIOProofs

USE DEF Busy

-----------------------------------------------------------------------------
(***************************************************************************)
(* Accepts and blocks.                                                     *)
(***************************************************************************)
\* No accept of a server is on its way to the first branch of ServerWorkThread,
\* which would drop it without another (ioloop.cpp:95-107).
AcceptsSucceed ==
    /\ \A i \in DOMAIN queue : ~queue[i].ok => queue[i].sock \notin Servers
    /\ \A w \in Handling({"failed"}) : Sock(w) \notin Servers
    /\ ~released => \A o \in ops : o.sock \in Servers => life[o.sock] # "deleted"

\* KeepsListening without counting: an accept of the server is held by an
\* operation, a packet, or a handler that has not posted the next one.
Listens ==
    \A s \in Servers :
        user[s] = "added" /\ life[s] = "live" => \E h \in Held : h.sock = s /\ h.blk \notin Late

\* LeaksOnlyAtRelease without counting.
NoneLost ==
    \A b \in DOMAIN blocks :
        blocks[b].op = "END_THREAD" \/ b \in freed \/ \E h \in Held : h.blk = b
EndsWithRelease == \A b \in DOMAIN blocks : blocks[b].op = "END_THREAD" => released

\* A handler is late only after it has been at the post before.
LEMMA LateKept ==
    ASSUME NEW w \in Workers,
           \A v \in Workers \ {w} : pc'[v] = pc[v] /\ cur'[v] = cur[v],
           pc'[w] \in AfterPost => pc[w] \in AfterPost /\ cur'[w] = cur[w]
    PROVE  Late' \subseteq Late
<1>1. \A v \in Handling(AfterPost)' : v \in Handling(AfterPost) /\ Blk(v)' = Blk(v)
  BY DEF Handling, Blk
<1>2. QED
  BY <1>1 DEF Late

\* A step that brings no failure to a server and deletes none that is listening.
LEMMA AcceptsKept ==
    ASSUME AcceptsSucceed, queue' = queue, released => released',
           \A v \in Handling({"failed"})' : v \in Handling({"failed"}) /\ cur'[v] = cur[v],
           ~released' => \A o \in ops' : o.sock \in Servers =>
               \/ o \in ops /\ life'[o.sock] = life[o.sock]
               \/ life'[o.sock] # "deleted"
    PROVE  AcceptsSucceed'
BY DEF AcceptsSucceed, Sock

\* The accept that a server had under way is still under way.
LEMMA ListensKept ==
    ASSUME Listens,
           \A s \in Servers : user'[s] = "added" /\ life'[s] = "live" =>
                user[s] = "added" /\ life[s] = "live",
           \A h \in Held : h.sock \in Servers /\ h.blk \notin Late /\ life'[h.sock] = "live" =>
                h \in Held' /\ h.blk \notin Late'
    PROVE  Listens'
<1> SUFFICES ASSUME NEW s \in Servers, user'[s] = "added", life'[s] = "live"
             PROVE  \E h \in Held' : h.sock = s /\ h.blk \notin Late'
  BY DEF Listens
<1>1. PICK h \in Held : h.sock = s /\ h.blk \notin Late
  BY DEF Listens
<1>2. QED
  BY <1>1

\* The block of a handler that is neither past its post nor late.
LEMMA NotLate ==
    ASSUME CoreInv, NEW w \in Busy, pc[w] \notin AfterPost
    PROVE  Blk(w) \notin Late
<1>1. OnePlace
  BY DEF CoreInv, Linear
<1>2. QED
  BY <1>1 DEF Late, Handling, OnePlace, AfterPost

\* No operation waits on the server whose accept a handler has.
LEMMA OnlyAccept ==
    ASSUME CoreInv, NEW w \in Busy, pc[w] \notin AfterPost, Sock(w) \in Servers
    PROVE  \A o \in ops : o.sock # Sock(w)
<1>0. TypeOK /\ Linear /\ SockInv /\ OnePlace
  BY DEF CoreInv, Linear
<1>1. PICK g \in Held : g.sock = Sock(w) /\ g.blk = Blk(w)
  BY <1>0, Working DEF Op
<1>2. g.blk \notin Late
  BY <1>1, NotLate
<1>3. ASSUME NEW o \in ops, o.sock = Sock(w) PROVE FALSE
  <2>1. o \in Held
    BY DEF Held
  <2>2. o.blk \notin Late /\ o.blk # g.blk
    BY <1>0, <1>1 DEF Late, Handling, OnePlace, AfterPost
  <2>3. OpOf(o) = "START_ACCEPT" /\ OpOf(g) = "START_ACCEPT"
    BY <1>0, <1>1, <1>3, <2>1 DEF SockInv, Fits
  <2>4. QED
    BY <1>0, <1>1, <1>2, <1>3, <2>1, <2>2, <2>3 DEF SockInv, OneListening
<1>4. QED
  BY <1>3

\* A handler ends.
LEMMA EndsServe ==
    ASSUME CoreInv, CoreInv', AcceptsSucceed, SameBlocks, NEW w \in Busy, Loop(w),
           UNCHANGED <<ops, queue, user, released>>, DOMAIN blocks' = DOMAIN blocks,
           life' = life \/ (DeleteSocket(Sock(w)) /\ pc[w] \notin AfterPost),
           Sock(w) \in Servers => pc[w] \in AfterPost \/ DeleteSocket(Sock(w))
    PROVE  /\ AcceptsSucceed'
           /\ Listens => Listens'
           /\ NoneLost /\ DeleteBlock(Blk(w)) => NoneLost'
<1>0. TypeOK /\ Linear /\ SockInv /\ OnePlace
  BY DEF CoreInv, Linear
<1>1. Held' = Held \ {Op(Sock(w), Blk(w))}
  BY <1>0, Dropping
<1>2. /\ w \in Workers /\ pc'[w] = "wait"
      /\ \A v \in Workers \ {w} : pc'[v] = pc[v] /\ cur'[v] = cur[v]
  BY <1>0, LoopTyped DEF Loop, TypeOK
<1>3. Late' \subseteq Late
  BY <1>2, LateKept DEF AfterPost
<1>4. Op(Sock(w), Blk(w)).sock = Sock(w) /\ Op(Sock(w), Blk(w)).blk = Blk(w)
  BY DEF Op
<1>5. Sock(w) \in Sockets /\ Servers \subseteq Sockets
  BY <1>0, Working DEF Sockets, UserSockets
<1>6. /\ \A s \in Sockets : s # Sock(w) => life'[s] = life[s]
      /\ DeleteSocket(Sock(w)) => life'[Sock(w)] = "deleted"
  BY <1>0, <1>5 DEF TypeOK, DeleteSocket
<1>7. AcceptsSucceed'
  <2>1. \A v \in Handling({"failed"})' : v \in Handling({"failed"}) /\ cur'[v] = cur[v]
    BY <1>2 DEF Handling
  <2>2. \A o \in ops : o.sock \in Servers => life'[o.sock] = life[o.sock]
    BY <1>5, <1>6, OnlyAccept
  <2>3. QED
    BY <2>1, <2>2, AcceptsKept
<1>8. ASSUME Listens PROVE Listens'
  <2>1. \A s \in Servers : life'[s] = "live" => life[s] = "live"
    BY <1>5, <1>6
  <2>2. ASSUME NEW h \in Held, h.sock \in Servers, h.blk \notin Late, life'[h.sock] = "live"
        PROVE  h \in Held' /\ h.blk \notin Late'
    <3>1. h # Op(Sock(w), Blk(w))
      <4>1. SUFFICES ASSUME h.sock = Sock(w), h.blk = Blk(w) PROVE FALSE
        BY <1>4
      <4>2. pc[w] \in AfterPost
        BY <2>2, <4>1, <1>6
      <4>3. Blk(w) \in Late
        BY <1>2, <4>2 DEF Late, Handling
      <4>4. QED
        BY <2>2, <4>1, <4>3
    <3>2. QED
      BY <1>1, <1>3, <2>2, <3>1
  <2>3. QED
    BY <1>8, <2>1, <2>2, ListensKept
<1>9. ASSUME NoneLost, DeleteBlock(Blk(w)) PROVE NoneLost'
  BY <1>1, <1>4, <1>9 DEF NoneLost, DeleteBlock, SameBlocks
<1>10. QED
  BY <1>7, <1>8, <1>9

\* Blocks move, or a receive or send is posted; nobody ends.
LEMMA GoesServe ==
    ASSUME CoreInv, CoreInv', AcceptsSucceed, SameBlocks, NEW w \in Workers,
           \A v \in Workers \ {w} : pc'[v] = pc[v] /\ cur'[v] = cur[v],
           pc'[w] \in AfterPost => pc[w] \in AfterPost /\ cur'[w] = cur[w],
           pc'[w] = "failed" => pc[w] = "failed" /\ cur'[w] = cur[w],
           UNCHANGED <<queue, life, user, freed, released>>, Held \subseteq Held',
           \A o \in ops' : o.sock \in Servers => o \in ops
    PROVE  /\ AcceptsSucceed'
           /\ Listens => Listens'
           /\ NoneLost /\ DOMAIN blocks' = DOMAIN blocks => NoneLost'
<1>1. Late' \subseteq Late
  BY LateKept
<1>2. AcceptsSucceed'
  <2>1. \A v \in Handling({"failed"})' : v \in Handling({"failed"}) /\ cur'[v] = cur[v]
    BY DEF Handling
  <2>2. QED
    BY <2>1, AcceptsKept
<1>3. Listens => Listens'
  BY <1>1, ListensKept
<1>4. NoneLost /\ DOMAIN blocks' = DOMAIN blocks => NoneLost'
  BY DEF NoneLost, SameBlocks
<1>5. QED
  BY <1>2, <1>3, <1>4

\* A new block is posted.
LEMMA NewIsHeld ==
    ASSUME NoneLost, SameBlocks, NEW s, freed' = freed, Held' = Held \cup {Op(s, NextBlk)},
           DOMAIN blocks' = DOMAIN blocks \cup {NextBlk}
    PROVE  NoneLost'
<1>1. Op(s, NextBlk).blk = NextBlk
  BY DEF Op
<1>2. QED
  BY <1>1 DEF NoneLost, SameBlocks

\* What PostAcceptMsg does when AcceptEx does not fail.
LEMMA PostAcceptServes ==
    ASSUME CoreInv, AcceptsSucceed, NEW s \in Servers, PostAcceptMsg(s),
           "acceptex" \notin Faults, \E a \in Accepted : life[a] = "unborn",
           UNCHANGED <<queue, cur>>, Busy' = Busy
    PROVE  /\ \A r \in UserSockets : life'[r] = life[r]
           /\ Held' = Held \cup {Op(s, NextBlk)} /\ NextBlk \notin Late
           /\ ops' = ops \cup {Op(s, NextBlk)}
           /\ DOMAIN blocks' = DOMAIN blocks \cup {NextBlk}
<1>0. TypeOK /\ Linear /\ SockInv
  BY DEF CoreInv
<1>1. /\ s \in Sockets /\ UserSockets \subseteq Sockets /\ UserSockets \cap Accepted = {}
  BY SocketIOAssumption DEF Sockets, UserSockets
<1>2. PICK a \in Accepted :
        /\ life[a] = "unborn" /\ life' = [life EXCEPT ![a] = "live"]
        /\ blocks' = Append(blocks, NewBlock("START_ACCEPT", a, 0))
        /\ NewBlock("START_ACCEPT", a, 0) \in Block
  BY <1>0, PostAcceptTyped
<1>3. \A r \in UserSockets : life'[r] = life[r]
  BY <1>0, <1>1, <1>2 DEF TypeOK
<1>4. Posted(s)
  BY DEF PostAcceptMsg
<1>5. Held' = Held \cup {Op(s, NextBlk)}
  BY <1>0, <1>1, <1>4, Adding
<1>6. DOMAIN blocks' = DOMAIN blocks \cup {NextBlk} /\ NextBlk \notin DOMAIN blocks
  BY <1>0, <1>2, AppendBlock
<1>7. NextBlk \notin Late
  <2>1. \A w \in Handling(AfterPost) : Blk(w) \in DOMAIN blocks
    BY <1>0, Working DEF Handling, AfterPost
  <2>2. QED
    BY <1>6, <2>1 DEF Late
<1>8. QED
  BY <1>3, <1>4, <1>5, <1>6, <1>7 DEF Posted

\* Where a packet takes the worker that dequeues it.
LEMMA DequeueStage ==
    ASSUME TypeOK, SockInv, NEW w \in Workers, Dequeue(w)
    PROVE  \E stage \in {"failed", "zero"} \cup OpType :
             /\ pc' = [pc EXCEPT ![w] = stage]
             /\ stage = "failed" => ~Head(queue).ok
             /\ stage = "zero" => Head(queue).ok /\ Head(queue).bytes = 0
<1>1. queue # <<>> /\ pc' = [pc EXCEPT ![w] =
                               IF ~Head(queue).ok THEN "failed"
                               ELSE IF Head(queue).bytes = 0 THEN "zero"
                               ELSE blocks[Head(queue).blk].op]
  BY DEF Dequeue
<1>2. queue \in Seq(Packet) /\ Head(queue) = queue[1] /\ 1 \in DOMAIN queue
  BY <1>1 DEF TypeOK
<1>3. blocks[Head(queue).blk].op \in OpType
  <2>1. Op(queue[1].sock, queue[1].blk) \in Held
    BY <1>2 DEF Held
  <2>2. OpOf(Op(queue[1].sock, queue[1].blk)) \in OpType
    BY <2>1 DEF SockInv, Fits
  <2>3. QED
    BY <1>2, <2>2 DEF Op, OpOf
<1>4. "failed" \notin OpType /\ "zero" \notin OpType /\ "zero" # "failed"
  BY DEF OpType
<1>5. CASE ~Head(queue).ok
  <2>1. pc' = [pc EXCEPT ![w] = "failed"]
    BY <1>1, <1>5
  <2>2. QED
    BY <1>4, <1>5, <2>1
<1>6. CASE Head(queue).ok /\ Head(queue).bytes = 0
  <2>1. pc' = [pc EXCEPT ![w] = "zero"]
    BY <1>1, <1>6
  <2>2. QED
    BY <1>4, <1>6, <2>1
<1>7. CASE Head(queue).ok /\ Head(queue).bytes # 0
  <2>1. DEFINE op == blocks[Head(queue).blk].op
  <2>2. pc' = [pc EXCEPT ![w] = op] /\ op \in OpType
    BY <1>1, <1>3, <1>7
  <2> HIDE DEF op
  <2>3. op \in {"failed", "zero"} \cup OpType /\ op # "failed" /\ op # "zero"
    BY <1>4, <2>2
  <2>4. QED
    BY <2>2, <2>3
<1>8. QED
  BY <1>5, <1>6, <1>7

\* Besides accepts, what BlocksAreNotLost needs: a client's block is dropped with
\* its operation (ioloop.cpp:100-106), and that of a receive when WSARecv fails at
\* once (socket.cpp:139-150).
OnlyServes == Clients = {} /\ "recv" \notin Faults

\* A handler that takes the accept of a server posts the next (ioloop.cpp:164), and
\* every branch deletes its block or posts it again.
LEMMA HandlerServes ==
    ASSUME CoreInv, CoreInv', AcceptsSucceed, NEW w \in Workers, Handler(w)
    PROVE  /\ AcceptsSucceed'
           /\ "acceptex" \notin Faults /\ Listens => Listens'
           /\ "acceptex" \notin Faults /\ OnlyServes /\ NoneLost => NoneLost'
<1>0. TypeOK /\ Linear /\ SockInv /\ StageInv /\ OnePlace /\ SameBlocks
  BY HandlerKeeps DEF CoreInv, Linear, Kept, Moves
<1>1. CASE Dequeue(w)
  <2>1. /\ pc[w] = "wait" /\ queue # <<>> /\ queue' = Tail(queue)
        /\ cur' = [cur EXCEPT ![w] = Head(queue)]
        /\ UNCHANGED <<life, blocks, freed, ops, user, released>>
    BY <1>1 DEF Dequeue, heap, userVars
  <2>2. PICK stage \in {"failed", "zero"} \cup OpType :
          pc' = [pc EXCEPT ![w] = stage] /\ (stage = "failed" => ~Head(queue).ok)
    BY <1>0, <1>1, DequeueStage
  <2>3. stage # "wait" /\ stage \notin AfterPost
    BY <2>2 DEF AfterPost, OpType
  <2>4. Held' = Held
    BY <1>0, <2>1, <2>2, <2>3, Taking
  <2>5. /\ \A v \in Workers \ {w} : pc'[v] = pc[v] /\ cur'[v] = cur[v]
        /\ pc'[w] = stage /\ cur'[w] = Head(queue)
    BY <1>0, <2>1, <2>2 DEF TypeOK
  <2>6. Late' \subseteq Late
    BY <2>3, <2>5, LateKept
  <2>7. /\ Head(queue) = queue[1] /\ 1 \in DOMAIN queue
        /\ \A i \in DOMAIN queue' : i + 1 \in DOMAIN queue /\ queue'[i] = queue[i + 1]
    BY <1>0, <2>1 DEF TypeOK
  <2>8. AcceptsSucceed'
    <3>1. \A i \in DOMAIN queue' : ~queue'[i].ok => queue'[i].sock \notin Servers
      BY <2>7 DEF AcceptsSucceed
    <3>2. \A v \in Handling({"failed"})' : Sock(v)' \notin Servers
      BY <2>2, <2>5, <2>7 DEF AcceptsSucceed, Handling, Sock
    <3>3. QED
      BY <2>1, <3>1, <3>2 DEF AcceptsSucceed
  <2>9. Listens => Listens'
    BY <2>1, <2>4, <2>6, ListensKept
  <2>10. NoneLost => NoneLost'
    BY <2>1, <2>4 DEF NoneLost
  <2>11. QED
    BY <2>8, <2>9, <2>10
<1>2. CASE TouchesDeleted(w)
  <2>1. UNCHANGED <<life, blocks, freed, ops, queue, pc, cur, user, released>>
    BY <1>2 DEF TouchesDeleted, heap, userVars
  <2>2. Held' = Held
    BY <1>0, <2>1, Staying
  <2>3. QED
    BY <1>0, <2>1, <2>2, GoesServe
<1>3. CASE HandleFailed(w)
  <2>1. /\ w \in Busy /\ pc[w] = "failed" /\ Loop(w)
        /\ UNCHANGED <<blocks, ops, queue, user, released>>
        /\ life' = life \/ (DeleteSocket(Sock(w)) /\ pc[w] \notin AfterPost)
        /\ Sock(w) \in Accepted => DeleteBlock(Blk(w))
    BY <1>3 DEF HandleFailed, Step, userVars, AfterPost
  <2>2. Sock(w) \notin Servers
    BY <2>1 DEF AcceptsSucceed, Handling
  <2>3. OnlyServes => DeleteBlock(Blk(w))
    BY <1>0, <2>1, <2>2, Working DEF OnlyServes, Sockets, UserSockets
  <2>4. QED
    BY <1>0, <2>1, <2>2, <2>3, EndsServe
<1>4. CASE HandleZero(w)
  <2>1. /\ w \in Busy /\ pc[w] = "zero" /\ Loop(w)
        /\ UNCHANGED <<blocks, ops, queue, user, released>>
        /\ DeleteSocket(Sock(w)) /\ DeleteBlock(Blk(w)) /\ pc[w] \notin AfterPost
    BY <1>4 DEF HandleZero, Step, userVars, AfterPost
  <2>2. QED
    BY <1>0, <2>1, EndsServe
<1>5. CASE HandleSend(w)
  <2>1. /\ w \in Busy /\ pc[w] = "SEND" /\ UNCHANGED <<queue, user, released>>
        /\ pc[w] \notin AfterPost /\ DOMAIN blocks' = DOMAIN blocks
        /\ \/ DeleteBlock(Blk(w)) /\ Loop(w) /\ UNCHANGED <<life, ops>>
           \/ UNCHANGED <<life, freed, ops, pc, cur>>
           \/ ops' = ops \cup {Op(Sock(w), Blk(w))} /\ Loop(w) /\ UNCHANGED <<life, freed>>
           \/ DeleteSocket(Sock(w)) /\ DeleteBlock(Blk(w)) /\ Loop(w) /\ UNCHANGED ops
    BY <1>5 DEF HandleSend, Step, userVars, AfterPost
  <2>2. Sock(w) \notin Servers
    BY <2>1, ServesAccepts DEF AfterPost
  <2>3. CASE UNCHANGED <<life, freed, ops, pc, cur>>
    <3>1. Held' = Held
      BY <1>0, <2>1, <2>3, Staying
    <3>2. QED
      BY <1>0, <2>1, <2>3, <3>1, GoesServe
  <2>4. CASE ops' = ops \cup {Op(Sock(w), Blk(w))} /\ Loop(w) /\ UNCHANGED <<life, freed>>
    <3>1. Held' = Held
      BY <1>0, <2>1, <2>4, Returning
    <3>2. /\ pc'[w] = "wait" /\ pc'[w] \notin AfterPost
          /\ \A v \in Workers \ {w} : pc'[v] = pc[v] /\ cur'[v] = cur[v]
      BY <1>0, <2>1, <2>4, LoopTyped DEF Loop, TypeOK, AfterPost
    <3>3. \A o \in ops' : o.sock \in Servers => o \in ops
      BY <2>2, <2>4 DEF Op
    <3>4. QED
      BY <1>0, <2>1, <2>4, <3>1, <3>2, <3>3, GoesServe
  <2>5. CASE /\ DeleteBlock(Blk(w)) /\ Loop(w) /\ UNCHANGED ops
             /\ life' = life \/ DeleteSocket(Sock(w))
    BY <1>0, <2>1, <2>2, <2>5, EndsServe
  <2>6. QED
    BY <2>1, <2>3, <2>4, <2>5
<1>6. CASE HandleRecv(w)
  <2>1. /\ w \in Busy /\ pc[w] = "RECV" /\ UNCHANGED <<blocks, ops, queue, user, released>>
        /\ pc[w] \notin AfterPost
        /\ \/ DeleteSocket(Sock(w)) /\ DeleteBlock(Blk(w)) /\ Loop(w)
           \/ Goto(w, "repost") /\ UNCHANGED <<life, freed>>
    BY <1>6 DEF HandleRecv, Step, userVars, AfterPost
  <2>2. CASE DeleteSocket(Sock(w)) /\ DeleteBlock(Blk(w)) /\ Loop(w)
    BY <1>0, <2>1, <2>2, EndsServe
  <2>3. CASE Goto(w, "repost") /\ UNCHANGED <<life, freed>>
    <3>1. "repost" \in Stage \ {"wait"}
      BY DEF Stage
    <3>2. /\ Busy' = Busy /\ cur' = cur /\ pc'[w] = "repost" /\ pc'[w] \notin AfterPost
          /\ \A v \in Workers \ {w} : pc'[v] = pc[v]
      BY <1>0, <2>1, <2>3, <3>1, GotoTyped DEF Goto, AfterPost
    <3>3. Held' = Held
      BY <1>0, <2>1, <3>2, Staying
    <3>4. QED
      BY <1>0, <2>1, <2>3, <3>2, <3>3, GoesServe
  <2>4. QED
    BY <2>1, <2>2, <2>3
<1>7. CASE Repost(w)
  <2>1. /\ w \in Busy /\ pc[w] = "repost" /\ Loop(w)
        /\ UNCHANGED <<blocks, queue, user, released>> /\ pc[w] \notin AfterPost
        /\ \/ ops' = ops \cup {Op(Sock(w), Blk(w))} /\ UNCHANGED <<life, freed>>
           \/ DeleteSocket(Sock(w)) /\ DeleteBlock(Blk(w)) /\ UNCHANGED ops
    BY <1>7 DEF Repost, Step, userVars, AfterPost
  <2>2. CASE ops' = ops \cup {Op(Sock(w), Blk(w))} /\ UNCHANGED <<life, freed>>
    <3>1. Held' = Held
      BY <1>0, <2>1, <2>2, Returning
    <3>2. /\ pc'[w] = "wait" /\ pc'[w] \notin AfterPost
          /\ \A v \in Workers \ {w} : pc'[v] = pc[v] /\ cur'[v] = cur[v]
      BY <1>0, <2>1, <2>2, LoopTyped DEF Loop, TypeOK, AfterPost
    <3>3. Sock(w) \notin Servers
      BY <2>1, ServesAccepts DEF AfterPost
    <3>4. \A o \in ops' : o.sock \in Servers => o \in ops
      BY <2>2, <3>3 DEF Op
    <3>5. QED
      BY <1>0, <2>1, <2>2, <3>1, <3>2, <3>4, GoesServe
  <2>3. CASE DeleteSocket(Sock(w)) /\ DeleteBlock(Blk(w)) /\ UNCHANGED ops
    BY <1>0, <2>1, <2>3, EndsServe
  <2>4. QED
    BY <2>1, <2>2, <2>3
<1>8. CASE HandleAccept(w)
  <2>1. /\ w \in Busy /\ pc[w] = "START_ACCEPT" /\ PostAcceptMsg(Sock(w)) /\ Goto(w, "onaccept")
        /\ UNCHANGED <<queue, user, released, freed>>
        /\ life[Sock(w)] # "deleted" /\ pc[w] \notin AfterPost
    BY <1>8 DEF HandleAccept, Step, userVars, Touches, AfterPost
  <2>2. Sock(w) \in Servers
    BY <1>0, <2>1, AccepteeTyped
  <2>3. \E a \in Accepted : life[a] = "unborn"
    BY <1>0, <2>1, RoomForConnection DEF CoreInv
  <2>4. /\ Busy' = Busy /\ cur' = cur /\ pc'[w] = "onaccept"
        /\ \A v \in Workers \ {w} : pc'[v] = pc[v]
    <3>1. "onaccept" \in Stage \ {"wait"}
      BY DEF Stage
    <3>2. QED
      BY <1>0, <2>1, <3>1, GotoTyped DEF Goto
  <2>5. AcceptsSucceed'
    <3>1. \A r \in UserSockets : life'[r] = life[r]
      <4>1. /\ UserSockets \cap Accepted = {} /\ UserSockets \subseteq Sockets
        BY SocketIOAssumption DEF Sockets
      <4>2. PICK a \in Accepted : life' = [life EXCEPT ![a] = "live"]
        BY <1>0, <2>1, <2>2, <2>3, PostAcceptTyped
      <4>3. QED
        BY <1>0, <4>1, <4>2 DEF TypeOK
    <3>2. \A v \in Handling({"failed"})' : v \in Handling({"failed"}) /\ cur'[v] = cur[v]
      BY <2>4 DEF Handling
    <3>3. \A o \in ops' : o \in ops \/ o.sock = Sock(w)
      BY <2>1 DEF PostAcceptMsg, Posted, Op
    <3>4. \A o \in ops' : o.sock \in Servers =>
            \/ o \in ops /\ life'[o.sock] = life[o.sock]
            \/ life'[o.sock] # "deleted"
      BY <2>1, <2>2, <3>1, <3>3 DEF UserSockets
    <3>5. QED
      BY <2>1, <3>2, <3>4, AcceptsKept
  <2>6. ASSUME "acceptex" \notin Faults
        PROVE  (Listens => Listens') /\ (NoneLost => NoneLost')
    <3>1. /\ \A r \in UserSockets : life'[r] = life[r]
          /\ Held' = Held \cup {Op(Sock(w), NextBlk)} /\ NextBlk \notin Late
          /\ DOMAIN blocks' = DOMAIN blocks \cup {NextBlk} /\ NextBlk \notin DOMAIN blocks
      <4>1. NextBlk \notin DOMAIN blocks
        BY <1>0 DEF TypeOK, NextBlk
      <4>2. QED
        BY <2>1, <2>2, <2>3, <2>4, <2>6, <4>1, PostAcceptServes
    <3>2. Late' = Late \cup {Blk(w)}
      <4>1. \A v : Blk(v)' = Blk(v)
        BY <2>4 DEF Blk
      <4>2. Handling(AfterPost)' = Handling(AfterPost) \cup {w}
        BY <2>4 DEF Handling, AfterPost
      <4>3. QED
        BY <4>1, <4>2 DEF Late
    <3>3. Op(Sock(w), NextBlk).sock = Sock(w) /\ Op(Sock(w), NextBlk).blk = NextBlk
      BY DEF Op
    <3>4. Blk(w) \in DOMAIN blocks
      BY <1>0, <2>1, Working
    <3>5. ASSUME Listens PROVE Listens'
      <4> SUFFICES ASSUME NEW s \in Servers, user'[s] = "added", life'[s] = "live"
                   PROVE  \E h \in Held' : h.sock = s /\ h.blk \notin Late'
        BY DEF Listens
      <4>1. CASE s = Sock(w)
        BY <3>1, <3>2, <3>3, <3>4, <4>1
      <4>2. CASE s # Sock(w)
        <5>1. life[s] = "live" /\ user[s] = "added"
          BY <2>1, <3>1 DEF UserSockets
        <5>2. PICK h \in Held : h.sock = s /\ h.blk \notin Late
          BY <3>5, <5>1 DEF Listens
        <5>3. h # Op(Sock(w), Blk(w))
          BY <4>2, <5>2 DEF Op
        <5>4. Op(Sock(w), Blk(w)) \in Held /\ Op(Sock(w), Blk(w)).blk = Blk(w)
          BY <1>0, <2>1, Working DEF Op
        <5>5. h.blk # Blk(w)
          BY <1>0, <5>3, <5>4, HeldOnce
        <5>6. QED
          BY <3>1, <3>2, <5>2, <5>5
      <4>3. QED
        BY <4>1, <4>2
    <3>6. NoneLost => NoneLost'
      BY <1>0, <2>1, <3>1, NewIsHeld
    <3>7. QED
      BY <3>5, <3>6
  <2>7. QED
    BY <2>5, <2>6
<1>9. CASE OnAcceptSocket(w)
  <2>1. /\ w \in Busy /\ pc[w] = "onaccept" /\ UNCHANGED <<queue, user, released, life, freed>>
        /\ Goto(w, "setcb") \/ Goto(w, "done")
        /\ \/ NewRecvBlock /\ Posted(Acceptee(w))
           \/ "recv" \in Faults /\ UNCHANGED ops
           \/ UNCHANGED <<blocks, ops>>
    BY <1>9 DEF OnAcceptSocket, Step, userVars
  <2>2. /\ Busy' = Busy /\ cur' = cur
        /\ \A v \in Workers \ {w} : pc'[v] = pc[v]
        /\ pc'[w] \in AfterPost /\ pc'[w] # "failed" /\ pc[w] \in AfterPost
    <3>1. "setcb" \in Stage \ {"wait"} /\ "done" \in Stage \ {"wait"}
      BY DEF Stage
    <3>2. QED
      BY <1>0, <2>1, <3>1, GotoTyped DEF Goto, AfterPost
  <2>3. Acceptee(w) \in Accepted /\ Acceptee(w) \notin Servers /\ Acceptee(w) \in Sockets
    BY <1>0, <2>1, <2>2, AccepteeTyped, SocketIOAssumption DEF Sockets, UserSockets
  <2>4. CASE NewRecvBlock /\ Posted(Acceptee(w))
    <3>1. Held' = Held \cup {Op(Acceptee(w), NextBlk)}
      BY <1>0, <2>1, <2>2, <2>3, <2>4, Adding
    <3>2. \A o \in ops' : o.sock \in Servers => o \in ops
      BY <2>3, <2>4 DEF Posted, Op
    <3>3. AcceptsSucceed' /\ (Listens => Listens')
      BY <1>0, <2>1, <2>2, <3>1, <3>2, GoesServe
    <3>4. DOMAIN blocks' = DOMAIN blocks \cup {NextBlk}
      <4>1. NewBlock("RECV", NoSocket, BufSize) \in Block
        BY NewBlockTyped, SocketIOAssumption DEF OpType
      <4>2. QED
        BY <1>0, <2>4, <4>1, AppendBlock DEF NewRecvBlock
    <3>5. NoneLost => NoneLost'
      BY <1>0, <2>1, <3>1, <3>4, NewIsHeld
    <3>6. QED
      BY <3>3, <3>5
  <2>5. CASE UNCHANGED ops
    <3>1. Held' = Held
      BY <1>0, <2>1, <2>2, <2>5, Staying
    <3>2. /\ AcceptsSucceed' /\ (Listens => Listens')
          /\ NoneLost /\ DOMAIN blocks' = DOMAIN blocks => NoneLost'
      BY <1>0, <2>1, <2>2, <2>5, <3>1, GoesServe
    <3>3. OnlyServes => blocks' = blocks \/ (NewRecvBlock /\ Posted(Acceptee(w)))
      BY <2>1 DEF OnlyServes
    <3>4. QED
      BY <2>4, <3>2, <3>3
  <2>6. QED
    BY <2>1, <2>4, <2>5
<1>10. CASE SetDataHandleFunc(w) \/ FirstChunk(w)
  <2>1. /\ w \in Busy /\ pc[w] \in {"setcb", "first"} /\ (Goto(w, "first") \/ Goto(w, "done"))
        /\ UNCHANGED <<life, blocks, freed, ops, queue, user, released>>
    BY <1>10 DEF SetDataHandleFunc, FirstChunk, Step, heap, userVars
  <2>2. /\ Busy' = Busy /\ cur' = cur
        /\ \A v \in Workers \ {w} : pc'[v] = pc[v]
        /\ pc'[w] # "failed" /\ pc[w] \in AfterPost
    <3>1. "first" \in Stage \ {"wait"} /\ "done" \in Stage \ {"wait"}
      BY DEF Stage
    <3>2. QED
      BY <1>0, <2>1, <3>1, GotoTyped DEF Goto, AfterPost
  <2>3. Held' = Held
    BY <1>0, <2>1, <2>2, Staying
  <2>4. QED
    BY <1>0, <2>1, <2>2, <2>3, GoesServe
<1>11. CASE AcceptDone(w)
  <2>1. /\ w \in Busy /\ pc[w] \in AfterPost /\ Loop(w) /\ DeleteBlock(Blk(w))
        /\ UNCHANGED <<life, blocks, ops, queue, user, released>>
    BY <1>11 DEF AcceptDone, Step, userVars, AfterPost
  <2>2. QED
    BY <1>0, <2>1, EndsServe
<1>12. QED
  BY <1>1, <1>2, <1>3, <1>4, <1>5, <1>6, <1>7, <1>8, <1>9, <1>10, <1>11 DEF Handler

\* The kernel completes an accept of a server as a success only.
LEMMA KernelServes ==
    ASSUME CoreInv, "acceptAbort" \notin Faults, AcceptsSucceed, Kernel
    PROVE  /\ AcceptsSucceed'
           /\ Listens => Listens'
           /\ NoneLost => NoneLost'
<1>0. TypeOK /\ Linear /\ SockInv /\ OnePlace
  BY DEF CoreInv, Linear
<1>1. PICK o \in ops : AcceptArrives(o) \/ RecvArrives(o) \/ SendCompletes(o) \/ Aborts(o)
  BY DEF Kernel
<1>2. /\ o \in Held /\ o.sock \in Sockets /\ o.blk \in DOMAIN blocks /\ blocks[o.blk] \in Block
      /\ o.sock \in Servers <=> OpOf(o) = "START_ACCEPT"
  <2>1. o \in Held
    BY DEF Held
  <2>2. QED
    BY <1>0, <2>1 DEF Linear, Alive, SockInv, Fits, TypeOK
<1>3. PICK ok \in BOOLEAN, bytes \in Nat, chunk \in Nat :
        Complete(o, ok, bytes, chunk) /\ (o.sock \in Servers => ok)
  <2>1. CASE AcceptArrives(o)
    BY <2>1 DEF AcceptArrives
  <2>2. CASE RecvArrives(o)
    <3>1. arrived[o.sock] + 1 \in Nat
      BY <1>0, <1>2, SocketIOAssumption DEF TypeOK
    <3>2. Complete(o, TRUE, 1, arrived[o.sock] + 1) \/ Complete(o, TRUE, 0, 0)
      BY <2>2 DEF RecvArrives
    <3>3. QED
      BY <3>1, <3>2
  <2>3. CASE SendCompletes(o)
    <3>1. PICK n \in 0 .. blocks[o.blk].len : Complete(o, TRUE, n, 0)
      BY <2>3 DEF SendCompletes
    <3>2. n \in Nat
      BY <1>2, <3>1, SocketIOAssumption DEF Block
    <3>3. QED
      BY <3>1, <3>2
  <2>4. CASE Aborts(o)
    <3>1. Complete(o, FALSE, 0, 0) /\ ~released
      BY <2>4 DEF Aborts, Complete
    <3>2. o.sock \in Servers => life[o.sock] # "deleted"
      BY <3>1 DEF AcceptsSucceed
    <3>3. o.sock \notin Servers
      BY <1>2, <2>4, <3>2 DEF Aborts
    <3>4. QED
      BY <3>1, <3>3
  <2>5. QED
    BY <1>1, <2>1, <2>2, <2>3, <2>4
<1>4. DEFINE p == [ok |-> ok, bytes |-> bytes, chunk |-> chunk, sock |-> o.sock, blk |-> o.blk]
<1>5. p \in Packet /\ p.sock = o.sock /\ p.blk = o.blk /\ p.ok = ok
  BY <1>2, <1>0 DEF Packet, TypeOK
<1>6. /\ ops' = ops \ {o} /\ queue' = Append(queue, p)
      /\ UNCHANGED <<life, blocks, freed, pc, cur, user, released>>
  BY <1>3 DEF Complete, heap, userVars
<1> HIDE DEF p
<1>7. Held' = Held
  BY <1>0, <1>5, <1>6, Completing
<1>8. Late' = Late
  BY <1>6 DEF Late, Handling, Blk
<1>9. AcceptsSucceed'
  <2>1. \A i \in DOMAIN queue' :
          queue'[i] = p \/ (i \in DOMAIN queue /\ queue'[i] = queue[i])
    BY <1>0, <1>5, <1>6 DEF TypeOK
  <2>2. \A i \in DOMAIN queue' : ~queue'[i].ok => queue'[i].sock \notin Servers
    BY <1>3, <1>5, <2>1 DEF AcceptsSucceed
  <2>3. QED
    BY <1>6, <2>2 DEF AcceptsSucceed, Handling, Sock
<1>10. Listens => Listens'
  BY <1>6, <1>7, <1>8, ListensKept
<1>11. NoneLost => NoneLost'
  BY <1>6, <1>7 DEF NoneLost
<1>12. QED
  BY <1>9, <1>10, <1>11

\* The user posts an accept for every server it adds.
LEMMA UserServes ==
    ASSUME CoreInv, CoreInv', StartedLive, AcceptsSucceed, User
    PROVE  /\ AcceptsSucceed'
           /\ "acceptex" \notin Faults /\ Listens => Listens'
           /\ "acceptex" \notin Faults /\ OnlyServes /\ NoneLost => NoneLost'
<1>0. /\ TypeOK /\ Linear /\ SockInv /\ OnePlace
      /\ UserSockets \subseteq Sockets /\ Servers \cup Clients = UserSockets
      /\ UserSockets \cap Accepted = {} /\ Servers \cap Clients = {} /\ SameBlocks
  BY SocketIOAssumption, UserKeeps DEF CoreInv, Linear, Sockets, UserSockets, Kept, Moves
<1>1. UNCHANGED <<queue, pc, cur, freed>>
  BY DEF User, NewSocket, AddSocket, UserDelete, PostSendMsg, Release, heap
<1>2. Late' = Late /\ Busy' = Busy /\ (released => released')
  <2>1. Late' = Late /\ Busy' = Busy
    BY <1>1 DEF Late, Handling, Blk
  <2>2. released => released'
    BY DEF User, NewSocket, AddSocket, UserDelete, PostSendMsg, Release, userVars
  <2>3. QED
    BY <2>1, <2>2
<1>3. \A v \in Handling({"failed"})' : v \in Handling({"failed"}) /\ cur'[v] = cur[v]
  BY <1>1 DEF Handling
\* A step that posts nothing on a server.
<1>4. ASSUME Held \subseteq Held', \A o \in ops' : o.sock \in Servers => o \in ops,
             \A s \in Servers : user'[s] = "added" /\ life'[s] = "live" =>
                 user[s] = "added" /\ life[s] = "live",
             ~released' => \A s \in Servers : life'[s] = life[s] \/ life'[s] # "deleted"
      PROVE  /\ AcceptsSucceed'
             /\ Listens => Listens'
             /\ NoneLost /\ (\A b \in DOMAIN blocks' \ DOMAIN blocks : blocks'[b].op = "END_THREAD")
                => NoneLost'
  <2>1. AcceptsSucceed'
    BY <1>1, <1>2, <1>3, <1>4, AcceptsKept
  <2>2. Listens => Listens'
    BY <1>2, <1>4, ListensKept
  <2>3. NoneLost /\ (\A b \in DOMAIN blocks' \ DOMAIN blocks : blocks'[b].op = "END_THREAD")
        => NoneLost'
    BY <1>0, <1>1, <1>4 DEF NoneLost, SameBlocks
  <2>4. QED
    BY <2>1, <2>2, <2>3
<1>5. ASSUME NEW s \in UserSockets, NewSocket(s) \/ UserDelete(s)
      PROVE  AcceptsSucceed' /\ (Listens => Listens') /\ (NoneLost => NoneLost')
  <2>1. UNCHANGED <<ops, blocks>>
    BY <1>5 DEF NewSocket, UserDelete, heap
  <2>2. Held' = Held
    BY <1>0, <1>1, <1>2, <2>1, Staying
  <2>3. /\ \A r \in Servers \ {s} : user'[r] = user[r] /\ life'[r] = life[r]
        /\ user'[s] # "added" /\ (~released' => life'[s] # "deleted")
    BY <1>0, <1>5 DEF NewSocket, UserDelete, DeleteSocket, TypeOK
  <2>4. QED
    BY <1>4, <2>1, <2>2, <2>3
<1>6. CASE Release
  <2>1. /\ UNCHANGED <<ops, user, life>>
        /\ \A b \in DOMAIN blocks' \ DOMAIN blocks : blocks'[b].op = "END_THREAD"
    BY <1>0, <1>6, EndBlocks DEF Release
  <2>2. Held' = Held
    BY <1>0, <1>1, <1>2, <2>1, Staying
  <2>3. QED
    BY <1>4, <2>1, <2>2
<1>7. ASSUME NEW s \in Clients, NEW len \in SendLens, PostSendMsg(s, len)
      PROVE  AcceptsSucceed' /\ (Listens => Listens') /\ ~OnlyServes
  <2>1. UNCHANGED <<user, life>> /\ (Posted(s) \/ UNCHANGED ops)
    BY <1>7 DEF PostSendMsg, userVars
  <2>2. s \in Sockets /\ s \notin Servers
    BY <1>0
  <2>3. Held \subseteq Held'
    BY <1>0, <1>1, <1>2, <2>1, <2>2, Staying, Adding
  <2>4. \A o \in ops' : o.sock \in Servers => o \in ops
    BY <2>1, <2>2 DEF Posted, Op
  <2>5. QED
    BY <1>4, <2>1, <2>3, <2>4 DEF OnlyServes
<1>8. ASSUME NEW s \in UserSockets, AddSocket(s)
      PROVE  /\ AcceptsSucceed'
             /\ "acceptex" \notin Faults /\ Listens => Listens'
             /\ "acceptex" \notin Faults /\ OnlyServes /\ NoneLost => NoneLost'
  <2>1. /\ user[s] = "started" /\ s \in Sockets /\ released' = released
        /\ \A r \in UserSockets \ {s} : user'[r] = user[r]
        /\ user'[s] = IF ops' = ops THEN "failed" ELSE "added"
    BY <1>0, <1>8 DEF AddSocket, TypeOK
  <2>2. CASE s \in Clients /\ UNCHANGED life
    <3>1. s \notin Servers /\ ~OnlyServes
      BY <1>0, <2>2 DEF OnlyServes
    <3>2. Posted(s) \/ UNCHANGED ops
      BY <1>8, <3>1 DEF AddSocket
    <3>3. Held \subseteq Held'
      BY <1>0, <1>1, <1>2, <2>1, <3>2, Staying, Adding
    <3>4. \A o \in ops' : o.sock \in Servers => o \in ops
      BY <3>1, <3>2 DEF Posted, Op
    <3>5. \A r \in Servers : user'[r] = user[r]
      BY <1>0, <2>1, <3>1
    <3>6. QED
      BY <1>4, <2>2, <3>1, <3>3, <3>4, <3>5
  <2>3. CASE UNCHANGED <<life, ops, blocks>>
    <3>1. Held' = Held
      BY <1>0, <1>1, <1>2, <2>3, Staying
    <3>2. \A r \in Servers : user'[r] = "added" => user[r] = "added"
      BY <1>0, <2>1, <2>3
    <3>3. QED
      BY <1>4, <2>3, <3>1, <3>2
  <2>4. CASE s \in Servers /\ PostAcceptMsg(s)
    <3>1. \E a \in Accepted : life[a] = "unborn"
      BY <1>0, <2>1, <2>4, RoomForServer DEF CoreInv
    <3>2. life[s] = "live"
      BY <1>0, <2>1 DEF StartedLive
    <3>3. \A r \in UserSockets : life'[r] = life[r]
      <4>1. PICK a \in Accepted : life' = [life EXCEPT ![a] = "live"]
        BY <1>0, <2>4, <3>1, PostAcceptTyped
      <4>2. QED
        BY <1>0, <4>1 DEF TypeOK
    <3>4. AcceptsSucceed'
      <4>1. \A o \in ops' : o \in ops \/ o.sock = s
        BY <2>4 DEF PostAcceptMsg, Posted, Op
      <4>2. QED
        BY <1>0, <1>1, <1>2, <1>3, <3>2, <3>3, <4>1, AcceptsKept
    <3>5. ASSUME "acceptex" \notin Faults PROVE (Listens => Listens') /\ (NoneLost => NoneLost')
      <4>1. /\ Held' = Held \cup {Op(s, NextBlk)} /\ NextBlk \notin Late
            /\ DOMAIN blocks' = DOMAIN blocks \cup {NextBlk}
        BY <1>1, <1>2, <2>4, <3>1, <3>5, PostAcceptServes
      <4>2. ASSUME Listens PROVE Listens'
        <5> SUFFICES ASSUME NEW r \in Servers, user'[r] = "added", life'[r] = "live"
                     PROVE  \E h \in Held' : h.sock = r /\ h.blk \notin Late'
          BY DEF Listens
        <5>1. CASE r = s
          <6>1. Op(s, NextBlk).sock = s /\ Op(s, NextBlk).blk = NextBlk
            BY DEF Op
          <6>2. QED
            BY <1>2, <4>1, <5>1, <6>1
        <5>2. CASE r # s
          BY <1>0, <1>2, <2>1, <3>3, <4>1, <4>2, <5>2 DEF Listens
        <5>3. QED
          BY <5>1, <5>2
      <4>3. NoneLost => NoneLost'
        BY <1>0, <1>1, <4>1, NewIsHeld
      <4>4. QED
        BY <4>2, <4>3
    <3>6. QED
      BY <3>4, <3>5
  <2>5. QED
    BY <1>8, <2>2, <2>3, <2>4 DEF AddSocket
<1>9. CASE \E s \in UserSockets : NewSocket(s) \/ AddSocket(s) \/ UserDelete(s)
  <2>1. PICK s \in UserSockets : NewSocket(s) \/ AddSocket(s) \/ UserDelete(s)
    BY <1>9
  <2>2. CASE NewSocket(s) \/ UserDelete(s)
    BY <1>5, <2>2
  <2>3. CASE AddSocket(s)
    BY <1>8, <2>3
  <2>4. QED
    BY <2>1, <2>2, <2>3
<1>10. CASE \E s \in Clients, len \in SendLens : PostSendMsg(s, len)
  BY <1>7, <1>10
<1>11. QED
  BY <1>6, <1>9, <1>10 DEF User

-----------------------------------------------------------------------------
\* A server that was added never stops listening, whatever else fails and however
\* many workers and clients there are, unless AcceptEx or a pending accept fails:
\* PostAcceptMsg is the first thing its handler does (ioloop.cpp:161-164).
THEOREM ListeningGoesOn ==
    ASSUME "acceptex" \notin Faults, "acceptAbort" \notin Faults
    PROVE  Spec => []KeepsListening
<1> DEFINE ServeInv == AcceptsSucceed /\ Listens
<1>1. Init => ServeInv
  <2> SUFFICES ASSUME Init PROVE ServeInv
    OBVIOUS
  <2>1. DOMAIN queue = {} /\ ops = {} /\ Handling({"failed"}) = {}
    BY DEF Init, Handling
  <2>2. \A s \in Servers : user[s] # "added"
    BY DEF Init, UserSockets
  <2>3. QED
    BY <2>1, <2>2 DEF AcceptsSucceed, Listens
<1>2. CoreInv /\ CoreInv' /\ LifeInv /\ ServeInv /\ [Next]_vars => ServeInv'
  <2> SUFFICES ASSUME CoreInv, CoreInv', LifeInv, ServeInv, [Next]_vars PROVE ServeInv'
    OBVIOUS
  <2>1. CASE User
    BY <2>1, UserServes DEF LifeInv
  <2>2. CASE Kernel
    BY <2>2, KernelServes
  <2>3. ASSUME NEW w \in Workers, Handler(w) PROVE ServeInv'
    BY <2>3, HandlerServes
  <2>4. CASE UNCHANGED vars
    <3>1. UNCHANGED <<life, user, ops, queue, pc, cur, released>>
      BY <2>4 DEF vars, userVars
    <3>2. QED
      BY <3>1 DEF AcceptsSucceed, Listens, Handling, Held, Late, Sock, Blk, Op
  <2>5. QED
    BY <2>1, <2>2, <2>3, <2>4 DEF Next, WorkerStep
<1>3. CoreInv /\ ServeInv => KeepsListening
  <2> SUFFICES ASSUME CoreInv, Listens, NEW s \in Servers, user[s] = "added", life[s] = "live"
               PROVE  AcceptsUnderWay(s) = 1
    BY DEF KeepsListening
  <2>1. \E h \in Held : h.sock = s /\ h.blk \notin Late
    BY DEF Listens
  <2>2. QED
    BY <2>1, AcceptCount
<1> HIDE DEF ServeInv
<1>4. QED
  BY <1>1, <1>2, <1>3, CoreHolds, LifeHolds, PTL DEF Spec

\* Only Release makes END_THREAD blocks.
LEMMA EndsKept ==
    ASSUME CoreInv, EndsWithRelease, [Next]_vars
    PROVE  EndsWithRelease'
<1>0. TypeOK /\ SockInv /\ Linear
  BY DEF CoreInv
<1>1. CASE Next
  <2>1. SameBlocks /\ (released => released')
    <3>1. released => released'
      BY <1>1 DEF Next, WorkerStep, User, Kernel, Handler, NewSocket, AddSocket, UserDelete,
               PostSendMsg, Release, AcceptArrives, RecvArrives, SendCompletes, Aborts, Complete,
               Dequeue, TouchesDeleted, Step, HandleFailed, HandleZero, HandleSend, HandleRecv,
               Repost, HandleAccept, OnAcceptSocket, SetDataHandleFunc, FirstChunk, AcceptDone,
               userVars
    <3>2. QED
      BY <1>1, <3>1, StepMoves DEF Kept, Moves
  <2>2. CASE Release
    BY <2>2 DEF Release, EndsWithRelease
  <2>3. ASSUME \A b \in DOMAIN blocks' \ DOMAIN blocks : blocks'[b].op # "END_THREAD"
        PROVE  EndsWithRelease'
    BY <2>1, <2>3 DEF EndsWithRelease, SameBlocks
  <2>4. ASSUME NEW b \in Block, b.op # "END_THREAD", blocks' = Append(blocks, b)
        PROVE  EndsWithRelease'
    BY <1>0, <2>3, <2>4, AppendBlock
  <2>5. ASSUME NewRecvBlock PROVE EndsWithRelease'
    <3>1. NewBlock("RECV", NoSocket, BufSize) \in Block
      BY NewBlockTyped, SocketIOAssumption DEF OpType
    <3>2. QED
      BY <2>4, <2>5, <3>1 DEF NewRecvBlock, NewBlock
  <2>6. ASSUME NEW s, PostAcceptMsg(s), \E a \in Accepted : life[a] = "unborn"
        PROVE  EndsWithRelease'
    <3>1. PICK a \in Accepted : blocks' = Append(blocks, NewBlock("START_ACCEPT", a, 0))
      BY <2>6 DEF PostAcceptMsg
    <3>2. NewBlock("START_ACCEPT", a, 0) \in Block
      BY NewBlockTyped, SocketIOAssumption DEF OpType
    <3>3. QED
      BY <2>4, <3>1, <3>2 DEF NewBlock
  <2>7. CASE DOMAIN blocks' = DOMAIN blocks
    BY <2>3, <2>7
  <2>8. CASE User
    <3>1. ASSUME NEW s \in UserSockets, AddSocket(s) PROVE EndsWithRelease'
      <4>1. CASE s \in Servers /\ PostAcceptMsg(s)
        BY <1>0, <2>6, <3>1, <4>1, RoomForServer DEF CoreInv, AddSocket
      <4>2. CASE NewRecvBlock \/ UNCHANGED blocks
        BY <2>5, <2>7, <4>2
      <4>3. QED
        BY <3>1, <4>1, <4>2 DEF AddSocket
    <3>2. ASSUME NEW s \in Clients, NEW len \in SendLens, PostSendMsg(s, len)
          PROVE  EndsWithRelease'
      <4>1. CASE blocks' = Append(blocks, NewBlock("SEND", NoSocket, len))
        <5>1. NewBlock("SEND", NoSocket, len) \in Block
          BY NewBlockTyped, SocketIOAssumption DEF OpType
        <5>2. QED
          BY <2>4, <4>1, <5>1 DEF NewBlock
      <4>2. QED
        BY <2>7, <3>2, <4>1 DEF PostSendMsg
    <3>3. ASSUME NEW s \in UserSockets, NewSocket(s) \/ UserDelete(s) PROVE EndsWithRelease'
      BY <2>7, <3>3 DEF NewSocket, UserDelete, heap
    <3>4. QED
      BY <2>2, <2>8, <3>1, <3>2, <3>3 DEF User
  <2>9. CASE Kernel
    BY <2>7, <2>9 DEF Kernel, AcceptArrives, RecvArrives, SendCompletes, Aborts, Complete, heap
  <2>10. ASSUME NEW w \in Workers, Handler(w) PROVE EndsWithRelease'
    <3>1. CASE HandleAccept(w)
      <4>1. w \in Busy /\ pc[w] = "START_ACCEPT" /\ life[Sock(w)] # "deleted"
            /\ PostAcceptMsg(Sock(w))
        BY <3>1 DEF HandleAccept, Step, Touches
      <4>2. \E a \in Accepted : life[a] = "unborn"
        BY <1>0, <4>1, RoomForConnection DEF CoreInv
      <4>3. QED
        BY <2>6, <4>1, <4>2
    <3>2. CASE OnAcceptSocket(w)
      BY <2>5, <2>7, <3>2 DEF OnAcceptSocket
    <3>3. CASE ~HandleAccept(w) /\ ~OnAcceptSocket(w)
      <4>1. blocks' = blocks \/ \E b, r : blocks' = [blocks EXCEPT ![b] = r]
        BY <2>10, <3>3 DEF Handler, Dequeue, TouchesDeleted, HandleFailed, HandleZero, HandleSend,
                  HandleRecv, Repost, SetDataHandleFunc, FirstChunk, AcceptDone, heap
      <4>2. QED
        BY <2>7, <4>1
    <3>4. QED
      BY <3>1, <3>2, <3>3
  <2>11. QED
    BY <1>1, <2>8, <2>9, <2>10 DEF Next, WorkerStep
<1>2. CASE UNCHANGED vars
  BY <1>2 DEF vars, heap, userVars, EndsWithRelease
<1>3. QED
  BY <1>1, <1>2

\* In a process that only serves, the deletes of ServerWorkThread are enough as long
\* as the loop runs (ioloop.cpp:99-180): every PER_IO_DATA is deleted or still in
\* use, unless an accept or a WSARecv fails at once; what Release loses are the
\* END_THREAD blocks (ioloop.cpp:65) alone, besides what it leaves held for ever.
THEOREM BlocksAreNotLost ==
    ASSUME Clients = {}, "acceptex" \notin Faults, "acceptAbort" \notin Faults,
           "recv" \notin Faults
    PROVE  Spec => []LeaksOnlyAtRelease
<1> DEFINE AllInv == AcceptsSucceed /\ NoneLost /\ EndsWithRelease
<1>1. Init => AllInv
  <2> SUFFICES ASSUME Init PROVE AllInv
    OBVIOUS
  <2>1. DOMAIN queue = {} /\ ops = {} /\ Handling({"failed"}) = {} /\ DOMAIN blocks = {}
    BY DEF Init, Handling
  <2>2. QED
    BY <2>1 DEF AcceptsSucceed, NoneLost, EndsWithRelease
<1>2. CoreInv /\ CoreInv' /\ LifeInv /\ AllInv /\ [Next]_vars => AllInv'
  <2> SUFFICES ASSUME CoreInv, CoreInv', LifeInv, AllInv, [Next]_vars PROVE AllInv'
    OBVIOUS
  <2>0. OnlyServes /\ EndsWithRelease'
    BY EndsKept DEF OnlyServes
  <2>1. CASE User
    BY <2>0, <2>1, UserServes DEF LifeInv
  <2>2. CASE Kernel
    BY <2>0, <2>2, KernelServes
  <2>3. ASSUME NEW w \in Workers, Handler(w) PROVE AllInv'
    BY <2>0, <2>3, HandlerServes
  <2>4. CASE UNCHANGED vars
    <3>1. UNCHANGED <<life, blocks, freed, ops, queue, pc, cur, released>>
      BY <2>4 DEF vars, userVars, heap
    <3>2. QED
      BY <2>0, <3>1 DEF AcceptsSucceed, NoneLost, Handling, Held, Sock, Blk, Op
  <2>5. QED
    BY <2>1, <2>2, <2>3, <2>4 DEF Next, WorkerStep
<1>3. CoreInv /\ AllInv => LeaksOnlyAtRelease
  BY HolderCount DEF NoneLost, EndsWithRelease, LeaksOnlyAtRelease
<1> HIDE DEF AllInv
<1>4. QED
  BY <1>1, <1>2, <1>3, CoreHolds, LifeHolds, PTL DEF Spec

-----------------------------------------------------------------------------
(***************************************************************************)
(* No worker overtakes the accept handler of another: any number of them   *)
(* is safe.                                                                *)
(***************************************************************************)
\* No client sockets, and no connection that is accepted without data: that one
\* deletes its server (ioloop.cpp:115-119).
Serves == Clients = {} /\ "acceptEof" \notin Faults

LEMMA OrderlyHolds == OrderlySpec => Spec /\ []Orderly
<1>1. Init => Orderly
  <2> SUFFICES ASSUME Init PROVE Orderly
    OBVIOUS
  <2>1. \A w \in Workers : pc[w] = "wait"
    BY DEF Init
  <2>2. \A s \in Servers : user[s] = "none"
    BY DEF Init, UserSockets
  <2>3. QED
    BY <2>1, <2>2 DEF Orderly, HaveCallbacks, Overtakes
<1>2. Orderly /\ [Next /\ Orderly']_vars => Orderly'
  <2> SUFFICES ASSUME Orderly, UNCHANGED vars PROVE Orderly'
    OBVIOUS
  <2>1. UNCHANGED <<user, cb, pc, cur, blocks>>
    BY DEF vars, heap, userVars
  <2>2. QED
    BY <2>1 DEF Orderly, HaveCallbacks, Overtakes, Sock, Acceptee, Blk
<1>3. [Next /\ Orderly']_vars => [Next]_vars
  OBVIOUS
<1>4. QED
  BY <1>1, <1>2, <1>3, PTL DEF OrderlySpec, Spec

\* Only the user deletes a server, and only after Release.
ServersKept ==
    \A s \in Servers :
        /\ life[s] = "deleted" => user[s] = "deleted"
        /\ user[s] = "deleted" => released

\* What completes with zero bytes is not an accept.
ZeroesReceive ==
    /\ \A i \in DOMAIN queue : queue[i].ok /\ queue[i].bytes = 0 => queue[i].sock \notin Servers
    /\ \A w \in Handling({"zero"}) : Sock(w) \notin Servers

\* A connection has the callback of its server when its first receive completes,
\* unless the worker that accepted it is just about to set it (ioloop.cpp:168-169).
Ready ==
    /\ \A h \in Held : OpOf(h) = "RECV" =>
        cb[h.sock] = "user" \/ \E w \in Handling({"setcb"}) : Acceptee(w) = h.sock
    /\ \A w \in Handling({"setcb", "first"}) : life[Acceptee(w)] = "live"
    /\ \A w \in Handling({"first"}) : cb[Acceptee(w)] = "user"

\* The inductive invariant: nothing undefined has happened, and will not next.
SafeInv == fault = "none" /\ ServersKept /\ ZeroesReceive /\ Ready

\* What a step of w leaves to the other workers: their stage, socket and connection.
OthersRest(w) == \A v \in Workers \ {w} : pc'[v] = pc[v] /\ cur'[v] = cur[v]

LEMMA OthersSame ==
    ASSUME CoreInv, Moves, NEW w \in Workers, OthersRest(w), NEW v \in Workers \ {w}
    PROVE  /\ pc'[v] = pc[v] /\ cur'[v] = cur[v]
           /\ pc[v] # "wait" => Sock(v)' = Sock(v) /\ Acceptee(v)' = Acceptee(v)
<1>0. TypeOK /\ Linear
  BY DEF CoreInv
<1>1. pc'[v] = pc[v] /\ cur'[v] = cur[v]
  BY DEF OthersRest
<1>2. ASSUME pc[v] # "wait" PROVE Sock(v)' = Sock(v) /\ Acceptee(v)' = Acceptee(v)
  <2>1. Blk(v) \in DOMAIN blocks
    BY <1>0, <1>2, Working
  <2>2. QED
    BY <1>1, <2>1 DEF Sock, Acceptee, Blk, Moves, SameBlocks
<1>3. QED
  BY <1>1, <1>2

\* What is ready for the other workers and for what is held stays so: w deletes its
\* own socket only, and nobody has taken a completion of their connections.
LEMMA ReadyOthers ==
    ASSUME CoreInv, Moves, Orderly, Ready, NEW w \in Workers, OthersRest(w),
           \A s \in Sockets : life[s] # "unborn" => cb'[s] = cb[s] \/ cb'[s] = "user",
           \A s \in Accepted : life[s] = "live" =>
               life'[s] = "live" \/ (pc[w] # "wait" /\ s = Sock(w))
    PROVE  /\ \A v \in Handling({"setcb", "first"})' \ {w} : life'[Acceptee(v)'] = "live"
           /\ \A v \in Handling({"first"})' \ {w} : cb'[Acceptee(v)'] = "user"
           /\ \A h \in Held : OpOf(h)' = "RECV" =>
                 \/ cb'[h.sock] = "user"
                 \/ \E v \in Handling({"setcb"})' \ {w} : Acceptee(v)' = h.sock
                 \/ pc[w] = "setcb" /\ Acceptee(w) = h.sock
<1>0. TypeOK /\ Linear /\ SockInv /\ StageInv /\ Accepted \subseteq Sockets
  BY DEF CoreInv, Sockets
<1>1. ASSUME NEW v \in Workers \ {w}, pc'[v] \in {"setcb", "first"}
      PROVE  /\ pc[v] = pc'[v] /\ Acceptee(v)' = Acceptee(v) /\ Acceptee(v) \in Accepted
             /\ life[Acceptee(v)] = "live" /\ life'[Acceptee(v)] = "live"
  <2>1. pc[v] = pc'[v] /\ v \in Busy /\ Acceptee(v)' = Acceptee(v)
    BY <1>1, OthersSame
  <2>2. Acceptee(v) \in Accepted
    BY <1>0, <1>1, <2>1, AccepteeTyped DEF AfterPost
  <2>3. life[Acceptee(v)] = "live"
    BY <1>1, <2>1 DEF Ready, Handling
  <2>4. ~Overtakes(w, v)
    BY DEF Orderly
  <2>5. QED
    BY <1>1, <2>1, <2>2, <2>3, <2>4 DEF Overtakes
<1>2. \A v \in Handling({"setcb", "first"})' \ {w} : life'[Acceptee(v)'] = "live"
  BY <1>1 DEF Handling
<1>3. \A v \in Handling({"first"})' \ {w} : cb'[Acceptee(v)'] = "user"
  <2> SUFFICES ASSUME NEW v \in Workers \ {w}, pc'[v] = "first"
               PROVE  cb'[Acceptee(v)'] = "user"
    BY DEF Handling
  <2>1. /\ pc[v] = "first" /\ Acceptee(v)' = Acceptee(v) /\ Acceptee(v) \in Sockets
        /\ life[Acceptee(v)] # "unborn"
    BY <1>0, <1>1
  <2>2. cb[Acceptee(v)] = "user"
    BY <2>1 DEF Ready, Handling
  <2>3. QED
    BY <2>1, <2>2
<1>4. ASSUME NEW h \in Held, OpOf(h)' = "RECV"
      PROVE  \/ cb'[h.sock] = "user"
             \/ \E v \in Handling({"setcb"})' \ {w} : Acceptee(v)' = h.sock
             \/ pc[w] = "setcb" /\ Acceptee(w) = h.sock
  <2>1. h.blk \in DOMAIN blocks /\ h.sock \in Sockets
    BY <1>0 DEF Linear, Alive
  <2>2. OpOf(h) = "RECV" /\ life[h.sock] # "unborn"
    BY <1>0, <1>4, <2>1 DEF Moves, SameBlocks, OpOf, SockInv, Fits
  <2>3. CASE cb[h.sock] = "user"
    BY <2>1, <2>2, <2>3
  <2>4. ASSUME NEW v \in Handling({"setcb"}), Acceptee(v) = h.sock
        PROVE  \/ \E u \in Handling({"setcb"})' \ {w} : Acceptee(u)' = h.sock
               \/ pc[w] = "setcb" /\ Acceptee(w) = h.sock
    <3>1. CASE v = w
      BY <2>4, <3>1 DEF Handling
    <3>2. CASE v # w
      <4>1. v \in Workers \ {w} /\ pc[v] = "setcb"
        BY <3>2 DEF Handling
      <4>2. pc'[v] = "setcb" /\ Acceptee(v)' = h.sock
        BY <2>4, <4>1, OthersSame
      <4>3. QED
        BY <4>1, <4>2 DEF Handling
    <3>3. QED
      BY <3>1, <3>2
  <2>5. QED
    BY <2>2, <2>3, <2>4 DEF Ready
<1>5. QED
  BY <1>2, <1>3, <1>4

\* A step that neither posts a receive nor leaves an accept handler half done.
LEMMA ReadyKept ==
    ASSUME CoreInv, Moves, Orderly, Ready, NEW w \in Workers, OthersRest(w),
           pc[w] # "setcb", pc'[w] \notin {"setcb", "first"},
           \A h \in Held' \ Held : OpOf(h)' # "RECV",
           \A s \in Sockets : life[s] # "unborn" => cb'[s] = cb[s],
           \A s \in Accepted : life[s] = "live" =>
               life'[s] = "live" \/ (pc[w] # "wait" /\ s = Sock(w))
    PROVE  Ready'
<1>1. w \notin Handling({"setcb", "first"})' /\ w \notin Handling({"first"})'
  BY DEF Handling
<1>2. /\ \A v \in Handling({"setcb", "first"})' \ {w} : life'[Acceptee(v)'] = "live"
      /\ \A v \in Handling({"first"})' \ {w} : cb'[Acceptee(v)'] = "user"
      /\ \A h \in Held : OpOf(h)' = "RECV" =>
            \/ cb'[h.sock] = "user"
            \/ \E v \in Handling({"setcb"})' \ {w} : Acceptee(v)' = h.sock
            \/ pc[w] = "setcb" /\ Acceptee(w) = h.sock
  BY ReadyOthers
<1>3. QED
  BY <1>1, <1>2 DEF Ready

\* A step of a worker that leaves the servers alone.
LEMMA ServersStay ==
    ASSUME ServersKept, UNCHANGED <<user, released>>,
           \A s \in Servers : life'[s] = life[s] \/ life'[s] # "deleted"
    PROVE  ServersKept'
BY DEF ServersKept

\* A step that takes no packet.
LEMMA ZeroesStay ==
    ASSUME ZeroesReceive, NEW w \in Workers, queue' = queue,
           \A v \in Workers \ {w} : pc'[v] = pc[v] /\ cur'[v] = cur[v],
           pc'[w] # "zero" \/ UNCHANGED <<pc, cur>>
    PROVE  ZeroesReceive'
BY DEF ZeroesReceive, Handling, Sock

\* Whichever worker makes it.
LEMMA HandlerSafe ==
    ASSUME Serves, CoreInv, CoreInv', Moves, LifeInv, Orderly, SafeInv,
           NEW w \in Workers, Handler(w)
    PROVE  SafeInv'
<1>0. /\ TypeOK /\ Linear /\ SockInv /\ StageInv /\ OnePlace /\ HeldLive /\ Serving
      /\ fault = "none" /\ ServersKept /\ ZeroesReceive /\ Ready
      /\ Servers \subseteq Sockets /\ Accepted \subseteq Sockets /\ Servers \cap Accepted = {}
  BY SocketIOAssumption
  DEF CoreInv, Linear, LifeInv, SafeInv, Serving, Serves, Sockets, UserSockets
<1>1. CASE Dequeue(w)
  <2>1. /\ pc[w] = "wait" /\ queue # <<>> /\ queue' = Tail(queue)
        /\ cur' = [cur EXCEPT ![w] = Head(queue)]
        /\ UNCHANGED <<life, cb, blocks, ops, user, released, fault>>
    BY <1>1 DEF Dequeue, heap, userVars
  <2>2. /\ Head(queue) = queue[1] /\ 1 \in DOMAIN queue
        /\ \A i \in DOMAIN queue' : i + 1 \in DOMAIN queue /\ queue'[i] = queue[i + 1]
    BY <1>0, <2>1 DEF TypeOK
  <2>3. PICK stage \in {"failed", "zero"} \cup OpType :
          /\ pc' = [pc EXCEPT ![w] = stage]
          /\ stage = "zero" => Head(queue).ok /\ Head(queue).bytes = 0
    BY <1>0, <1>1, DequeueStage
  <2>4. /\ \A v \in Workers \ {w} : pc'[v] = pc[v] /\ cur'[v] = cur[v]
        /\ pc'[w] = stage /\ cur'[w] = Head(queue)
    BY <1>0, <2>1, <2>3 DEF TypeOK
  <2>5. Held' \subseteq Held
    BY <2>1, NothingNew
  <2>6. stage \notin {"setcb", "first"} /\ OthersRest(w)
    BY <2>3, <2>4 DEF OpType, OthersRest
  <2>7. Ready'
    BY <1>0, <2>1, <2>4, <2>5, <2>6, ReadyKept
  <2>8. ServersKept'
    BY <1>0, <2>1, ServersStay
  <2>9. ZeroesReceive'
    <3>1. \A i \in DOMAIN queue' :
            queue'[i].ok /\ queue'[i].bytes = 0 => queue'[i].sock \notin Servers
      BY <1>0, <2>2 DEF ZeroesReceive
    <3>2. \A v \in Handling({"zero"})' : Sock(v)' \notin Servers
      BY <1>0, <2>2, <2>3, <2>4 DEF ZeroesReceive, Handling, Sock
    <3>3. QED
      BY <3>1, <3>2 DEF ZeroesReceive
  <2>10. QED
    BY <1>0, <2>1, <2>7, <2>8, <2>9 DEF SafeInv
<1>2. CASE TouchesDeleted(w)
  <2>1. pc[w] \in {"setcb", "first"} /\ w \in Busy
    BY <1>0, <1>2, MeetsLive
  <2>2. Acceptee(w) \in Accepted /\ Sock(w) \in Servers
    BY <1>0, <2>1, AccepteeTyped DEF AfterPost
  <2>3. life[Acceptee(w)] # "deleted"
    BY <1>0, <2>1 DEF Ready, Handling
  <2>4. life[Sock(w)] # "deleted"
    BY <1>0, <2>1, <2>2 DEF ServersKept, StageInv, Quiescent
  <2>5. \A s \in Touches(w) : s = Sock(w) \/ s = Acceptee(w)
    BY <2>1 DEF Touches
  <2>6. QED
    BY <1>2, <2>3, <2>4, <2>5 DEF TouchesDeleted
<1>3. ASSUME w \in Busy, Loop(w), UNCHANGED <<queue, user, released, cb, fault>>,
             pc[w] # "setcb", DOMAIN blocks' = DOMAIN blocks,
             life' = life \/ (DeleteSocket(Sock(w)) /\ Sock(w) \notin Servers)
      PROVE  SafeInv'
  <2>1. /\ pc'[w] = "wait"
        /\ \A v \in Workers \ {w} : pc'[v] = pc[v] /\ cur'[v] = cur[v]
    BY <1>0, <1>3, LoopTyped DEF Loop, TypeOK
  <2>2. Held' \subseteq Held
    BY <1>3, NothingNew
  <2>3. Ready'
    <3>1. \A s \in Accepted : life[s] = "live" => life'[s] = "live" \/ s = Sock(w)
      BY <1>0, <1>3 DEF DeleteSocket, TypeOK
    <3>2. QED
      BY <1>0, <1>3, <2>1, <2>2, <3>1, ReadyKept DEF OthersRest
  <2>4. \A s \in Servers : life'[s] = life[s]
    BY <1>0, <1>3 DEF DeleteSocket, TypeOK
  <2>5. ServersKept'
    BY <1>0, <1>3, <2>4, ServersStay
  <2>6. ZeroesReceive'
    BY <1>0, <1>3, <2>1, ZeroesStay
  <2>7. QED
    BY <1>0, <1>3, <2>3, <2>5, <2>6 DEF SafeInv
<1>4. CASE HandleFailed(w)
  <2>1. /\ w \in Busy /\ pc[w] = "failed" /\ Loop(w)
        /\ UNCHANGED <<queue, user, released, cb, fault, blocks>>
        /\ life' = life \/ (DeleteSocket(Sock(w)) /\ Sock(w) \in Accepted)
    BY <1>4 DEF HandleFailed, Step, userVars
  <2>2. QED
    BY <1>0, <1>3, <2>1
<1>5. CASE HandleZero(w)
  <2>1. /\ w \in Busy /\ pc[w] = "zero" /\ Loop(w)
        /\ UNCHANGED <<queue, user, released, cb, fault, blocks>>
        /\ DeleteSocket(Sock(w))
    BY <1>5 DEF HandleZero, Step, userVars
  <2>2. Sock(w) \notin Servers
    BY <1>0, <2>1 DEF ZeroesReceive, Handling
  <2>3. QED
    BY <1>3, <2>1, <2>2
<1>6. CASE HandleSend(w)
  <2>1. pc[w] = "SEND" /\ w \in Busy
    BY <1>6 DEF HandleSend, Step
  <2>2. OpOf(cur[w]) = "SEND"
    BY <1>0, <2>1 DEF StageInv, StageFits
  <2>3. Op(Sock(w), Blk(w)) \in Held /\ OpOf(Op(Sock(w), Blk(w))) = "SEND"
    BY <1>0, <2>1, <2>2, Working DEF OpOf, Op
  <2>4. QED
    BY <1>0, <2>3 DEF SockInv, Fits, Serves
<1>7. CASE HandleRecv(w)
  <2>1. /\ w \in Busy /\ pc[w] = "RECV" /\ UNCHANGED <<blocks, ops, queue, user, released, cb>>
        /\ OnRecvMsg(w, Sock(w))
    BY <1>7 DEF HandleRecv, Step, userVars
  <2>2. cb[Sock(w)] = "user"
    <3>1. OpOf(cur[w]) = "RECV"
      BY <1>0, <2>1 DEF StageInv, StageFits
    <3>2. PICK h \in Held : h.sock = Sock(w) /\ OpOf(h) = "RECV"
      BY <1>0, <2>1, <3>1, Working DEF OpOf, Op
    <3>3. \A v \in Handling({"setcb"}) : Acceptee(v) # Sock(w)
      BY <2>1 DEF Orderly, Overtakes, Handling
    <3>4. QED
      BY <1>0, <3>2, <3>3 DEF Ready
  <2>3. fault' = "none" /\ Goto(w, "repost") /\ UNCHANGED life
    BY <1>0, <1>7, <2>1, <2>2 DEF HandleRecv, OnRecvMsg
  <2>4. /\ Busy' = Busy /\ cur' = cur /\ pc'[w] = "repost"
        /\ \A v \in Workers \ {w} : pc'[v] = pc[v]
    <3>1. "repost" \in Stage \ {"wait"}
      BY DEF Stage
    <3>2. QED
      BY <1>0, <2>1, <2>3, <3>1, GotoTyped DEF Goto
  <2>5. Held' \subseteq Held
    BY <2>1, NothingNew
  <2>6. Ready' /\ ServersKept' /\ ZeroesReceive'
    BY <1>0, <2>1, <2>3, <2>4, <2>5, ReadyKept, ServersStay, ZeroesStay DEF OthersRest
  <2>7. QED
    BY <2>3, <2>6 DEF SafeInv
<1>8. CASE Repost(w)
  <2>1. /\ w \in Busy /\ pc[w] = "repost" /\ Loop(w)
        /\ UNCHANGED <<queue, user, released, cb, fault, blocks>>
        /\ life' = life \/ DeleteSocket(Sock(w))
    BY <1>8 DEF Repost, Step, userVars
  <2>2. Sock(w) \notin Servers
    BY <2>1, ServesAccepts DEF AfterPost
  <2>3. QED
    BY <1>3, <2>1, <2>2
<1>9. CASE HandleAccept(w)
  <2>1. /\ w \in Busy /\ pc[w] = "START_ACCEPT" /\ PostAcceptMsg(Sock(w)) /\ Goto(w, "onaccept")
        /\ UNCHANGED <<queue, user, released, fault>>
    BY <1>9 DEF HandleAccept, Step, userVars
  <2>2. Sock(w) \in Servers /\ Sock(w) \in Sockets
    BY <1>0, <2>1, AccepteeTyped
  <2>3. PICK a \in Accepted :
          /\ life[a] = "unborn" /\ life' = [life EXCEPT ![a] = "live"]
          /\ \A s \in Sockets \ {a} : cb'[s] = cb[s]
          /\ blocks' = Append(blocks, NewBlock("START_ACCEPT", a, 0))
          /\ NewBlock("START_ACCEPT", a, 0) \in Block
          /\ Posted(Sock(w)) \/ UNCHANGED ops
    <3>1. \E a \in Accepted : life[a] = "unborn"
      BY <1>0, <2>1, RoomForConnection DEF CoreInv
    <3>2. QED
      BY <1>0, <2>1, <2>2, <3>1, PostAcceptTyped
  <2>4. /\ Busy' = Busy /\ cur' = cur /\ pc'[w] = "onaccept"
        /\ \A v \in Workers \ {w} : pc'[v] = pc[v]
    <3>1. "onaccept" \in Stage \ {"wait"}
      BY DEF Stage
    <3>2. QED
      BY <1>0, <2>1, <3>1, GotoTyped DEF Goto
  <2>5. \A h \in Held' \ Held : OpOf(h)' # "RECV"
    <3>1. Held' \subseteq Held \cup {Op(Sock(w), NextBlk)}
      BY <1>0, <2>1, <2>2, <2>3, <2>4, Adding, Staying
    <3>2. blocks'[NextBlk] = NewBlock("START_ACCEPT", a, 0)
      BY <1>0, <2>3, AppendBlock
    <3>3. QED
      BY <3>1, <3>2 DEF Op, OpOf, NewBlock
  <2>6. Ready'
    <3>1. \A s \in Accepted : life[s] = "live" => life'[s] = "live"
      BY <1>0, <2>3 DEF TypeOK
    <3>2. QED
      BY <1>0, <2>1, <2>3, <2>4, <2>5, <3>1, ReadyKept DEF OthersRest
  <2>7. ServersKept'
    <3>1. \A s \in Servers : life'[s] = life[s]
      BY <1>0, <2>3 DEF TypeOK
    <3>2. QED
      BY <1>0, <2>1, <3>1, ServersStay
  <2>8. ZeroesReceive'
    BY <1>0, <2>1, <2>4, ZeroesStay
  <2>9. QED
    BY <1>0, <2>1, <2>6, <2>7, <2>8 DEF SafeInv
<1>10. ASSUME w \in Busy, NEW stage \in {"setcb", "first", "done"}, Goto(w, stage),
              UNCHANGED <<queue, user, released, life, fault>>
       PROVE  /\ Ready' => SafeInv'
              /\ Busy' = Busy /\ pc'[w] = stage /\ cur' = cur /\ OthersRest(w)
  <2>1. /\ Busy' = Busy /\ cur' = cur /\ pc'[w] = stage
        /\ \A v \in Workers \ {w} : pc'[v] = pc[v]
    <3>1. stage \in Stage \ {"wait"}
      BY DEF Stage
    <3>2. QED
      BY <1>0, <1>10, <3>1, GotoTyped DEF Goto
  <2>2. ServersKept'
    BY <1>0, <1>10, ServersStay
  <2>3. ZeroesReceive'
    BY <1>0, <1>10, <2>1, ZeroesStay
  <2>4. QED
    BY <1>0, <1>10, <2>1, <2>2, <2>3 DEF SafeInv, OthersRest
<1>11. CASE OnAcceptSocket(w)
  <2>1. /\ w \in Busy /\ pc[w] = "onaccept"
        /\ UNCHANGED <<queue, user, released, fault, life, cb>>
        /\ \/ Goto(w, "setcb") /\ NewRecvBlock /\ Posted(Acceptee(w))
           \/ Goto(w, "done") /\ (NewRecvBlock \/ UNCHANGED blocks) /\ UNCHANGED ops
    BY <1>11 DEF OnAcceptSocket, Step, userVars
  <2>2. /\ Acceptee(w) \in Accepted /\ Sock(w) \in Servers
        /\ Blk(w) \in DOMAIN blocks /\ Op(Sock(w), Blk(w)) \in Held
    BY <1>0, <2>1, AccepteeTyped, Working DEF AfterPost
  <2>3. CASE Goto(w, "done") /\ UNCHANGED ops
    <3>1. pc'[w] = "done" /\ Busy' = Busy /\ cur' = cur /\ OthersRest(w) /\ (Ready' => SafeInv')
      BY <1>10, <2>1, <2>3
    <3>2. Held' = Held
      BY <1>0, <2>1, <2>3, <3>1, Staying
    <3>3. Ready'
      BY <1>0, <2>1, <3>1, <3>2, ReadyKept
    <3>4. QED
      BY <3>1, <3>3
  <2>4. CASE Goto(w, "setcb") /\ NewRecvBlock /\ Posted(Acceptee(w))
    <3>1. pc'[w] = "setcb" /\ Busy' = Busy /\ cur' = cur /\ OthersRest(w) /\ (Ready' => SafeInv')
      BY <1>10, <2>1, <2>4
    <3>2. Held' = Held \cup {Op(Acceptee(w), NextBlk)}
      BY <1>0, <2>1, <2>2, <2>4, <3>1, Adding
    <3>3. Acceptee(w)' = Acceptee(w)
      BY <1>0, <2>2, <3>1 DEF Moves, SameBlocks, Acceptee, Blk
    <3>4. w \in Handling({"setcb"})' /\ w \notin Handling({"first"})'
      BY <3>1 DEF Handling
    <3>5. life'[Acceptee(w)] = "live"
      <4>1. PICK g \in Held : g.sock = Sock(w) /\ g.blk = Blk(w)
        BY <2>2 DEF Op
      <4>2. g.blk \notin Attached /\ ~released
        BY <1>0, <2>1, <4>1 DEF Attached, Handling, OnePlace, AfterAttach, StageInv, Quiescent
      <4>3. OpOf(g) = "START_ACCEPT" /\ blocks[g.blk].accepts = Acceptee(w)
        BY <1>0, <2>1, <4>1, AccepteeTyped DEF OpOf, Acceptee, AfterPost
      <4>4. QED
        BY <1>0, <2>1, <4>1, <4>2, <4>3 DEF HeldLive
    <3>6. /\ \A v \in Handling({"setcb", "first"})' \ {w} : life'[Acceptee(v)'] = "live"
          /\ \A v \in Handling({"first"})' \ {w} : cb'[Acceptee(v)'] = "user"
          /\ \A h \in Held : OpOf(h)' = "RECV" =>
                \/ cb'[h.sock] = "user"
                \/ \E v \in Handling({"setcb"})' \ {w} : Acceptee(v)' = h.sock
                \/ pc[w] = "setcb" /\ Acceptee(w) = h.sock
      BY <1>0, <2>1, <3>1, ReadyOthers
    <3>7. Op(Acceptee(w), NextBlk).sock = Acceptee(w)
      BY DEF Op
    <3>8. Ready'
      BY <2>1, <3>2, <3>3, <3>4, <3>5, <3>6, <3>7 DEF Ready
    <3>9. QED
      BY <3>1, <3>8
  <2>5. QED
    BY <2>1, <2>3, <2>4
<1>12. CASE SetDataHandleFunc(w)
  <2>1. /\ w \in Busy /\ pc[w] = "setcb" /\ Goto(w, "first")
        /\ UNCHANGED <<queue, user, released, fault, life, blocks, ops>>
        /\ cb' = [cb EXCEPT ![Acceptee(w)] = cb[Sock(w)]]
    BY <1>12 DEF SetDataHandleFunc, Step, userVars, heap
  <2>2. Acceptee(w) \in Accepted /\ Sock(w) \in Servers /\ Op(Sock(w), Blk(w)) \in Held
    BY <1>0, <2>1, AccepteeTyped, Working DEF AfterPost
  <2>3. cb[Sock(w)] = "user"
    BY <1>0, <2>2 DEF SockInv, Fits, Op, Orderly, HaveCallbacks, UserSockets
  <2>4. cb'[Acceptee(w)] = "user" /\ \A s \in Sockets \ {Acceptee(w)} : cb'[s] = cb[s]
    BY <1>0, <2>1, <2>2, <2>3 DEF TypeOK
  <2>5. pc'[w] = "first" /\ Busy' = Busy /\ cur' = cur /\ OthersRest(w) /\ (Ready' => SafeInv')
    BY <1>10, <2>1
  <2>6. Held' = Held /\ Acceptee(w)' = Acceptee(w)
    BY <1>0, <2>1, <2>5, Staying DEF Acceptee, Blk
  <2>7. /\ \A v \in Handling({"setcb", "first"})' \ {w} : life'[Acceptee(v)'] = "live"
        /\ \A v \in Handling({"first"})' \ {w} : cb'[Acceptee(v)'] = "user"
        /\ \A h \in Held : OpOf(h)' = "RECV" =>
              \/ cb'[h.sock] = "user"
              \/ \E v \in Handling({"setcb"})' \ {w} : Acceptee(v)' = h.sock
              \/ pc[w] = "setcb" /\ Acceptee(w) = h.sock
    <3>1. \A s \in Sockets : cb'[s] = cb[s] \/ cb'[s] = "user"
      BY <2>4
    <3>2. QED
      BY <1>0, <2>1, <2>5, <3>1, ReadyOthers
  <2>8. life'[Acceptee(w)'] = "live"
    BY <1>0, <2>1, <2>6 DEF Ready, Handling
  <2>9. Ready'
    BY <2>4, <2>6, <2>7, <2>8 DEF Ready
  <2>10. QED
    BY <2>5, <2>9
<1>13. CASE FirstChunk(w)
  <2>1. /\ w \in Busy /\ pc[w] = "first" /\ Goto(w, "done") /\ OnRecvMsg(w, Acceptee(w))
        /\ UNCHANGED <<queue, user, released, life, blocks, ops, cb>>
    BY <1>13 DEF FirstChunk, Step, userVars, heap
  <2>2. cb[Acceptee(w)] = "user"
    BY <1>0, <2>1 DEF Ready, Handling
  <2>3. fault' = fault
    BY <2>1, <2>2 DEF OnRecvMsg
  <2>4. pc'[w] = "done" /\ OthersRest(w) /\ (Ready' => SafeInv')
    BY <1>10, <2>1, <2>3
  <2>5. Held' \subseteq Held
    BY <2>1, NothingNew
  <2>6. Ready'
    BY <1>0, <2>1, <2>4, <2>5, ReadyKept
  <2>7. QED
    BY <2>4, <2>6
<1>14. CASE AcceptDone(w)
  <2>1. /\ w \in Busy /\ pc[w] = "done" /\ Loop(w)
        /\ UNCHANGED <<queue, user, released, cb, fault, blocks, life>>
    BY <1>14 DEF AcceptDone, Step, userVars
  <2>2. QED
    BY <1>3, <2>1
<1>15. QED
  BY <1>1, <1>2, <1>4, <1>5, <1>6, <1>7, <1>8, <1>9, <1>11, <1>12, <1>13, <1>14 DEF Handler

\* The kernel completes an accept with data.
LEMMA KernelSafe ==
    ASSUME Serves, CoreInv, CoreInv', Moves, SafeInv, Kernel
    PROVE  SafeInv'
<1>0. TypeOK /\ Linear /\ SockInv /\ ServersKept /\ ZeroesReceive /\ Ready /\ fault = "none"
  BY DEF CoreInv, SafeInv
<1>1. PICK o \in ops : AcceptArrives(o) \/ RecvArrives(o) \/ SendCompletes(o) \/ Aborts(o)
  BY DEF Kernel
<1>2. o.sock \in Servers <=> OpOf(o) = "START_ACCEPT"
  BY <1>0 DEF SockInv, Fits, Held
<1>3. UNCHANGED <<life, cb, blocks, freed, pc, cur, user, released, fault>>
  BY <1>1 DEF AcceptArrives, RecvArrives, SendCompletes, Aborts, Complete, heap, userVars
<1>4. Ready'
  <2>1. Held' \subseteq Held
    BY <1>3, NothingNew
  <2>2. QED
    BY <1>0, <1>3, <2>1 DEF Ready, OpOf, Acceptee, Blk, Handling
<1>5. ServersKept'
  BY <1>0, <1>3 DEF ServersKept
<1>6. PICK p : /\ queue' = Append(queue, p)
               /\ p.ok /\ p.bytes = 0 => p.sock \notin Servers
  <2>1. ASSUME NEW ok, NEW bytes, NEW chunk, Complete(o, ok, bytes, chunk),
               ok /\ bytes = 0 => o.sock \notin Servers
        PROVE  \E p : /\ queue' = Append(queue, p)
                      /\ p.ok /\ p.bytes = 0 => p.sock \notin Servers
    BY <2>1 DEF Complete
  <2>2. CASE AcceptArrives(o)
    <3>1. Complete(o, TRUE, 1, 1)
      BY <2>2 DEF AcceptArrives, Serves
    <3>2. 1 # 0
      OBVIOUS
    <3>3. QED
      BY <2>1, <3>1, <3>2
  <2>3. CASE RecvArrives(o)
    BY <1>2, <2>1, <2>3 DEF RecvArrives
  <2>4. CASE SendCompletes(o)
    BY <1>2, <2>1, <2>4 DEF SendCompletes
  <2>5. CASE Aborts(o)
    BY <2>1, <2>5 DEF Aborts
  <2>6. QED
    BY <1>1, <2>2, <2>3, <2>4, <2>5
<1>7. ZeroesReceive'
  <2>1. \A i \in DOMAIN queue' :
          queue'[i] = p \/ (i \in DOMAIN queue /\ queue'[i] = queue[i])
    BY <1>0, <1>6 DEF TypeOK
  <2>2. \A i \in DOMAIN queue' :
          queue'[i].ok /\ queue'[i].bytes = 0 => queue'[i].sock \notin Servers
    BY <1>0, <1>6, <2>1 DEF ZeroesReceive
  <2>3. QED
    BY <1>0, <1>3, <2>2 DEF ZeroesReceive, Handling, Sock
<1>8. QED
  BY <1>0, <1>3, <1>4, <1>5, <1>7 DEF SafeInv

\* The user adds servers, and deletes them after Release.
LEMMA UserSafe ==
    ASSUME Serves, CoreInv, CoreInv', Moves, LifeInv, SafeInv, User
    PROVE  SafeInv'
<1>0. /\ TypeOK /\ Linear /\ SockInv /\ StageInv /\ OnePlace /\ StartedLive
      /\ ServersKept /\ ZeroesReceive /\ Ready /\ fault = "none"
      /\ UserSockets = Servers /\ Servers \subseteq Sockets /\ Accepted \subseteq Sockets
      /\ Servers \cap Accepted = {}
  BY SocketIOAssumption DEF CoreInv, Linear, LifeInv, SafeInv, Serves, Sockets, UserSockets
<1>1. UNCHANGED <<queue, pc, cur, freed>>
  BY DEF User, NewSocket, AddSocket, UserDelete, PostSendMsg, Release, heap
<1>2. ZeroesReceive'
  BY <1>0, <1>1 DEF ZeroesReceive, Handling, Sock
<1>3. /\ \A w \in Handling({"setcb", "first"}) :
             Acceptee(w) \in Accepted /\ Acceptee(w)' = Acceptee(w)
      /\ \A stages : Handling(stages)' = Handling(stages)
  <2>1. \A w \in Handling({"setcb", "first"}) : w \in Busy /\ Acceptee(w) \in Accepted
    BY <1>0, AccepteeTyped DEF Handling, AfterPost
  <2>2. \A w \in Busy : Blk(w) \in DOMAIN blocks /\ Blk(w)' = Blk(w)
    BY <1>0, <1>1, Working DEF Blk
  <2>3. QED
    BY <1>1, <2>1, <2>2 DEF Moves, SameBlocks, Handling, Acceptee
<1>4. ASSUME \A h \in Held' \ Held : OpOf(h)' # "RECV",
             \A h \in Held : OpOf(h) = "RECV" => cb'[h.sock] = cb[h.sock],
             \A a \in Accepted : life[a] # "unborn" => life'[a] = life[a] /\ cb'[a] = cb[a]
      PROVE  Ready'
  <2>1. \A h \in Held' : OpOf(h)' = "RECV" =>
          cb'[h.sock] = "user" \/ \E w \in Handling({"setcb"}) : Acceptee(w) = h.sock
    <3>1. \A h \in Held : OpOf(h)' = OpOf(h)
      BY <1>0 DEF Linear, Alive, Moves, SameBlocks, OpOf
    <3>2. QED
      BY <1>0, <1>4, <3>1 DEF Ready
  <2>2. Handling({"setcb"}) \subseteq Handling({"setcb", "first"})
        /\ Handling({"first"}) \subseteq Handling({"setcb", "first"})
    BY DEF Handling
  <2>3. \A w \in Handling({"setcb", "first"}) : life'[Acceptee(w)] = "live"
    BY <1>0, <1>3, <1>4 DEF Ready
  <2>4. \A w \in Handling({"first"}) : cb'[Acceptee(w)] = "user"
    BY <1>0, <1>3, <1>4, <2>2 DEF Ready
  <2>5. QED
    BY <1>3, <2>1, <2>2, <2>3, <2>4 DEF Ready
<1>5. ASSUME NEW s \in UserSockets, NewSocket(s) PROVE SafeInv'
  <2>1. /\ UNCHANGED <<ops, blocks, fault, released>> /\ user[s] = "none"
        /\ life' = [life EXCEPT ![s] = "live"] /\ user' = [user EXCEPT ![s] = "started"]
        /\ \A r \in Sockets \ {s} : cb'[r] = cb[r]
    BY <1>0, <1>5 DEF NewSocket, heap, TypeOK
  <2>2. Held' \subseteq Held
    BY <2>1, NothingNew
  <2>3. \A h \in Held : h.sock \in Sockets /\ h.sock # s
    BY <1>0, <2>1 DEF Linear, Alive, SockInv, Fits
  <2>4. Ready'
    <3>1. \A a \in Accepted : a # s /\ a \in Sockets
      BY <1>0
    <3>2. QED
      BY <1>0, <1>4, <2>1, <2>2, <2>3, <3>1 DEF TypeOK
  <2>5. ServersKept'
    BY <1>0, <2>1 DEF ServersKept, TypeOK
  <2>6. QED
    BY <1>0, <1>2, <2>1, <2>4, <2>5 DEF SafeInv
<1>6. ASSUME NEW s \in UserSockets, UserDelete(s) PROVE SafeInv'
  <2>1. /\ UNCHANGED <<ops, blocks, cb, released>> /\ released /\ user[s] # "deleted"
        /\ life' = [life EXCEPT ![s] = "deleted"] /\ user' = [user EXCEPT ![s] = "deleted"]
        /\ fault' = IF life[s] = "deleted" THEN "user" ELSE fault
    BY <1>6 DEF UserDelete, heap, DeleteSocket
  <2>2. fault' = "none"
    BY <1>0, <2>1 DEF ServersKept
  <2>3. Held' \subseteq Held
    BY <2>1, NothingNew
  <2>4. Ready'
    BY <1>0, <1>4, <2>1, <2>3 DEF TypeOK
  <2>5. ServersKept'
    <3>1. life'[s] = "deleted" /\ user'[s] = "deleted"
      BY <1>0, <1>6, <2>1 DEF TypeOK
    <3>2. \A r \in Servers \ {s} : life'[r] = life[r] /\ user'[r] = user[r]
      BY <1>0, <2>1 DEF TypeOK
    <3>3. QED
      BY <1>0, <2>1, <3>1, <3>2 DEF ServersKept
  <2>6. QED
    BY <1>2, <2>2, <2>4, <2>5 DEF SafeInv
<1>7. CASE Release
  <2>1. UNCHANGED <<ops, cb, life, user, fault>> /\ released'
    BY <1>7 DEF Release
  <2>2. Held' \subseteq Held
    BY <1>0, <1>1, <2>1, Staying
  <2>3. Ready'
    BY <1>4, <2>1, <2>2
  <2>4. ServersKept'
    BY <1>0, <2>1 DEF ServersKept
  <2>5. QED
    BY <1>0, <1>2, <2>1, <2>3, <2>4 DEF SafeInv
<1>8. ASSUME NEW s \in UserSockets, AddSocket(s) PROVE SafeInv'
  <2>1. /\ user[s] = "started" /\ UNCHANGED <<released, fault>>
        /\ \A r \in UserSockets \ {s} : user'[r] = user[r]
        /\ user'[s] \in {"failed", "added"}
        /\ PostAcceptMsg(s) \/ UNCHANGED <<life, cb, blocks, ops>>
    BY <1>0, <1>8 DEF AddSocket, TypeOK, Serves
  <2>2. CASE UNCHANGED <<life, cb, blocks, ops>>
    <3>1. Held' \subseteq Held
      BY <2>2, NothingNew
    <3>2. Ready'
      BY <1>4, <2>2, <3>1
    <3>3. ServersKept'
      BY <1>0, <2>1, <2>2 DEF ServersKept, StartedLive
    <3>4. QED
      BY <1>0, <1>2, <2>1, <3>2, <3>3 DEF SafeInv
  <2>3. CASE PostAcceptMsg(s)
    <3>1. PICK a \in Accepted :
            /\ life[a] = "unborn" /\ life' = [life EXCEPT ![a] = "live"]
            /\ \A r \in Sockets \ {a} : cb'[r] = cb[r]
            /\ blocks' = Append(blocks, NewBlock("START_ACCEPT", a, 0))
            /\ NewBlock("START_ACCEPT", a, 0) \in Block
            /\ Posted(s) \/ UNCHANGED ops
      <4>1. \E a \in Accepted : life[a] = "unborn"
        BY <1>0, <2>1, RoomForServer DEF CoreInv
      <4>2. QED
        BY <1>0, <2>3, <4>1, PostAcceptTyped
    <3>2. \A r \in Sockets \ {a} : life'[r] = life[r]
      BY <1>0, <3>1 DEF TypeOK
    <3>3. \A h \in Held' \ Held : OpOf(h)' # "RECV"
      <4>1. Held' \subseteq Held \cup {Op(s, NextBlk)}
        BY <1>0, <1>1, <3>1, Adding, Staying
      <4>2. blocks'[NextBlk] = NewBlock("START_ACCEPT", a, 0)
        BY <1>0, <3>1, AppendBlock
      <4>3. QED
        BY <4>1, <4>2 DEF Op, OpOf, NewBlock
    <3>4. \A h \in Held : h.sock \in Sockets /\ h.sock # a
      BY <1>0, <3>1 DEF Linear, Alive, SockInv, Fits
    <3>5. Ready'
      BY <1>0, <1>4, <3>1, <3>2, <3>3, <3>4
    <3>6. ServersKept'
      BY <1>0, <2>1, <3>1, <3>2 DEF ServersKept, StartedLive
    <3>7. QED
      BY <1>0, <1>2, <2>1, <3>5, <3>6 DEF SafeInv
  <2>4. QED
    BY <2>1, <2>2, <2>3
<1>9. CASE \E s \in UserSockets : NewSocket(s) \/ AddSocket(s) \/ UserDelete(s)
  BY <1>5, <1>6, <1>8, <1>9
<1>10. CASE \E s \in Clients, len \in SendLens : PostSendMsg(s, len)
  BY <1>10 DEF Serves
<1>11. QED
  BY <1>7, <1>9, <1>10 DEF User

\* With no clients, SafeInv holds whatever fails but an accept without data.
THEOREM SafeHolds == ASSUME Serves PROVE OrderlySpec => []SafeInv
<1>1. Init => SafeInv
  <2> SUFFICES ASSUME Init PROVE SafeInv
    OBVIOUS
  <2>1. /\ DOMAIN queue = {} /\ Held = {}
        /\ \A stages : Handling(stages) \subseteq {w \in Workers : "wait" \in stages}
    BY DEF Init, Held, Handling
  <2>2. ServersKept
    BY DEF Init, ServersKept, Sockets, UserSockets
  <2>3. QED
    BY <2>1, <2>2 DEF SafeInv, ZeroesReceive, Ready, Init, Handling
<1>2. CoreInv /\ CoreInv' /\ LifeInv /\ Orderly /\ SafeInv /\ [Next]_vars => SafeInv'
  <2> SUFFICES ASSUME CoreInv, CoreInv', LifeInv, Orderly, SafeInv, [Next]_vars PROVE SafeInv'
    OBVIOUS
  <2>1. CASE Next
    <3>1. Moves
      BY <2>1, StepMoves DEF Kept
    <3>2. ASSUME NEW w \in Workers, Handler(w) PROVE SafeInv'
      BY <3>1, <3>2, HandlerSafe
    <3>3. QED
      BY <2>1, <3>1, <3>2, KernelSafe, UserSafe DEF Next, WorkerStep
  <2>2. CASE UNCHANGED vars
    BY <2>2 DEF vars, heap, netVars, userVars, SafeInv, ServersKept, ZeroesReceive, Ready, Held,
               Handling, OpOf, Op, Sock, Blk, Acceptee
  <2>3. QED
    BY <2>1, <2>2
<1>3. QED
  BY <1>1, <1>2, CoreHolds, LifeHolds, OrderlyHolds, PTL DEF Spec

\* A process that only serves touches nothing deleted, calls no callback that was
\* never set, and writes past no buffer (ioloop.cpp:90-190), however many workers it
\* has and whatever fails but an accept without data, as long as its servers have
\* callbacks and no worker overtakes the accept handler of another: those are the
\* only ways to go wrong.
THEOREM NothingWild == ASSUME Serves PROVE OrderlySpec => []OrderlyIsSafe
<1>1. SafeInv => OrderlyIsSafe
  BY DEF SafeInv, OrderlyIsSafe
<1>2. QED
  BY <1>1, SafeHolds, PTL

-----------------------------------------------------------------------------
(***************************************************************************)
(* Each connection is a stream: what arrived is given to its callback in   *)
(* order and without a gap. The invariant says of every place a piece can  *)
(* be in how far the stream has come.                                      *)
(***************************************************************************)
\* Nothing has arrived for a, or only what came with the accept.
Unused(a) == arrived[a] = 0 /\ handed[a] = <<>>
Opened(a) == arrived[a] = 1 /\ handed[a] = <<>>
\* The handler of its accept has posted the first receive and still has the piece
\* that came with the accept (ioloop.cpp:168-175).
Owes(a) == \E w \in Handling({"setcb", "first"}) : Acceptee(w) = a
\* The pieces before those that a receive brings.
Behind(a) == Len(handed[a]) + IF Owes(a) THEN 1 ELSE 0
\* A packet that brings a piece.
Data(p) == p.ok /\ p.bytes # 0

\* A connection that was not created has no stream yet; an operation waits for the
\* next piece, a packet brings it, and a worker has it in hand.
Fresh == \A a \in Accepted : life[a] = "unborn" => Unused(a)
OpFlow(o) ==
    /\ OpOf(o) = "START_ACCEPT" => Unused(blocks[o.blk].accepts)
    /\ OpOf(o) = "RECV" => arrived[o.sock] = Behind(o.sock)
PacketFlow(p) == Data(p) =>
    /\ OpOf(p) = "START_ACCEPT" => p.chunk = 1 /\ Opened(blocks[p.blk].accepts)
    /\ OpOf(p) = "RECV" => p.chunk = Behind(p.sock) + 1 /\ p.chunk = arrived[p.sock]
WorkerFlow(w) ==
    /\ pc[w] \in {"START_ACCEPT", "onaccept"} => cur[w].chunk = 1 /\ Opened(Acceptee(w))
    /\ pc[w] \in {"setcb", "first"} =>
        cur[w].chunk = 1 /\ handed[Acceptee(w)] = <<>> /\ arrived[Acceptee(w)] > 0
    /\ pc[w] = "RECV" =>
        cur[w].chunk = Len(handed[Sock(w)]) + 1 /\ cur[w].chunk = arrived[Sock(w)]
    /\ pc[w] = "repost" => arrived[Sock(w)] = Len(handed[Sock(w)])

\* The inductive invariant.
StreamInv ==
    /\ Fresh
    /\ \A o \in ops : OpFlow(o)
    /\ \A i \in DOMAIN queue : PacketFlow(queue[i])
    /\ \A w \in Workers : WorkerFlow(w)

\* What is not with a worker.
Waiting == ops \cup {Op(queue[i].sock, queue[i].blk) : i \in DOMAIN queue}

\* The block of what waits is in no handler.
LEMMA Waits ==
    ASSUME CoreInv
    PROVE  /\ Waiting \subseteq Held
           /\ \A h \in Waiting :
               /\ h.blk \in DOMAIN blocks /\ h.sock \in Sockets
               /\ h.blk \notin Late /\ h.blk \notin Attached
               /\ \A w \in Busy : h.blk # Blk(w)
<1>0. TypeOK /\ Linear /\ OnePlace
  BY DEF CoreInv, Linear
<1>1. Waiting \subseteq Held
  BY DEF Waiting, Held
<1>2. \A s, b : Op(s, b).blk = b
  BY DEF Op
<1>3. \A h \in Waiting : \A w \in Busy : h.blk # Blk(w)
  BY <1>0, <1>2 DEF Waiting, OnePlace
<1>4. \A h \in Waiting : h.blk \notin Late /\ h.blk \notin Attached
  BY <1>3 DEF Late, Attached, Handling, AfterPost, AfterAttach
<1>5. QED
  BY <1>0, <1>1, <1>3, <1>4 DEF Linear, Alive

\* Who owes a piece to its connection.
LEMMA OwesKept ==
    ASSUME CoreInv, Moves, NEW w \in Workers, OthersRest(w), NEW a,
           pc[w] \in {"setcb", "first"} /\ Acceptee(w) = a <=>
               pc'[w] \in {"setcb", "first"} /\ Acceptee(w)' = a
    PROVE  Owes(a)' <=> Owes(a)
<1>1. \A v \in Workers \ {w} :
        pc'[v] \in {"setcb", "first"} /\ Acceptee(v)' = a <=>
            pc[v] \in {"setcb", "first"} /\ Acceptee(v) = a
  BY OthersSame
<1>2. \A v \in Workers :
        pc'[v] \in {"setcb", "first"} /\ Acceptee(v)' = a <=>
            pc[v] \in {"setcb", "first"} /\ Acceptee(v) = a
  BY <1>1
<1>3. QED
  BY <1>2 DEF Owes, Handling

\* What a step leaves alone.
LEMMA FlowKept ==
    ASSUME CoreInv, Moves, StreamInv, NEW W \in SUBSET Waiting,
           \A a \in Accepted : life'[a] = "unborn" =>
                arrived'[a] = arrived[a] /\ handed'[a] = handed[a],
           \A h \in W : OpOf(h) = "RECV" =>
                arrived'[h.sock] = arrived[h.sock] /\ Behind(h.sock)' = Behind(h.sock),
           \A h \in W : OpOf(h) = "START_ACCEPT" =>
                /\ arrived'[blocks[h.blk].accepts] = arrived[blocks[h.blk].accepts]
                /\ handed'[blocks[h.blk].accepts] = handed[blocks[h.blk].accepts]
    PROVE  /\ Fresh'
           /\ \A o \in ops \cap W : OpFlow(o)'
           /\ \A i \in DOMAIN queue : Op(queue[i].sock, queue[i].blk) \in W =>
                \A p : p = queue[i] => PacketFlow(p)'
<1>1. \A h \in W : /\ h.blk \in DOMAIN blocks
                   /\ OpOf(h)' = OpOf(h) /\ blocks'[h.blk].accepts = blocks[h.blk].accepts
  BY Waits DEF Moves, SameBlocks, OpOf
<1>2. Fresh'
  BY DEF StreamInv, Fresh, Moves, Unused, Sockets
<1>3. ASSUME NEW o \in ops \cap W PROVE OpFlow(o)'
  BY <1>1, <1>3 DEF StreamInv, OpFlow, Unused
<1>4. ASSUME NEW i \in DOMAIN queue, Op(queue[i].sock, queue[i].blk) \in W,
             NEW p, p = queue[i]
      PROVE  PacketFlow(p)'
  <2>1. PICK h \in W : h.sock = p.sock /\ h.blk = p.blk
    BY <1>4 DEF Op
  <2>2. OpOf(h) = OpOf(p) /\ OpOf(h)' = OpOf(p)'
    BY <2>1 DEF OpOf
  <2>3. PacketFlow(p)
    BY <1>4 DEF StreamInv
  <2>4. QED
    BY <1>1, <2>1, <2>2, <2>3 DEF PacketFlow, Opened, Data
<1>5. QED
  BY <1>2, <1>3, <1>4

\* The other workers: what moves is no stream of theirs.
LEMMA OthersFlow ==
    ASSUME CoreInv, Moves, StreamInv, NEW w \in Workers, OthersRest(w),
           NEW a, \A s \in Sockets \ {a} : arrived'[s] = arrived[s] /\ handed'[s] = handed[s],
           \/ arrived' = arrived /\ handed' = handed
           \/ \A v \in Busy \ {w} :
                /\ pc[v] \in {"RECV", "repost"} => Sock(v) # a
                /\ pc[v] \in {"START_ACCEPT", "onaccept", "setcb", "first"} => Acceptee(v) # a
    PROVE  \A v \in Workers \ {w} : WorkerFlow(v)'
<1> SUFFICES ASSUME NEW v \in Workers \ {w} PROVE WorkerFlow(v)'
  OBVIOUS
<1>0. TypeOK /\ Linear /\ SockInv /\ StageInv /\ Accepted \subseteq Sockets
  BY DEF CoreInv, Sockets
<1>1. pc'[v] = pc[v] /\ cur'[v] = cur[v]
  BY OthersSame
<1>2. CASE pc[v] = "wait"
  BY <1>1, <1>2 DEF WorkerFlow
<1>3. CASE pc[v] # "wait"
  <2>1. v \in Busy \ {w} /\ Sock(v)' = Sock(v) /\ Acceptee(v)' = Acceptee(v) /\ WorkerFlow(v)
    BY <1>3, OthersSame DEF StreamInv
  <2>2. CASE pc[v] \in {"RECV", "repost"}
    <3>1. Sock(v) \in Sockets
      BY <1>0, <2>1, Working
    <3>2. arrived'[Sock(v)] = arrived[Sock(v)] /\ handed'[Sock(v)] = handed[Sock(v)]
      BY <2>1, <2>2, <3>1
    <3>3. QED
      BY <1>1, <2>1, <2>2, <3>2 DEF WorkerFlow
  <2>3. CASE pc[v] \in {"START_ACCEPT", "onaccept", "setcb", "first"}
    <3>1. Acceptee(v) \in Sockets
      BY <1>0, <2>1, <2>3, AccepteeTyped DEF AfterPost
    <3>2. /\ arrived'[Acceptee(v)] = arrived[Acceptee(v)]
          /\ handed'[Acceptee(v)] = handed[Acceptee(v)]
      BY <2>1, <2>3, <3>1
    <3>3. QED
      BY <1>1, <2>1, <2>3, <3>2 DEF WorkerFlow, Opened
  <2>4. CASE pc[v] \notin {"RECV", "repost", "START_ACCEPT", "onaccept", "setcb", "first"}
    BY <1>1, <2>4 DEF WorkerFlow
  <2>5. QED
    BY <2>2, <2>3, <2>4
<1>4. QED
  BY <1>2, <1>3

\* A step of a worker that gives nothing and owes nothing.
LEMMA CalmStream ==
    ASSUME CoreInv, CoreInv', Moves, StreamInv, NEW w \in Workers, OthersRest(w),
           UNCHANGED <<arrived, handed>>,
           \A i \in DOMAIN queue' : \E j \in DOMAIN queue : queue'[i] = queue[j],
           pc[w] \notin {"setcb", "first"}, pc'[w] \notin {"setcb", "first"},
           \A o \in ops' \ ops : OpFlow(o)', WorkerFlow(w)'
    PROVE  StreamInv'
<1>1. \A a : Behind(a)' = Behind(a)
  BY OwesKept DEF Behind
<1>2. /\ Fresh' /\ \A o \in ops : OpFlow(o)'
      /\ \A i \in DOMAIN queue : \A p : p = queue[i] => PacketFlow(p)'
  <2>1. ops \subseteq Waiting /\ \A i \in DOMAIN queue : Op(queue[i].sock, queue[i].blk) \in Waiting
    BY DEF Waiting
  <2>2. QED
    BY <1>1, <2>1, FlowKept
<1>3. \A i \in DOMAIN queue' : PacketFlow(queue[i])'
  BY <1>2
<1>4. \A v \in Workers \ {w} : WorkerFlow(v)'
  BY OthersFlow
<1>5. QED
  BY <1>2, <1>3, <1>4 DEF StreamInv

\* A step of a worker that moves the stream of the connection a, or what it owes to it.
LEMMA MovesStream ==
    ASSUME CoreInv, CoreInv', Moves, StreamInv, NEW w \in Workers, OthersRest(w),
           queue' = queue, NEW a \in Accepted, life[a] # "unborn",
           \A s \in Sockets \ {a} : /\ arrived'[s] = arrived[s] /\ handed'[s] = handed[s]
                                    /\ Owes(s)' <=> Owes(s),
           \/ \A h \in Waiting : OpOf(h) = "RECV" => h.sock # a
           \/ arrived'[a] = arrived[a] /\ Behind(a)' = Behind(a),
           \/ \A h \in Waiting : OpOf(h) = "START_ACCEPT" => blocks[h.blk].accepts # a
           \/ arrived'[a] = arrived[a] /\ handed'[a] = handed[a],
           \/ arrived' = arrived /\ handed' = handed
           \/ \A v \in Busy \ {w} :
                /\ pc[v] \in {"RECV", "repost"} => Sock(v) # a
                /\ pc[v] \in {"START_ACCEPT", "onaccept", "setcb", "first"} => Acceptee(v) # a,
           \A o \in ops' \ ops : OpFlow(o)', WorkerFlow(w)'
    PROVE  StreamInv'
<1>0. Accepted \subseteq Sockets /\ \A s \in Sockets : life[s] # "unborn" => life'[s] # "unborn"
  BY DEF Sockets, Moves
<1>1. \A s \in Sockets \ {a} : Behind(s)' = Behind(s)
  BY DEF Behind
<1>2. \A h \in Waiting : OpOf(h) = "START_ACCEPT" => blocks[h.blk].accepts \in Sockets
  <2>1. SockInv
    BY DEF CoreInv
  <2>2. QED
    BY <1>0, <2>1, Waits DEF SockInv, Targets, OpOf
<1>3. /\ Fresh' /\ \A o \in ops : OpFlow(o)'
      /\ \A i \in DOMAIN queue : \A p : p = queue[i] => PacketFlow(p)'
  <2>1. ops \subseteq Waiting /\ \A i \in DOMAIN queue : Op(queue[i].sock, queue[i].blk) \in Waiting
    BY DEF Waiting
  <2>2. \A b \in Accepted :
          life'[b] = "unborn" => arrived'[b] = arrived[b] /\ handed'[b] = handed[b]
    BY <1>0
  <2>3. \A h \in Waiting : OpOf(h) = "RECV" =>
            arrived'[h.sock] = arrived[h.sock] /\ Behind(h.sock)' = Behind(h.sock)
    BY <1>1, Waits
  <2>4. \A h \in Waiting : OpOf(h) = "START_ACCEPT" =>
            /\ arrived'[blocks[h.blk].accepts] = arrived[blocks[h.blk].accepts]
            /\ handed'[blocks[h.blk].accepts] = handed[blocks[h.blk].accepts]
    BY <1>2
  <2>5. QED
    BY <2>1, <2>2, <2>3, <2>4, FlowKept
<1>4. \A i \in DOMAIN queue' : PacketFlow(queue[i])'
  BY <1>3
<1>5. \A v \in Workers \ {w} : WorkerFlow(v)'
  BY OthersFlow
<1>6. QED
  BY <1>3, <1>4, <1>5 DEF StreamInv

\* No other worker is busy with the connection whose callback a handler calls: two
\* receives of one connection are never under way, and no accept handler is
\* overtaken.
LEMMA NoOtherWorker ==
    ASSUME CoreInv, Orderly, NEW w \in Busy, NEW v \in Busy \ {w}
    PROVE  /\ pc[w] = "RECV" =>
                /\ pc[v] \in {"RECV", "repost"} => Sock(v) # Sock(w)
                /\ pc[v] \in {"START_ACCEPT", "onaccept", "setcb", "first"} => Acceptee(v) # Sock(w)
           /\ pc[w] = "first" =>
                /\ pc[v] \in {"RECV", "repost"} => Sock(v) # Acceptee(w)
                /\ pc[v] \in {"START_ACCEPT", "onaccept", "setcb", "first"} =>
                       Acceptee(v) # Acceptee(w)
<1>0. TypeOK /\ Linear /\ SockInv /\ StageInv /\ OnePlace
  BY DEF CoreInv, Linear
<1>1. PICK g \in Held : g.sock = Sock(w) /\ g.blk = Blk(w) /\ OpOf(g) = OpOf(cur[w])
  BY <1>0, Working DEF Op, OpOf
<1>2. PICK h \in Held : h.sock = Sock(v) /\ h.blk = Blk(v) /\ OpOf(h) = OpOf(cur[v])
  BY <1>0, Working DEF Op, OpOf
<1>3. Blk(v) # Blk(w) /\ Blk(v) \in DOMAIN blocks /\ Blk(w) \in DOMAIN blocks
  BY <1>0, Working DEF OnePlace
<1>4. ~Overtakes(v, w) /\ ~Overtakes(w, v)
  BY DEF Orderly
<1>5. ASSUME pc[w] = "RECV", pc[v] \in {"RECV", "repost"} PROVE Sock(v) # Sock(w)
  BY <1>0, <1>1, <1>2, <1>3, <1>5 DEF StageInv, StageFits, SockInv, OneEach
<1>6. ASSUME pc[w] = "RECV", pc[v] \in {"START_ACCEPT", "onaccept"} PROVE Acceptee(v) # Sock(w)
  <2>1. OpOf(h) = "START_ACCEPT" /\ blocks[h.blk].accepts = Acceptee(v)
    BY <1>0, <1>2, <1>6 DEF StageInv, StageFits, AfterPost, Acceptee
  <2>2. h.blk \notin Attached
    BY <1>0, <1>2, <1>6 DEF Attached, Handling, AfterAttach, OnePlace
  <2>3. QED
    BY <1>0, <1>1, <2>1, <2>2 DEF SockInv, Untouched
<1>7. ASSUME pc[w] = "RECV", pc[v] \in {"setcb", "first"} PROVE Acceptee(v) # Sock(w)
  BY <1>4, <1>7 DEF Overtakes
<1>8. ASSUME pc[w] = "first" PROVE Sock(v) # Acceptee(w)
  BY <1>4, <1>8 DEF Overtakes
<1>9. ASSUME pc[w] = "first", pc[v] \in {"START_ACCEPT", "onaccept", "setcb", "first"}
      PROVE  Acceptee(v) # Acceptee(w)
  <2>1. blocks[Blk(w)].op = "START_ACCEPT"
    BY <1>0, <1>9, AccepteeTyped DEF AfterPost
  <2>2. QED
    BY <1>0, <1>3, <2>1 DEF SockInv, Targets, Acceptee
<1>10. QED
  BY <1>5, <1>6, <1>7, <1>8, <1>9

\* What waits is not about the connection a handler is busy with.
LEMMA NobodyElse ==
    ASSUME CoreInv, NEW w \in Busy
    PROVE  /\ pc[w] = "RECV" =>
                /\ Sock(w) \in Sockets /\ OpOf(cur[w]) = "RECV" /\ Sock(w) \notin Servers
                /\ \A h \in Waiting : OpOf(h) = "RECV" => h.sock # Sock(w)
                /\ \A h \in Waiting : OpOf(h) = "START_ACCEPT" => blocks[h.blk].accepts # Sock(w)
           /\ pc[w] \in AfterPost =>
                \A h \in Waiting : OpOf(h) = "START_ACCEPT" => blocks[h.blk].accepts # Acceptee(w)
           /\ pc[w] = "onaccept" => \A h \in Waiting : h.sock # Acceptee(w)
<1>0. TypeOK /\ Linear /\ SockInv /\ StageInv
  BY DEF CoreInv
<1>1. PICK g \in Held : g.sock = Sock(w) /\ g.blk = Blk(w) /\ OpOf(g) = OpOf(cur[w])
  BY <1>0, Working DEF Op, OpOf
<1>2. \A h \in Waiting : h # g /\ h.blk # Blk(w) /\ h \in Held /\ h.blk \in DOMAIN blocks
                         /\ h.blk \notin Attached
  BY <1>1, Waits
<1>3. CASE pc[w] = "RECV"
  <2>1. OpOf(g) = "RECV"
    BY <1>0, <1>1, <1>3 DEF StageInv, StageFits
  <2>2. QED
    BY <1>0, <1>1, <1>2, <1>3, <2>1, Working DEF SockInv, Fits, OneEach, Untouched, AfterPost
<1>4. CASE pc[w] \in AfterPost
  <2>1. Blk(w) \in DOMAIN blocks /\ blocks[Blk(w)].op = "START_ACCEPT"
    BY <1>0, <1>4, Working, AccepteeTyped
  <2>2. \A h \in Waiting : OpOf(h) = "START_ACCEPT" => blocks[h.blk].accepts # Acceptee(w)
    BY <1>0, <1>2, <2>1 DEF SockInv, Targets, OpOf, Acceptee
  <2>3. CASE pc[w] = "onaccept"
    <3>1. g.blk \notin Attached
      <4>1. OnePlace
        BY <1>0 DEF Linear
      <4>2. QED
        BY <1>1, <2>3, <4>1 DEF Attached, Handling, AfterAttach, OnePlace
    <3>2. OpOf(g) = "START_ACCEPT" /\ blocks[g.blk].accepts = Acceptee(w)
      BY <1>1, <2>1 DEF OpOf, Acceptee
    <3>3. \A h \in Waiting : h.sock # Acceptee(w)
      BY <1>0, <1>2, <3>1, <3>2 DEF SockInv, Untouched
    <3>4. QED
      BY <1>4, <2>2, <2>3, <3>3 DEF AfterPost
  <2>4. CASE pc[w] # "onaccept"
    BY <1>4, <2>2, <2>4 DEF AfterPost
  <2>5. QED
    BY <2>3, <2>4
<1>5. CASE pc[w] # "RECV" /\ pc[w] \notin AfterPost
  BY <1>5 DEF AfterPost
<1>6. QED
  BY <1>3, <1>4, <1>5

\* What a handler gives to a callback is the next piece of its stream.
NextGiven(a) ==
    /\ a \in Accepted /\ ~released
    /\ Len(handed[a]) < arrived[a]
    /\ handed' = [handed EXCEPT ![a] = Append(@, Len(@) + 1)]

\* HandleRecv gives the next piece: a receive is posted again only after its piece
\* was given (ioloop.cpp:149-150).
LEMMA RecvGives ==
    ASSUME Serves, CoreInv, Orderly, SafeInv, StreamInv, NEW w \in Workers, HandleRecv(w)
    PROVE  NextGiven(Sock(w)) /\ Goto(w, "repost") /\ UNCHANGED <<life, freed>>
<1>0. TypeOK /\ SockInv /\ StageInv
  BY DEF CoreInv
<1>1. w \in Busy /\ pc[w] = "RECV" /\ OnRecvMsg(w, Sock(w))
  BY DEF HandleRecv, Step
<1>2. Sock(w) \in Accepted
  BY <1>1, NobodyElse DEF Serves, Sockets, UserSockets
<1>3. ~released
  BY <1>0, <1>1 DEF StageInv, Quiescent
<1>4. cb[Sock(w)] = "user"
  <2>1. Linear
    BY DEF CoreInv
  <2>2. OpOf(cur[w]) = "RECV"
    BY <1>1, NobodyElse
  <2>3. PICK h \in Held : h.sock = Sock(w) /\ OpOf(h) = "RECV"
    BY <1>0, <1>1, <2>1, <2>2, Working DEF OpOf, Op
  <2>4. \A v \in Handling({"setcb"}) : Acceptee(v) # Sock(w)
    BY <1>1 DEF Orderly, Overtakes, Handling
  <2>5. QED
    BY <2>3, <2>4 DEF SafeInv, Ready
<1>5. cur[w].chunk = Len(handed[Sock(w)]) + 1 /\ cur[w].chunk = arrived[Sock(w)]
  BY <1>1 DEF StreamInv, WorkerFlow
<1>6. handed[Sock(w)] \in Seq(1 .. MaxChunks) /\ Len(handed[Sock(w)]) \in Nat
  BY <1>0, <1>2 DEF TypeOK, Sockets
<1>7. NextGiven(Sock(w))
  BY <1>1, <1>2, <1>3, <1>4, <1>5, <1>6 DEF NextGiven, OnRecvMsg
<1>8. QED
  BY <1>4, <1>7 DEF HandleRecv

\* FirstChunk gives the first: no later one was given before it, as nobody has
\* overtaken its handler (ioloop.cpp:170-175).
LEMMA FirstGives ==
    ASSUME CoreInv, SafeInv, StreamInv, NEW w \in Workers, FirstChunk(w)
    PROVE  NextGiven(Acceptee(w)) /\ handed[Acceptee(w)] = <<>>
<1>0. TypeOK /\ SockInv /\ StageInv /\ Linear
  BY DEF CoreInv
<1>1. w \in Busy /\ pc[w] = "first" /\ OnRecvMsg(w, Acceptee(w))
  BY DEF FirstChunk, Step
<1>2. Acceptee(w) \in Accepted
  BY <1>0, <1>1, AccepteeTyped DEF AfterPost
<1>3. ~released
  BY <1>0, <1>1 DEF StageInv, Quiescent
<1>4. cb[Acceptee(w)] = "user"
  BY <1>1 DEF SafeInv, Ready, Handling
<1>5. cur[w].chunk = 1 /\ handed[Acceptee(w)] = <<>> /\ arrived[Acceptee(w)] > 0
  BY <1>1 DEF StreamInv, WorkerFlow
<1>6. QED
  BY <1>1, <1>2, <1>3, <1>4, <1>5 DEF NextGiven, OnRecvMsg

\* Every handler leaves the streams where their places say.
LEMMA HandlerStream ==
    ASSUME Serves, CoreInv, CoreInv', Moves, Orderly, Orderly', SafeInv, SafeInv', StreamInv,
           NEW w \in Workers, Handler(w)
    PROVE  StreamInv'
<1>0. /\ TypeOK /\ Linear /\ SockInv /\ StageInv
      /\ Accepted \subseteq Sockets
  BY DEF CoreInv, Sockets
<1>a. ASSUME Goto(w, pc'[w]) \/ Loop(w) PROVE OthersRest(w)
  BY <1>0, <1>a DEF Goto, Loop, TypeOK, OthersRest
<1>1. CASE Dequeue(w)
  <2>1. /\ pc[w] = "wait" /\ queue # <<>> /\ queue' = Tail(queue)
        /\ cur' = [cur EXCEPT ![w] = Head(queue)]
        /\ UNCHANGED <<arrived, handed, ops, blocks>>
        /\ pc' = [pc EXCEPT ![w] = IF ~Head(queue).ok THEN "failed"
                                   ELSE IF Head(queue).bytes = 0 THEN "zero"
                                   ELSE blocks[Head(queue).blk].op]
    BY <1>1 DEF Dequeue, heap, netVars
  <2>2. /\ Head(queue) = queue[1] /\ 1 \in DOMAIN queue
        /\ \A i \in DOMAIN queue' : \E j \in DOMAIN queue : queue'[i] = queue[j]
    BY <1>0, <2>1 DEF TypeOK
  <2>3. cur'[w] = queue[1] /\ PacketFlow(queue[1])
    BY <1>0, <2>1, <2>2 DEF TypeOK, StreamInv
  <2>4. /\ pc'[w] \in {"failed", "zero"} \cup OpType
        /\ pc'[w] \notin {"failed", "zero"} => Data(queue[1]) /\ pc'[w] = OpOf(queue[1])
    <3>1. PICK stage \in {"failed", "zero"} \cup OpType : pc' = [pc EXCEPT ![w] = stage]
      BY <1>0, <1>1, DequeueStage
    <3>2. pc'[w] = stage
      BY <1>0, <3>1 DEF TypeOK
    <3>3. pc'[w] = IF ~queue[1].ok THEN "failed"
                   ELSE IF queue[1].bytes = 0 THEN "zero" ELSE OpOf(queue[1])
      BY <1>0, <2>1, <2>2 DEF TypeOK, OpOf
    <3>4. QED
      BY <3>2, <3>3 DEF Data
  <2>5. pc'[w] \notin {"setcb", "first"} /\ pc[w] \notin {"setcb", "first"} /\ OthersRest(w)
    BY <1>0, <2>1, <2>4 DEF OpType, OthersRest, TypeOK
  <2>6. Sock(w)' = queue[1].sock /\ Acceptee(w)' = blocks[queue[1].blk].accepts
    BY <2>1, <2>3 DEF Sock, Acceptee, Blk
  <2>7. ASSUME pc'[w] = "RECV", NEW s, s = queue[1].sock PROVE Behind(s) = Len(handed[s]) + 0
    <3>1. ~Owes(s)'
      BY <2>6, <2>7 DEF Orderly, Overtakes, Owes, Handling
    <3>2. ~Owes(s)
      BY <2>5, <3>1, OwesKept
    <3>3. QED
      BY <3>2 DEF Behind
  <2>8. WorkerFlow(w)'
    <3>1. CASE pc'[w] = "START_ACCEPT"
      <4>1. queue[1].chunk = 1 /\ Opened(blocks[queue[1].blk].accepts)
        BY <2>3, <2>4, <3>1 DEF PacketFlow
      <4>2. QED
        BY <2>1, <2>3, <2>6, <3>1, <4>1 DEF WorkerFlow, Opened
    <3>2. CASE pc'[w] = "RECV"
      <4>1. OpOf(queue[1]) = "RECV" /\ Data(queue[1])
        BY <2>4, <3>2
      <4>2. queue[1].sock \in Sockets
        <5>1. queue[1] \in Packet
          BY <1>0, <2>2 DEF TypeOK
        <5>2. QED
          BY <5>1 DEF Packet
      <4>3. Len(handed[queue[1].sock]) \in Nat
        BY <1>0, <4>2 DEF TypeOK
      <4>4. /\ queue[1].chunk = Len(handed[queue[1].sock]) + 1
            /\ queue[1].chunk = arrived[queue[1].sock]
        BY <2>3, <2>7, <3>2, <4>1, <4>3 DEF PacketFlow
      <4>5. QED
        BY <2>1, <2>3, <2>6, <3>2, <4>4 DEF WorkerFlow
    <3>3. CASE pc'[w] \notin {"START_ACCEPT", "RECV"}
      BY <2>4, <3>3 DEF WorkerFlow, OpType
    <3>4. QED
      BY <3>1, <3>2, <3>3
  <2>9. QED
    BY <2>1, <2>2, <2>5, <2>8, CalmStream
<1>2. CASE TouchesDeleted(w)
  <2>1. fault' = "none" /\ fault' = pc[w]
    BY <1>2 DEF SafeInv, TouchesDeleted
  <2>2. QED
    BY <1>2, <2>1 DEF TouchesDeleted, Touches
<1>3. ASSUME Loop(w), w \in Busy, pc[w] \notin {"setcb", "first"},
             UNCHANGED <<queue, arrived, handed>>, \A o \in ops' \ ops : OpFlow(o)'
      PROVE  StreamInv'
  <2>1. pc'[w] = "wait"
    BY <1>0, <1>3 DEF Loop, TypeOK
  <2>2. WorkerFlow(w)'
    BY <2>1 DEF WorkerFlow
  <2>3. QED
    BY <1>3, <1>a, <2>1, <2>2, CalmStream
<1>4. CASE HandleFailed(w) \/ HandleZero(w) \/ AcceptDone(w)
  BY <1>3, <1>4 DEF HandleFailed, HandleZero, AcceptDone, Step, netVars
<1>5. CASE HandleSend(w)
  <2>1. pc[w] = "SEND" /\ w \in Busy
    BY <1>5 DEF HandleSend, Step
  <2>2. OpOf(cur[w]) = "SEND"
    BY <1>0, <2>1 DEF StageInv, StageFits
  <2>3. Op(Sock(w), Blk(w)) \in Held /\ OpOf(Op(Sock(w), Blk(w))) = "SEND"
    BY <1>0, <2>1, <2>2, Working DEF OpOf, Op
  <2>4. QED
    BY <1>0, <2>3 DEF SockInv, Fits, Serves
<1>6. CASE HandleRecv(w)
  <2>1. /\ w \in Busy /\ pc[w] = "RECV" /\ UNCHANGED <<blocks, ops, queue, arrived>>
        /\ Goto(w, "repost") /\ NextGiven(Sock(w))
    BY <1>6, RecvGives DEF HandleRecv, Step, netVars
  <2>2. PICK s \in Accepted : s = Sock(w)
    BY <2>1 DEF NextGiven
  <2>3. pc'[w] = "repost" /\ cur' = cur /\ Sock(w)' = s /\ OthersRest(w)
    BY <1>0, <2>1, <2>2 DEF Goto, TypeOK, Sock, OthersRest
  <2>4. /\ \A r \in Sockets \ {s} : handed'[r] = handed[r]
        /\ Len(handed'[s]) = Len(handed[s]) + 1
    BY <1>0, <2>1, <2>2 DEF NextGiven, TypeOK
  <2>5. WorkerFlow(w)'
    <3>1. arrived[s] = Len(handed[s]) + 1
      BY <2>1, <2>2 DEF StreamInv, WorkerFlow
    <3>2. QED
      BY <2>1, <2>3, <2>4, <3>1 DEF WorkerFlow
  <2>6. \A r : Owes(r)' <=> Owes(r)
    <3>1. "repost" \notin {"setcb", "first"} /\ "RECV" \notin {"setcb", "first"}
      OBVIOUS
    <3>2. QED
      BY <2>1, <2>3, <3>1, OwesKept
  <2>7. life[s] # "unborn"
    <3>1. PICK h \in Held : h.sock = s
      BY <1>0, <2>1, <2>2, Working DEF Op
    <3>2. QED
      BY <1>0, <3>1 DEF SockInv, Fits
  <2>8. \A h \in Waiting : /\ OpOf(h) = "RECV" => h.sock # s
                           /\ OpOf(h) = "START_ACCEPT" => blocks[h.blk].accepts # s
    BY <2>1, <2>2, NobodyElse
  <2>9. \A v \in Busy \ {w} :
          /\ pc[v] \in {"RECV", "repost"} => Sock(v) # s
          /\ pc[v] \in {"START_ACCEPT", "onaccept", "setcb", "first"} => Acceptee(v) # s
    BY <2>1, <2>2, NoOtherWorker
  <2>10. QED
    BY <2>1, <2>3, <2>4, <2>5, <2>6, <2>7, <2>8, <2>9, MovesStream
<1>7. CASE Repost(w)
  <2>1. /\ w \in Busy /\ pc[w] = "repost" /\ Loop(w)
        /\ UNCHANGED <<queue, arrived, handed, blocks>>
        /\ ops' \subseteq ops \cup {Op(Sock(w), Blk(w))}
    BY <1>7 DEF Repost, Step, netVars
  <2>2. pc'[w] = "wait"
    BY <1>0, <2>1 DEF Loop, TypeOK
  <2>3. arrived[Sock(w)] = Len(handed[Sock(w)]) /\ arrived[Sock(w)] \in Nat
    <3>1. Sock(w) \in Sockets
      BY <1>0, <2>1, Working
    <3>2. QED
      BY <1>0, <2>1, <3>1 DEF StreamInv, WorkerFlow, TypeOK
  <2>4. ASSUME NEW s, s = Sock(w) PROVE Behind(s)' = Len(handed[s]) + 0
    <3>1. ~Owes(s)
      BY <2>1, <2>4 DEF Orderly, Overtakes, Owes, Handling
    <3>2. ~Owes(s)'
      BY <1>a, <2>1, <2>2, <3>1, OwesKept
    <3>3. QED
      BY <2>1, <3>2 DEF Behind
  <2>5. blocks'[Blk(w)].op = "RECV"
    <3>1. OpOf(cur[w]) = "RECV"
      BY <1>0, <2>1 DEF StageInv, StageFits
    <3>2. QED
      BY <2>1, <3>1 DEF OpOf, Blk
  <2>6. \A o \in ops' \ ops : OpFlow(o)'
    <3>1. ASSUME NEW o \in ops' \ ops PROVE OpFlow(o)'
      <4>1. o.sock = Sock(w) /\ o.blk = Blk(w)
        BY <2>1, <3>1 DEF Op
      <4>2. OpOf(o)' = "RECV"
        BY <2>5, <4>1 DEF OpOf
      <4>3. arrived'[o.sock] = Behind(o.sock)'
        BY <2>1, <2>3, <2>4, <4>1
      <4>4. QED
        BY <4>2, <4>3 DEF OpFlow
    <3>2. QED
      BY <3>1
  <2>7. QED
    BY <1>3, <2>1, <2>6
<1>8. CASE HandleAccept(w)
  <2>1. /\ w \in Busy /\ pc[w] = "START_ACCEPT" /\ PostAcceptMsg(Sock(w)) /\ Goto(w, "onaccept")
        /\ UNCHANGED <<queue, arrived, handed>>
    BY <1>8 DEF HandleAccept, Step, netVars
  <2>2. Sock(w) \in Servers /\ Blk(w) \in DOMAIN blocks
    BY <1>0, <2>1, AccepteeTyped, Working
  <2>3. PICK a \in Accepted :
          /\ life[a] = "unborn"
          /\ blocks' = Append(blocks, NewBlock("START_ACCEPT", a, 0))
          /\ NewBlock("START_ACCEPT", a, 0) \in Block
          /\ Posted(Sock(w)) \/ UNCHANGED ops
    <3>1. \E a \in Accepted : life[a] = "unborn"
      BY <1>0, <2>1, RoomForConnection DEF CoreInv
    <3>2. QED
      BY <1>0, <2>1, <2>2, <3>1, PostAcceptTyped
  <2>4. pc'[w] = "onaccept" /\ cur' = cur /\ OthersRest(w)
    BY <1>0, <2>1 DEF Goto, TypeOK, OthersRest
  <2>5. \A o \in ops' \ ops : OpFlow(o)'
    <3>1. ASSUME NEW o \in ops' \ ops PROVE OpFlow(o)'
      <4>1. o = Op(Sock(w), NextBlk) /\ o.blk = NextBlk
        BY <2>3, <3>1 DEF Posted, Op
      <4>2. blocks'[o.blk] = NewBlock("START_ACCEPT", a, 0)
        BY <1>0, <2>3, <4>1, AppendBlock
      <4>3. OpOf(o)' = "START_ACCEPT" /\ blocks'[o.blk].accepts = a
        BY <4>2 DEF OpOf, NewBlock
      <4>4. Unused(a)'
        BY <2>1, <2>3 DEF StreamInv, Fresh, Unused
      <4>5. QED
        BY <4>3, <4>4 DEF OpFlow, Unused
    <3>2. QED
      BY <3>1
  <2>6. WorkerFlow(w)'
    <3>1. Acceptee(w)' = Acceptee(w)
      BY <2>2, <2>4 DEF Acceptee, Blk, Moves, SameBlocks
    <3>2. cur[w].chunk = 1 /\ Opened(Acceptee(w))
      BY <2>1 DEF StreamInv, WorkerFlow
    <3>3. QED
      BY <2>1, <2>4, <3>1, <3>2 DEF WorkerFlow, Opened
  <2>7. QED
    BY <2>1, <2>4, <2>5, <2>6, CalmStream
<1>9. ASSUME w \in Busy, pc[w] \in AfterPost, NEW stage \in AfterPost, Goto(w, stage)
      PROVE  /\ pc'[w] = stage /\ cur' = cur /\ OthersRest(w)
             /\ \E a \in Accepted : a = Acceptee(w) /\ a = Acceptee(w)' /\ life[a] # "unborn"
  <2>1. /\ Acceptee(w) \in Accepted /\ life[Acceptee(w)] # "unborn" /\ Blk(w) \in DOMAIN blocks
    BY <1>0, <1>9, AccepteeTyped, Working
  <2>2. pc'[w] = stage /\ cur' = cur /\ OthersRest(w)
    BY <1>0, <1>9 DEF Goto, TypeOK, OthersRest
  <2>3. Acceptee(w)' = Acceptee(w)
    BY <2>1, <2>2 DEF Acceptee, Blk, Moves, SameBlocks
  <2>4. QED
    BY <2>1, <2>2, <2>3
<1>10. CASE OnAcceptSocket(w)
  <2>1. /\ w \in Busy /\ pc[w] = "onaccept" /\ UNCHANGED <<queue, arrived, handed>>
        /\ \/ Goto(w, "setcb") /\ NewRecvBlock /\ Posted(Acceptee(w))
           \/ Goto(w, "done") /\ UNCHANGED ops
    BY <1>10 DEF OnAcceptSocket, Step, netVars
  <2>2. CASE Goto(w, "done") /\ UNCHANGED ops
    <3>1. pc'[w] = "done" /\ OthersRest(w)
      BY <1>0, <2>2 DEF Goto, TypeOK, OthersRest
    <3>2. WorkerFlow(w)'
      BY <3>1 DEF WorkerFlow
    <3>3. QED
      BY <2>1, <2>2, <3>1, <3>2, CalmStream
  <2>3. CASE Goto(w, "setcb") /\ NewRecvBlock /\ Posted(Acceptee(w))
    <3>0. /\ pc'[w] = "setcb" /\ cur' = cur /\ OthersRest(w)
          /\ \E a \in Accepted : a = Acceptee(w) /\ a = Acceptee(w)' /\ life[a] # "unborn"
      BY <1>9, <2>1, <2>3 DEF AfterPost
    <3>1. PICK a \in Accepted : a = Acceptee(w) /\ a = Acceptee(w)' /\ life[a] # "unborn"
      BY <3>0
    <3>2. cur[w].chunk = 1 /\ arrived[a] = 1 /\ handed[a] = <<>>
      BY <2>1, <3>1 DEF StreamInv, WorkerFlow, Opened
    <3>3. WorkerFlow(w)'
      BY <2>1, <3>0, <3>1, <3>2 DEF WorkerFlow
    <3>4. Owes(a)' /\ \A s \in Sockets \ {a} : Owes(s)' <=> Owes(s)
      <4>1. Owes(a)'
        BY <3>0, <3>1 DEF Owes, Handling
      <4>2. \A s \in Sockets \ {a} : Owes(s)' <=> Owes(s)
        BY <2>1, <3>0, <3>1, OwesKept
      <4>3. QED
        BY <4>1, <4>2
    <3>5. Behind(a)' = 1
      BY <2>1, <3>2, <3>4 DEF Behind
    <3>6. \A o \in ops' \ ops : OpFlow(o)'
      <4>1. ASSUME NEW o \in ops' \ ops PROVE OpFlow(o)'
        <5>1. o.sock = a /\ o.blk = NextBlk
          BY <2>3, <3>1, <4>1 DEF Posted, Op
        <5>2. blocks'[NextBlk] = NewBlock("RECV", NoSocket, BufSize)
          BY <1>0, <2>3 DEF NewRecvBlock, TypeOK, NextBlk
        <5>3. OpOf(o)' = "RECV"
          BY <5>1, <5>2 DEF OpOf, NewBlock
        <5>4. QED
          BY <2>1, <3>2, <3>5, <5>1, <5>3 DEF OpFlow
      <4>2. QED
        BY <4>1
    <3>7. \A h \in Waiting : /\ h.sock # a
                             /\ OpOf(h) = "START_ACCEPT" => blocks[h.blk].accepts # a
      BY <2>1, <3>1, NobodyElse DEF AfterPost
    <3>8. QED
      BY <2>1, <3>0, <3>1, <3>3, <3>4, <3>6, <3>7, MovesStream
  <2>4. QED
    BY <2>1, <2>2, <2>3
<1>11. CASE SetDataHandleFunc(w)
  <2>1. /\ w \in Busy /\ pc[w] = "setcb" /\ Goto(w, "first")
        /\ UNCHANGED <<queue, arrived, handed, blocks, ops>>
    BY <1>11 DEF SetDataHandleFunc, Step, netVars, heap
  <2>2. /\ pc'[w] = "first" /\ cur' = cur /\ OthersRest(w)
        /\ \E a \in Accepted : a = Acceptee(w) /\ a = Acceptee(w)' /\ life[a] # "unborn"
    BY <1>9, <2>1 DEF AfterPost
  <2>3. PICK a \in Accepted : a = Acceptee(w) /\ a = Acceptee(w)' /\ life[a] # "unborn"
    BY <2>2
  <2>4. \A s : Owes(s)' <=> Owes(s)
    BY <2>1, <2>2, <2>3, OwesKept
  <2>5. Behind(a)' = Behind(a)
    BY <2>1, <2>4 DEF Behind
  <2>6. WorkerFlow(w)'
    BY <2>1, <2>2, <2>3 DEF WorkerFlow, StreamInv
  <2>7. QED
    BY <2>1, <2>2, <2>3, <2>4, <2>5, <2>6, MovesStream
<1>12. CASE FirstChunk(w)
  <2>1. /\ w \in Busy /\ pc[w] = "first" /\ Goto(w, "done")
        /\ UNCHANGED <<queue, arrived, blocks, ops>>
        /\ NextGiven(Acceptee(w)) /\ handed[Acceptee(w)] = <<>>
    BY <1>12, FirstGives DEF FirstChunk, Step, netVars, heap
  <2>2. /\ pc'[w] = "done" /\ cur' = cur /\ OthersRest(w)
        /\ \E a \in Accepted : a = Acceptee(w) /\ a = Acceptee(w)' /\ life[a] # "unborn"
    BY <1>9, <2>1 DEF AfterPost
  <2>3. PICK a \in Accepted : a = Acceptee(w) /\ a = Acceptee(w)' /\ life[a] # "unborn"
    BY <2>2
  <2>4. /\ \A s \in Sockets \ {a} : handed'[s] = handed[s]
        /\ Len(handed[a]) = 0 /\ Len(handed'[a]) = 1
    BY <1>0, <2>1, <2>3 DEF NextGiven, TypeOK
  <2>9. \A v \in Busy \ {w} :
           /\ pc[v] \in {"RECV", "repost"} => Sock(v) # a
           /\ pc[v] \in {"START_ACCEPT", "onaccept", "setcb", "first"} => Acceptee(v) # a
    BY <2>1, <2>3, NoOtherWorker
  <2>5. /\ Owes(a) /\ ~Owes(a)'
        /\ \A s \in Sockets \ {a} : Owes(s)' <=> Owes(s)
    <3>1. Owes(a)
      BY <2>1, <2>3 DEF Owes, Handling
    <3>2. ASSUME NEW v \in Workers, pc'[v] \in {"setcb", "first"} PROVE Acceptee(v)' # a
      <4>1. v \in Workers \ {w}
        BY <2>2, <3>2
      <4>2. /\ pc[v] \in {"setcb", "first"} /\ Acceptee(v)' = Acceptee(v) /\ v \in Busy \ {w}
        BY <2>2, <3>2, <4>1, OthersSame
      <4>3. QED
        BY <2>9, <4>2
    <3>3. \A s \in Sockets \ {a} : Owes(s)' <=> Owes(s)
      BY <2>1, <2>2, <2>3, OwesKept
    <3>4. QED
      BY <3>1, <3>2, <3>3 DEF Owes, Handling
  <2>6. Behind(a)' = Behind(a)
    BY <2>1, <2>4, <2>5 DEF Behind
  <2>7. WorkerFlow(w)'
    BY <2>2 DEF WorkerFlow
  <2>8. \A h \in Waiting : OpOf(h) = "START_ACCEPT" => blocks[h.blk].accepts # a
    BY <2>1, <2>3, NobodyElse DEF AfterPost
  <2>10. QED
    BY <2>1, <2>2, <2>3, <2>4, <2>9, <2>5, <2>6, <2>7, <2>8, MovesStream
<1>13. QED
  BY <1>1, <1>2, <1>4, <1>5, <1>6, <1>7, <1>8, <1>10, <1>11, <1>12 DEF Handler

\* An operation completes; what arrives is for a connection nobody else reads.
LEMMA CompletesStream ==
    ASSUME CoreInv, Moves, StreamInv, NEW o \in ops, ops' = ops \ {o},
           NEW p, queue' = Append(queue, p), PacketFlow(p)',
           UNCHANGED <<pc, cur, blocks, handed>>,
           \A a \in Accepted : life'[a] = "unborn" => arrived'[a] = arrived[a],
           \A s \in Sockets :
               \/ arrived'[s] = arrived[s]
               \/ /\ arrived'[s] > 0
                  /\ \A h \in Held \ {o} :
                       /\ OpOf(h) = "RECV" => h.sock # s
                       /\ OpOf(h) = "START_ACCEPT" /\ h.blk \notin Attached
                          => blocks[h.blk].accepts # s
    PROVE  StreamInv'
<1>0. TypeOK /\ Linear /\ OnePlace /\ SockInv /\ StageInv /\ Accepted \subseteq Sockets
  BY DEF CoreInv, Linear, Sockets
<1>1. \A s : Behind(s)' = Behind(s)
  BY DEF Behind, Owes, Handling, Acceptee, Blk
<1>2. \A h \in Held : h.blk \in DOMAIN blocks /\ h.sock \in Sockets
                      /\ (OpOf(h) = "START_ACCEPT" => blocks[h.blk].accepts \in Sockets)
  BY <1>0 DEF Linear, Alive, SockInv, Targets, OpOf
<1>3. /\ Fresh' /\ \A q \in ops \ {o} : OpFlow(q)'
      /\ \A i \in DOMAIN queue : \A q : q = queue[i] => PacketFlow(q)'
  <2>1. \A i \in DOMAIN queue : Op(queue[i].sock, queue[i].blk) # o
    <3>1. \A s, b : Op(s, b).blk = b
      BY DEF Op
    <3>2. QED
      BY <1>0, <3>1 DEF OnePlace
  <2>2. /\ ops \ {o} \subseteq Waiting \ {o}
        /\ \A i \in DOMAIN queue : Op(queue[i].sock, queue[i].blk) \in Waiting \ {o}
    BY <2>1 DEF Waiting
  <2>3. /\ \A h \in Waiting \ {o} : OpOf(h) = "RECV" => arrived'[h.sock] = arrived[h.sock]
        /\ \A h \in Waiting \ {o} : OpOf(h) = "START_ACCEPT" =>
               arrived'[blocks[h.blk].accepts] = arrived[blocks[h.blk].accepts]
    BY <1>2, Waits
  <2>4. QED
    BY <1>1, <2>2, <2>3, FlowKept
<1>4. \A q \in ops' : OpFlow(q)'
  BY <1>3
<1>5. \A i \in DOMAIN queue' : PacketFlow(queue[i])'
  <2>1. \A i \in DOMAIN queue' :
          queue'[i] = p \/ (i \in DOMAIN queue /\ queue'[i] = queue[i])
    BY <1>0 DEF TypeOK
  <2>2. QED
    BY <1>3, <2>1
<1>6. ASSUME NEW v \in Workers PROVE WorkerFlow(v)'
  <2>1. WorkerFlow(v)
    BY DEF StreamInv
  <2>2. Sock(v)' = Sock(v) /\ Acceptee(v)' = Acceptee(v)
    BY DEF Sock, Acceptee, Blk
  <2>3. CASE v \notin Busy
    BY <2>3 DEF WorkerFlow
  <2>4. CASE v \in Busy
    <3>1. PICK h \in Held : h.sock = Sock(v) /\ h.blk = Blk(v) /\ OpOf(h) = OpOf(cur[v])
      BY <1>0, <2>4, Working DEF Op, OpOf
    <3>2. h # o
      BY <1>0, <2>4, <3>1 DEF OnePlace
    <3>3. CASE pc[v] \in {"RECV", "repost"}
      <4>1. OpOf(h) = "RECV"
        BY <1>0, <2>4, <3>1, <3>3 DEF StageInv, StageFits
      <4>2. arrived'[Sock(v)] = arrived[Sock(v)]
        BY <1>2, <3>1, <3>2, <4>1
      <4>3. QED
        BY <2>1, <2>2, <3>3, <4>2 DEF WorkerFlow
    <3>4. CASE pc[v] \in {"START_ACCEPT", "onaccept"}
      <4>1. OpOf(h) = "START_ACCEPT" /\ blocks[h.blk].accepts = Acceptee(v)
        BY <1>0, <2>4, <3>1, <3>4 DEF StageInv, StageFits, AfterPost, Acceptee
      <4>2. h.blk \notin Attached
        BY <1>0, <2>4, <3>1, <3>4 DEF Attached, Handling, AfterAttach, OnePlace
      <4>3. arrived'[Acceptee(v)] = arrived[Acceptee(v)]
        BY <1>2, <3>2, <4>1, <4>2
      <4>4. QED
        BY <2>1, <2>2, <3>4, <4>3 DEF WorkerFlow, Opened
    <3>5. CASE pc[v] \in {"setcb", "first"}
      <4>1. Acceptee(v) \in Sockets
        BY <1>0, <2>4, <3>5, AccepteeTyped DEF AfterPost
      <4>2. arrived'[Acceptee(v)] > 0
        BY <2>1, <3>5, <4>1 DEF WorkerFlow
      <4>3. QED
        BY <2>1, <2>2, <3>5, <4>2 DEF WorkerFlow
    <3>6. CASE pc[v] \notin {"RECV", "repost", "START_ACCEPT", "onaccept", "setcb", "first"}
      BY <3>6 DEF WorkerFlow
    <3>7. QED
      BY <3>3, <3>4, <3>5, <3>6
  <2>5. QED
    BY <2>3, <2>4
<1>7. QED
  BY <1>3, <1>4, <1>5, <1>6 DEF StreamInv

\* A piece of data arrives on a connection.
NextArrives(a) ==
    /\ a \in Accepted /\ ~released
    /\ arrived[a] < MaxChunks
    /\ arrived' = [arrived EXCEPT ![a] = @ + 1]

\* At most one piece arrives, for the operation that waited for it.
LEMMA KernelStream ==
    ASSUME Serves, CoreInv, Moves, StreamInv, Kernel
    PROVE  /\ StreamInv'
           /\ handed' = handed /\ released' = released
           /\ arrived' = arrived \/ \E a \in Accepted : NextArrives(a)
<1>0. /\ TypeOK /\ Linear /\ SockInv /\ Accepted \subseteq Sockets
      /\ MaxChunks \in Nat \ {0}
  BY SocketIOAssumption DEF CoreInv, Sockets
<1>1. PICK o \in ops : AcceptArrives(o) \/ RecvArrives(o) \/ SendCompletes(o) \/ Aborts(o)
  BY DEF Kernel
<1>2. /\ UNCHANGED <<life, blocks, pc, cur, handed, released>>
      /\ ops' = ops \ {o} /\ ~released
  BY <1>1 DEF AcceptArrives, RecvArrives, SendCompletes, Aborts, Complete, heap, userVars
<1>3. /\ o \in Held /\ o.blk \in DOMAIN blocks /\ o.sock \in Sockets /\ o.blk \notin Attached
      /\ o \in Waiting
  BY Waits DEF Waiting
<1>4. \A h \in Held : h.blk = o.blk => h = o
  BY <1>0, <1>3, HeldOnce
<1>5. ASSUME NEW ok, NEW bytes, NEW chunk, Complete(o, ok, bytes, chunk), arrived' = arrived,
             ok => bytes = 0 \/ OpOf(o) = "SEND"
      PROVE  StreamInv'
  <2>1. PICK p : /\ queue' = Append(queue, p) /\ p.ok = ok /\ p.bytes = bytes
                 /\ p.blk = o.blk
    BY <1>5 DEF Complete
  <2>2. PacketFlow(p)'
    BY <1>2, <1>5, <2>1 DEF PacketFlow, Data, OpOf
  <2>3. QED
    BY <1>2, <1>5, <2>1, <2>2, CompletesStream
<1>6. CASE AcceptArrives(o)
  <2>1. Complete(o, TRUE, 1, 1) /\ arrived' = [arrived EXCEPT ![blocks[o.blk].accepts] = 1]
        /\ OpOf(o) = "START_ACCEPT"
    BY <1>6 DEF AcceptArrives, Serves
  <2>2. PICK a \in Accepted : a = blocks[o.blk].accepts /\ life[a] # "unborn"
    BY <1>0, <1>3, <2>1 DEF SockInv, Targets, OpOf
  <2>3. arrived[a] = 0 /\ handed[a] = <<>>
    BY <2>1, <2>2 DEF StreamInv, OpFlow, Unused
  <2>4. /\ arrived' = [arrived EXCEPT ![a] = 1] /\ arrived'[a] = 1
        /\ \A s \in Sockets \ {a} : arrived'[s] = arrived[s]
    BY <1>0, <2>1, <2>2 DEF TypeOK
  <2>5. \A h \in Held \ {o} : /\ OpOf(h) = "RECV" => h.sock # a
                              /\ OpOf(h) = "START_ACCEPT" => blocks[h.blk].accepts # a
    <3>1. \A h \in Held \ {o} : h.blk \in DOMAIN blocks /\ h.blk # o.blk
      BY <1>0, <1>4 DEF Linear, Alive
    <3>2. QED
      BY <1>0, <1>3, <2>1, <2>2, <3>1 DEF SockInv, Untouched, Targets, OpOf
  <2>6. PICK p : /\ queue' = Append(queue, p) /\ p.chunk = 1 /\ p.blk = o.blk
    BY <2>1 DEF Complete
  <2>7. PacketFlow(p)'
    BY <1>2, <2>1, <2>2, <2>3, <2>4, <2>6 DEF PacketFlow, OpOf, Opened
  <2>8. StreamInv'
    <3>1. 1 > 0
      OBVIOUS
    <3>2. QED
      BY <1>2, <2>2, <2>4, <2>5, <2>6, <2>7, <3>1, CompletesStream
  <2>9. NextArrives(a)
    BY <1>0, <1>2, <2>3, <2>4 DEF NextArrives
  <2>10. QED
    BY <1>2, <2>8, <2>9
<1>7. CASE RecvArrives(o)
  <2>1. CASE arrived' = arrived /\ Complete(o, TRUE, 0, 0)
    BY <1>2, <1>5, <2>1
  <2>2. CASE /\ arrived[o.sock] < MaxChunks
             /\ arrived' = [arrived EXCEPT ![o.sock] = @ + 1]
             /\ Complete(o, TRUE, 1, arrived[o.sock] + 1)
    <3>1. OpOf(o) = "RECV"
      BY <1>7 DEF RecvArrives
    <3>2. PICK a \in Accepted : a = o.sock
      BY <1>0, <1>3, <3>1 DEF SockInv, Fits, Serves, Sockets, UserSockets
    <3>3. life[a] # "unborn"
      BY <1>0, <1>3, <3>2 DEF SockInv, Fits
    <3>4. arrived[a] = Behind(a) /\ arrived[a] \in Nat
      BY <1>0, <3>1, <3>2 DEF StreamInv, OpFlow, TypeOK
    <3>5. /\ arrived'[a] = arrived[a] + 1
          /\ \A s \in Sockets \ {a} : arrived'[s] = arrived[s]
      BY <1>0, <2>2, <3>2 DEF TypeOK
    <3>6. \A h \in Held \ {o} : /\ OpOf(h) = "RECV" => h.sock # a
                                /\ OpOf(h) = "START_ACCEPT" /\ h.blk \notin Attached
                                   => blocks[h.blk].accepts # a
      BY <1>0, <1>3, <3>1, <3>2 DEF SockInv, OneEach, Untouched
    <3>7. PICK p : /\ queue' = Append(queue, p) /\ p.chunk = arrived[a] + 1
                   /\ p.blk = o.blk /\ p.sock = a
      BY <2>2, <3>2 DEF Complete
    <3>8. Behind(a)' = Behind(a)
      BY <1>2 DEF Behind, Owes, Handling, Acceptee, Blk
    <3>9. PacketFlow(p)'
      <4>1. OpOf(p)' = "RECV"
        BY <1>2, <3>1, <3>7 DEF OpOf
      <4>2. p.chunk = Behind(p.sock)' + 1 /\ p.chunk = arrived'[p.sock]
        BY <3>4, <3>5, <3>7, <3>8
      <4>3. QED
        BY <4>1, <4>2 DEF PacketFlow
    <3>10. StreamInv'
      <4>1. arrived'[a] > 0
        BY <3>4, <3>5
      <4>2. \A b \in Accepted : life'[b] = "unborn" => arrived'[b] = arrived[b]
        BY <1>0, <1>2, <3>3, <3>5
      <4>3. \A s \in Sockets :
              \/ arrived'[s] = arrived[s]
              \/ /\ arrived'[s] > 0
                 /\ \A h \in Held \ {o} :
                      /\ OpOf(h) = "RECV" => h.sock # s
                      /\ OpOf(h) = "START_ACCEPT" /\ h.blk \notin Attached
                         => blocks[h.blk].accepts # s
        BY <3>5, <3>6, <4>1
      <4>4. QED
        BY <1>2, <3>7, <3>9, <4>2, <4>3, CompletesStream
    <3>11. NextArrives(a)
      BY <1>2, <2>2, <3>2 DEF NextArrives
    <3>12. QED
      BY <1>2, <3>10, <3>11
  <2>3. QED
    BY <1>7, <2>1, <2>2 DEF RecvArrives
<1>8. CASE SendCompletes(o)
  <2>1. OpOf(o) = "SEND" /\ arrived' = arrived
    BY <1>8 DEF SendCompletes, netVars
  <2>2. QED
    BY <1>2, <1>5, <1>8, <2>1 DEF SendCompletes
<1>9. CASE Aborts(o)
  <2>1. arrived' = arrived /\ Complete(o, FALSE, 0, 0)
    BY <1>9 DEF Aborts, netVars
  <2>2. QED
    BY <1>2, <1>5, <2>1
<1>10. QED
  BY <1>1, <1>6, <1>7, <1>8, <1>9

\* The user adds a server: its accept is for a connection nobody has used.
LEMMA UserStream ==
    ASSUME Serves, CoreInv, CoreInv', Moves, StreamInv, User
    PROVE  StreamInv'
<1>0. TypeOK /\ Linear /\ SockInv /\ StageInv /\ UserSockets = Servers
  BY DEF CoreInv, Serves, UserSockets
<1>1. UNCHANGED <<queue, pc, cur, arrived, handed>>
  BY DEF User, NewSocket, AddSocket, UserDelete, PostSendMsg, Release, netVars
<1>2. \A w \in Busy : /\ Sock(w)' = Sock(w)
                      /\ Acceptee(w)' = Acceptee(w)
  BY <1>0, <1>1, Working DEF Sock, Acceptee, Blk, Moves, SameBlocks
<1>3. \A a : Behind(a)' = Behind(a)
  <2>1. \A w \in Handling({"setcb", "first"}) : w \in Busy
    BY DEF Handling
  <2>2. \A a : Owes(a)' <=> Owes(a)
    BY <1>1, <1>2, <2>1 DEF Owes, Handling
  <2>3. QED
    BY <1>1, <2>2 DEF Behind
<1>4. /\ Fresh' /\ \A o \in ops : OpFlow(o)'
      /\ \A i \in DOMAIN queue : \A p : p = queue[i] => PacketFlow(p)'
  <2>1. ops \subseteq Waiting /\ \A i \in DOMAIN queue : Op(queue[i].sock, queue[i].blk) \in Waiting
    BY DEF Waiting
  <2>2. QED
    BY <1>1, <1>3, <2>1, FlowKept
<1>5. \A i \in DOMAIN queue' : PacketFlow(queue[i])'
  BY <1>1, <1>4
<1>6. ASSUME NEW w \in Workers PROVE WorkerFlow(w)'
  <2>1. WorkerFlow(w)
    BY DEF StreamInv
  <2>2. CASE w \in Busy
    BY <1>1, <1>2, <2>1, <2>2 DEF WorkerFlow, Opened
  <2>3. CASE w \notin Busy
    BY <1>1, <2>3 DEF WorkerFlow
  <2>4. QED
    BY <2>2, <2>3
<1>7. \A o \in ops' \ ops : OpFlow(o)'
  <2>1. CASE UNCHANGED ops
    BY <2>1
  <2>2. ASSUME NEW s \in Servers, AddSocket(s), PostAcceptMsg(s), NEW o \in ops' \ ops
        PROVE  OpFlow(o)'
    <3>1. PICK a \in Accepted :
            /\ life[a] = "unborn"
            /\ blocks' = Append(blocks, NewBlock("START_ACCEPT", a, 0))
            /\ NewBlock("START_ACCEPT", a, 0) \in Block
            /\ Posted(s) \/ UNCHANGED ops
      <4>1. \E a \in Accepted : life[a] = "unborn"
        BY <1>0, <2>2, RoomForServer DEF CoreInv, AddSocket
      <4>2. QED
        BY <1>0, <2>2, <4>1, PostAcceptTyped
    <3>2. o.blk = NextBlk
      BY <2>2, <3>1 DEF Posted, Op
    <3>3. blocks'[o.blk] = NewBlock("START_ACCEPT", a, 0)
      BY <1>0, <3>1, <3>2, AppendBlock
    <3>4. OpOf(o)' = "START_ACCEPT" /\ blocks'[o.blk].accepts = a
      BY <3>3 DEF OpOf, NewBlock
    <3>5. Unused(a)'
      BY <1>1, <3>1 DEF StreamInv, Fresh, Unused
    <3>6. QED
      BY <3>4, <3>5 DEF OpFlow, Unused
  <2>3. CASE \E s \in UserSockets : NewSocket(s) \/ AddSocket(s) \/ UserDelete(s)
    BY <1>0, <2>1, <2>2, <2>3 DEF NewSocket, AddSocket, UserDelete, Serves
  <2>4. CASE \E s \in Clients, len \in SendLens : PostSendMsg(s, len)
    BY <2>4 DEF Serves
  <2>5. CASE Release
    BY <2>1, <2>5 DEF Release
  <2>6. QED
    BY <2>3, <2>4, <2>5 DEF User
<1>8. QED
  BY <1>4, <1>5, <1>6, <1>7 DEF StreamInv

\* Under the same conditions as SafeInv, StreamInv holds.
LEMMA StreamHolds == ASSUME Serves PROVE OrderlySpec => []StreamInv
<1>1. Init => StreamInv
  <2> SUFFICES ASSUME Init PROVE StreamInv
    OBVIOUS
  <2>1. DOMAIN queue = {} /\ ops = {} /\ Accepted \subseteq Sockets
    BY DEF Init, Sockets
  <2>2. Fresh
    BY <2>1 DEF Init, Fresh, Unused
  <2>3. \A w \in Workers : WorkerFlow(w)
    BY DEF Init, WorkerFlow
  <2>4. QED
    BY <2>1, <2>2, <2>3 DEF StreamInv
<1>2. /\ CoreInv /\ CoreInv' /\ SafeInv /\ SafeInv' /\ StreamInv /\ Orderly /\ Orderly'
      /\ [Next]_vars
      => StreamInv'
  <2> SUFFICES ASSUME CoreInv, CoreInv', SafeInv, SafeInv', StreamInv, Orderly, Orderly', [Next]_vars
               PROVE  StreamInv'
    OBVIOUS
  <2>1. CASE Next
    <3>1. Moves
      BY <2>1, StepMoves DEF Kept
    <3>2. ASSUME NEW w \in Workers, Handler(w) PROVE StreamInv'
      BY <3>1, <3>2, HandlerStream
    <3>3. QED
      BY <2>1, <3>1, <3>2, KernelStream, UserStream DEF Next, WorkerStep
  <2>2. CASE UNCHANGED vars
    <3>1. UNCHANGED <<life, blocks, ops, queue, pc, cur, arrived, handed>>
      BY <2>2 DEF vars, heap, netVars
    <3>2. /\ \A a : Behind(a)' = Behind(a) /\ Unused(a)' = Unused(a) /\ Opened(a)' = Opened(a)
      BY <3>1 DEF Behind, Owes, Handling, Acceptee, Blk, Unused, Opened
    <3>3. QED
      BY <3>1, <3>2 DEF StreamInv, Fresh, OpFlow, PacketFlow, WorkerFlow, OpOf, Sock, Acceptee, Blk
  <2>3. QED
    BY <2>1, <2>2
<1>3. QED
  BY <1>1, <1>2, CoreHolds, SafeHolds, OrderlyHolds, PTL DEF Spec

\* A handler gives at most the next piece, and nothing else that the stream shows changes.
LEMMA HandlerGives ==
    ASSUME Serves, CoreInv, Orderly, SafeInv, StreamInv, NEW w \in Workers, Handler(w)
    PROVE  /\ arrived' = arrived /\ released' = released
           /\ handed' = handed \/ \E a \in Accepted : NextGiven(a)
<1>1. CASE HandleRecv(w)
  BY <1>1, RecvGives DEF HandleRecv, Step, netVars, userVars, NextGiven
<1>2. CASE FirstChunk(w)
  BY <1>2, FirstGives DEF FirstChunk, Step, netVars, userVars, NextGiven
<1>3. CASE Dequeue(w) \/ TouchesDeleted(w)
  BY <1>3 DEF Dequeue, TouchesDeleted, netVars, userVars
<1>4. CASE ~HandleRecv(w) /\ ~FirstChunk(w) /\ ~Dequeue(w) /\ ~TouchesDeleted(w)
  <2>1. UNCHANGED <<netVars, userVars>>
    BY <1>4 DEF Handler, Step, HandleFailed, HandleZero, HandleSend, Repost, HandleAccept,
                OnAcceptSocket, SetDataHandleFunc, AcceptDone
  <2>2. UNCHANGED handed
    BY <1>4 DEF Handler, HandleFailed, HandleZero, HandleSend, Repost, HandleAccept,
                OnAcceptSocket, SetDataHandleFunc, AcceptDone
  <2>3. QED
    BY <2>1, <2>2 DEF netVars, userVars
<1>5. QED
  BY <1>1, <1>2, <1>3, <1>4

\* Every step is a step of the streams, or a stutter of them.
LEMMA StreamStep ==
    ASSUME Serves, CoreInv, CoreInv', Orderly, SafeInv, StreamInv, [Next]_vars
    PROVE  [Stream!Next]_(Stream!vars)
<1> USE DEF Stream!Next, Stream!vars
<1>0. /\ arrived \in [Sockets -> 0 .. MaxChunks] /\ handed \in [Sockets -> Seq(1 .. MaxChunks)]
      /\ released \in BOOLEAN /\ Accepted \subseteq Sockets /\ MaxChunks \in Nat
  BY SocketIOAssumption DEF CoreInv, TypeOK, Sockets
<1>1. ASSUME NEW a \in Accepted, NextGiven(a), UNCHANGED <<arrived, released>>
      PROVE  Stream!Next
  <2>1. [b \in Accepted |-> handed'[b]] =
            [[b \in Accepted |-> handed[b]] EXCEPT ![a] = Append(@, Len(@) + 1)]
    BY <1>0, <1>1 DEF NextGiven
  <2>2. Stream!Give(a)
    BY <1>0, <1>1, <2>1 DEF Stream!Give, NextGiven
  <2>3. QED
    BY <2>2
<1>2. ASSUME NEW a \in Accepted, NextArrives(a), UNCHANGED <<handed, released>>
      PROVE  Stream!Next
  <2>1. [b \in Accepted |-> arrived'[b]] =
            [[b \in Accepted |-> arrived[b]] EXCEPT ![a] = @ + 1]
    BY <1>0, <1>2 DEF NextArrives
  <2>2. Stream!Send(a)
    BY <1>0, <1>2, <2>1 DEF Stream!Send, NextArrives
  <2>3. QED
    BY <2>2
<1>3. CASE UNCHANGED <<arrived, handed, released>>
  BY <1>3
<1>4. CASE Release
  <2>1. Stream!Close
    BY <1>4 DEF Release, netVars, Stream!Close
  <2>2. QED
    BY <2>1
<1>5. CASE User /\ ~Release
  <2>1. UNCHANGED <<arrived, handed, released>>
    BY <1>5 DEF User, NewSocket, AddSocket, UserDelete, PostSendMsg, netVars, userVars
  <2>2. QED
    BY <1>3, <2>1
<1>6. CASE Kernel
  <2>1. Moves
    BY <1>6, KernelKeeps DEF Kept
  <2>2. QED
    BY <1>2, <1>3, <1>6, <2>1, KernelStream
<1>7. ASSUME NEW w \in Workers, Handler(w) PROVE [Stream!Next]_(Stream!vars)
  BY <1>1, <1>3, <1>7, HandlerGives
<1>8. CASE UNCHANGED vars
  BY <1>3, <1>8 DEF vars, netVars, userVars
<1>9. QED
  BY <1>4, <1>5, <1>6, <1>7, <1>8 DEF Next, WorkerStep

\* Each accepted connection implements the safety part of ByteStream, however many
\* workers there are and whatever fails but an accept without data, as long as
\* servers have callbacks and no accept handler is overtaken: its callback sees what
\* arrived from the start, in order, once and without a gap (ioloop.cpp:141-180),
\* and nothing after Release.
THEOREM ConnectionsAreStreams ==
    ASSUME Serves
    PROVE  OrderlySpec => Stream!Init /\ [][Stream!Next]_(Stream!vars)
<1>1. Init => Stream!Init
  BY DEF Init, Stream!Init, Sockets
<1>2. CoreInv /\ CoreInv' /\ Orderly /\ SafeInv /\ StreamInv /\ [Next]_vars
      => [Stream!Next]_(Stream!vars)
  BY StreamStep
<1>3. QED
  BY <1>1, <1>2, CoreHolds, SafeHolds, StreamHolds, OrderlyHolds, PTL DEF Spec
=============================================================================
