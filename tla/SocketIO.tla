------------------------------ MODULE SocketIO ------------------------------
(***************************************************************************)
(* Overlapped socket I/O: what Socket (src/utils/net/win/socket.cpp) posts *)
(* to the kernel, what the kernel completes, and what the worker threads   *)
(* (ServerWorkThread, src/utils/net/win/ioloop.cpp) do with completions.   *)
(*                                                                         *)
(* Every operation carries a heap block (PER_IO_DATA) and the address of   *)
(* its socket.  Both travel to the kernel and back through the completion  *)
(* port, and handlers delete them: the subject is who owns what, when.     *)
(* The life cycle of the workers is the subject of IOLoop; the user calls  *)
(* Release when no handler runs, which is what IOLoop guarantees; the      *)
(* packets by which Release ends the workers are followed there, only the  *)
(* blocks they carry are counted here.                                     *)
(*                                                                         *)
(* Undefined behaviour ends a behaviour: `fault` names where it happened.  *)
(***************************************************************************)
EXTENDS Integers, Sequences, FiniteSets

CONSTANTS
    Workers,    \* worker threads
    Servers,    \* sockets the user creates with Socket(port)
    Clients,    \* sockets the user creates with Socket(ip, port, CLIENT)
    Accepted,   \* identities for the sockets that PostAcceptMsg creates
    NoSocket,   \* the null socketForAccept
    Faults,     \* which failures the kernel may produce
    SendLens,   \* lengths the user passes to PostSendMsg
    MaxSockets, \* bound: sockets the user creates
    MaxSends,   \* bound: calls of PostSendMsg
    MaxConns,   \* bound: connections that arrive
    MaxChunks,  \* bound: pieces of data a peer sends on one connection
    BufSize,    \* DATA_BUF_SIZE (ioloop.h:28)
    WordSize    \* 2^32, the modulus of WSABUF.len

UserSockets == Servers \cup Clients
Sockets == UserSockets \cup Accepted
FaultKinds == {"acceptex", "setsockopt", "attach", "recv", "send", "partial",
               "abort", "acceptAbort", "eof", "acceptEof"}

ASSUME SocketIOAssumption ==
    /\ Faults \subseteq FaultKinds
    /\ BufSize \in Nat /\ WordSize \in Nat /\ BufSize < WordSize
    /\ SendLens \subseteq 0 .. (BufSize - 1)    \* socket.cpp:165
    /\ MaxConns \in Nat /\ MaxChunks \in Nat \ {0}
    /\ Servers \cap Clients = {} /\ UserSockets \cap Accepted = {}
    /\ NoSocket \notin Sockets
    /\ IsFiniteSet(Workers)
    \* an identity for every socket that can be created
    /\ IsFiniteSet(Servers) /\ IsFiniteSet(Accepted)
    /\ Cardinality(Servers) + MaxConns <= Cardinality(Accepted)

VARIABLES
    life,      \* per socket object: "unborn", "live" or "deleted"
    cb,        \* per socket: m_dataHandleCallback
    user,      \* per user socket: what the user has done with it
    blocks,    \* every PER_IO_DATA ever allocated, in order
    freed,     \* the blocks (indices) that were deleted
    ops,       \* operations in the kernel: [sock, blk]
    queue,     \* completion packets in the port, oldest first
    pc, cur,   \* per worker: stage, and the packet it handles
    conns,     \* connections that arrived
    arrived,   \* per connection: how many chunks the peer's data was cut into
    handed,    \* per connection: the chunks its callback received, in order
    released,  \* the user has called IOLoop::Release
    fault      \* "none", or where undefined behaviour happened

heap == <<blocks, freed>>
userVars == <<user, released>>
netVars == <<conns, arrived>>
vars == <<life, cb, heap, ops, queue, pc, cur, netVars, handed, userVars, fault>>

OpType == {"SEND", "RECV", "START_ACCEPT"}
Callback == {"null", "wild", "user"}
Stage == {"wait", "failed", "zero", "SEND", "RECV", "repost",
          "START_ACCEPT", "onaccept", "setcb", "first", "done"}
Block == [op : OpType \cup {"END_THREAD"}, accepts : Accepted \cup {NoSocket},
          off : Nat, len : 0 .. (WordSize - 1), done : Nat]
Packet == [ok : BOOLEAN, bytes : Nat, chunk : Nat, sock : Sockets, blk : Nat]
NoPacket == [ok |-> FALSE, bytes |-> 0, chunk |-> 0, sock |-> NoSocket, blk |-> 0]

TypeOK ==
    /\ life \in [Sockets -> {"unborn", "live", "deleted"}]
    /\ cb \in [Sockets -> Callback]
    /\ user \in [UserSockets -> {"none", "started", "added", "failed", "deleted"}]
    /\ blocks \in Seq(Block)
    /\ freed \in SUBSET DOMAIN blocks
    /\ ops \in SUBSET [sock : Sockets, blk : DOMAIN blocks]
    /\ queue \in Seq(Packet)
    /\ pc \in [Workers -> Stage]
    /\ cur \in [Workers -> Packet \cup {NoPacket}]
    /\ \A w \in Workers : pc[w] = "wait" <=> cur[w] = NoPacket
    /\ conns \in 0 .. MaxConns
    /\ arrived \in [Sockets -> 0 .. MaxChunks]
    /\ handed \in [Sockets -> Seq(1 .. MaxChunks)]
    /\ released \in BOOLEAN
    /\ fault \in {"none", "wild", "overrun", "user"} \cup Stage

Init ==
    /\ life = [s \in Sockets |-> "unborn"]
    /\ cb = [s \in Sockets |-> "null"]
    /\ user = [s \in UserSockets |-> "none"]
    /\ blocks = <<>>
    /\ freed = {}
    /\ ops = {}
    /\ queue = <<>>
    /\ pc = [w \in Workers |-> "wait"]
    /\ cur = [w \in Workers |-> NoPacket]
    /\ conns = 0
    /\ arrived = [s \in Sockets |-> 0]
    /\ handed = [s \in Sockets |-> <<>>]
    /\ released = FALSE
    /\ fault = "none"

-----------------------------------------------------------------------------
(***************************************************************************)
(* Posting operations (socket.cpp).                                        *)
(***************************************************************************)
NextBlk == Len(blocks) + 1
Op(s, b) == [sock |-> s, blk |-> b]
NewBlock(op, a, len) == [op |-> op, accepts |-> a, off |-> 0, len |-> len, done |-> 0]

\* PostRecvMsg(nullptr): a new block, lost when WSARecv fails at once.
NewRecvBlock == blocks' = Append(blocks, NewBlock("RECV", NoSocket, BufSize))
Posted(s) == ops' = ops \cup {Op(s, NextBlk)}

\* PostAcceptMsg: a block and a fresh socket to accept into.  When that socket
\* cannot be initialised, or AcceptEx fails, both are left behind.
PostAcceptMsg(s) ==
    LET a == CHOOSE x \in Accepted : life[x] = "unborn"
    IN  /\ life' = [life EXCEPT ![a] = "live"]
        /\ \E garbage \in {"null", "wild"} : cb' = [cb EXCEPT ![a] = garbage]
        /\ blocks' = Append(blocks, NewBlock("START_ACCEPT", a, 0))
        /\ Posted(s) \/ ("acceptex" \in Faults /\ UNCHANGED ops)

\* Deleting a socket closes its handle; the kernel then aborts what it holds.
DeleteSocket(s) == life' = [life EXCEPT ![s] = "deleted"]
DeleteBlock(b) == freed' = freed \cup {b}

-----------------------------------------------------------------------------
(***************************************************************************)
(* The user: creates and starts sockets, adds them to the loop, sends,     *)
(* releases the loop, and deletes the sockets it created.                  *)
(***************************************************************************)
\* The constructor, which leaves m_dataHandleCallback as it finds it, a call of
\* SetDataHandleFunc that the user may leave out, and a Start that succeeds.
NewSocket(s) ==
    /\ ~released
    /\ user[s] = "none"
    /\ Cardinality({u \in UserSockets : user[u] # "none"}) < MaxSockets
    /\ user' = [user EXCEPT ![s] = "started"]
    /\ life' = [life EXCEPT ![s] = "live"]
    /\ \E f \in Callback : cb' = [cb EXCEPT ![s] = f]
    /\ UNCHANGED <<heap, ops, queue, pc, cur, netVars, handed, released, fault>>

\* IOLoop::AddServerSocket, and IOLoop::AddClientSocket.
AddSocket(s) ==
    /\ ~released
    /\ user[s] = "started"
    /\ \/ s \in Servers /\ PostAcceptMsg(s)
       \/ /\ s \in Clients
          /\ NewRecvBlock
          /\ Posted(s) \/ ("recv" \in Faults /\ UNCHANGED ops)
          /\ UNCHANGED <<life, cb>>
       \/ "attach" \in Faults /\ UNCHANGED <<life, cb, blocks, ops>>
    /\ user' = [user EXCEPT ![s] = IF ops' = ops THEN "failed" ELSE "added"]
    /\ UNCHANGED <<freed, queue, pc, cur, netVars, handed, released, fault>>

Sends == Cardinality({b \in DOMAIN blocks : blocks[b].op = "SEND"})

\* PostSendMsg on a client socket, through the pointer the user kept.
PostSendMsg(s, len) ==
    /\ ~released
    /\ user[s] = "added"
    /\ Sends < MaxSends
    /\ IF life[s] = "deleted"
       THEN fault' = "user" /\ UNCHANGED <<blocks, ops>>
       ELSE /\ blocks' = Append(blocks, NewBlock("SEND", NoSocket, len))
            /\ Posted(s) \/ ("send" \in Faults /\ UNCHANGED ops)
            /\ UNCHANGED fault
    /\ UNCHANGED <<life, cb, freed, queue, pc, cur, netVars, handed, userVars>>

\* IOLoop::Release allocates an END_THREAD block for every worker, which the worker
\* that takes it does not delete (ioloop.cpp:110-113), and returns when all have
\* left. What the kernel and the port hold then, nobody will take any more.
EndThreadBlocks == [i \in 1 .. Cardinality(Workers) |-> NewBlock("END_THREAD", NoSocket, BufSize)]
Release ==
    /\ ~released
    /\ \A w \in Workers : pc[w] = "wait"
    /\ released' = TRUE
    /\ blocks' = blocks \o EndThreadBlocks
    /\ UNCHANGED <<life, cb, freed, ops, queue, pc, cur, netVars, handed, user, fault>>

\* Afterwards the user deletes its own sockets (socket_test.cpp:42-47).
UserDelete(s) ==
    /\ released
    /\ user[s] \in {"started", "added", "failed"}
    /\ user' = [user EXCEPT ![s] = "deleted"]
    /\ DeleteSocket(s)
    /\ fault' = IF life[s] = "deleted" THEN "user" ELSE fault
    /\ UNCHANGED <<cb, heap, ops, queue, pc, cur, netVars, handed, released>>

-----------------------------------------------------------------------------
(***************************************************************************)
(* The kernel: completes operations, in any order, into a FIFO port.       *)
(***************************************************************************)
OpOf(o) == blocks[o.blk].op
Complete(o, ok, bytes, chunk) ==
    /\ o \in ops
    /\ ~released
    /\ ops' = ops \ {o}
    /\ queue' = Append(queue, [ok |-> ok, bytes |-> bytes, chunk |-> chunk,
                               sock |-> o.sock, blk |-> o.blk])
    /\ UNCHANGED <<life, cb, heap, pc, cur, handed, userVars, fault>>

\* A connection arrives together with the first chunk of its data (AcceptEx is
\* given a receive buffer), or, at "acceptEof", closed without having sent any.
AcceptArrives(o) ==
    /\ OpOf(o) = "START_ACCEPT"
    /\ life[o.sock] = "live"
    /\ conns < MaxConns
    /\ conns' = conns + 1
    /\ \/ /\ Complete(o, TRUE, 1, 1)
          /\ arrived' = [arrived EXCEPT ![blocks[o.blk].accepts] = 1]
       \/ /\ "acceptEof" \in Faults
          /\ Complete(o, TRUE, 0, 0)
          /\ UNCHANGED arrived

RecvArrives(o) ==
    /\ OpOf(o) = "RECV"
    /\ life[o.sock] = "live"
    /\ \/ /\ arrived[o.sock] < MaxChunks
          /\ arrived' = [arrived EXCEPT ![o.sock] = @ + 1]
          /\ Complete(o, TRUE, 1, arrived[o.sock] + 1)
       \/ /\ "eof" \in Faults
          /\ Complete(o, TRUE, 0, 0)
          /\ UNCHANGED arrived
    /\ UNCHANGED conns

SendCompletes(o) ==
    /\ OpOf(o) = "SEND"
    /\ life[o.sock] = "live"
    /\ \E n \in 0 .. blocks[o.blk].len :
        /\ n = blocks[o.blk].len \/ ("partial" \in Faults /\ n > 0)
        /\ Complete(o, TRUE, n, 0)
    /\ UNCHANGED netVars

\* An operation fails: its handle was closed, or the connection broke.
Aborts(o) ==
    /\ \/ life[o.sock] = "deleted"
       \/ (IF OpOf(o) = "START_ACCEPT" THEN "acceptAbort" ELSE "abort") \in Faults
    /\ Complete(o, FALSE, 0, 0)
    /\ UNCHANGED netVars

-----------------------------------------------------------------------------
(***************************************************************************)
(* The workers: ServerWorkThread.                                          *)
(***************************************************************************)
Sock(w) == cur[w].sock
Blk(w) == cur[w].blk
Acceptee(w) == blocks[Blk(w)].accepts
Goto(w, stage) == pc' = [pc EXCEPT ![w] = stage] /\ UNCHANGED cur

\* Plausible bug: pIoData and socket keep their values into the next wait.
LoopStale(w) == pc' = [pc EXCEPT ![w] = "wait"] /\ UNCHANGED cur

Loop(w) == pc' = [pc EXCEPT ![w] = "wait"] /\ cur' = [cur EXCEPT ![w] = NoPacket]

\* GetQueuedCompletionStatus and the dispatch that follows it.
Dequeue(w) ==
    /\ pc[w] = "wait"
    /\ ~released
    /\ queue # <<>>
    /\ queue' = Tail(queue)
    /\ cur' = [cur EXCEPT ![w] = Head(queue)]
    /\ pc' = [pc EXCEPT ![w] =
                IF ~Head(queue).ok THEN "failed"
                ELSE IF Head(queue).bytes = 0 THEN "zero"
                ELSE blocks[Head(queue).blk].op]
    /\ UNCHANGED <<life, cb, heap, ops, netVars, handed, userVars, fault>>

\* The sockets whose members the next step of a handler reads or writes.
Touches(w) ==
    CASE pc[w] \in {"failed", "zero", "SEND", "RECV", "repost", "START_ACCEPT"} -> {Sock(w)}
      [] pc[w] \in {"onaccept", "first"} -> {Acceptee(w)}
      [] pc[w] = "setcb" -> {Sock(w), Acceptee(w)}
      [] OTHER -> {}

\* One of them was deleted meanwhile.
TouchesDeleted(w) ==
    /\ \E s \in Touches(w) : life[s] = "deleted"
    /\ fault' = pc[w]
    /\ UNCHANGED <<life, cb, heap, ops, queue, pc, cur, netVars, handed, userVars>>

Step(w, stage) ==
    /\ pc[w] = stage
    /\ \A s \in Touches(w) : life[s] # "deleted"
    /\ UNCHANGED <<queue, netVars, userVars>>

\* The wait reports a failed operation: only a connection is torn down; the
\* block of any other socket is left behind.
HandleFailed(w) ==
    /\ Step(w, "failed")
    /\ IF Sock(w) \in Accepted
       THEN DeleteSocket(Sock(w)) /\ DeleteBlock(Blk(w))
       ELSE UNCHANGED <<life, freed>>
    /\ Loop(w)
    /\ UNCHANGED <<cb, blocks, ops, handed, fault>>

\* Zero bytes: the socket is deleted, whatever it is.
HandleZero(w) ==
    /\ Step(w, "zero")
    /\ DeleteBlock(Blk(w))
    /\ DeleteSocket(Sock(w))
    /\ Loop(w)
    /\ UNCHANGED <<cb, blocks, ops, handed, fault>>

\* Plausible bug: `else` is missing, so a finished block is sent once more.
HandleSendAgain(w) ==
    /\ Step(w, "SEND")
    /\ IF blocks[Blk(w)].done + cur[w].bytes = blocks[Blk(w)].len
       THEN DeleteBlock(Blk(w)) ELSE UNCHANGED freed
    /\ ops' = ops \cup {Op(Sock(w), Blk(w))}
    /\ Loop(w)
    /\ UNCHANGED <<life, blocks, cb, handed, fault>>

\* A send completed: all of it, or the rest is sent with the same block.
\* databuff.len is unsigned and shrinks by all that was sent so far.
HandleSend(w) ==
    LET b == blocks[Blk(w)]
        done == b.done + cur[w].bytes
        rest == (b.len - done) % WordSize
    IN  /\ Step(w, "SEND")
        /\ IF done = b.len
           THEN /\ DeleteBlock(Blk(w))
                /\ Loop(w)
                /\ UNCHANGED <<life, blocks, ops, fault>>
           ELSE /\ blocks' = [blocks EXCEPT ![Blk(w)] =
                                 [@ EXCEPT !.off = done, !.len = rest, !.done = done]]
                /\ \/ /\ done + rest > BufSize
                      /\ fault' = "overrun"
                      /\ UNCHANGED <<life, freed, ops, pc, cur>>
                   \/ /\ done + rest <= BufSize
                      /\ ops' = ops \cup {Op(Sock(w), Blk(w))}
                      /\ Loop(w)
                      /\ UNCHANGED <<life, freed, fault>>
                   \/ /\ "send" \in Faults
                      /\ DeleteSocket(Sock(w)) /\ DeleteBlock(Blk(w))
                      /\ Loop(w)
                      /\ UNCHANGED <<ops, fault>>
        /\ UNCHANGED <<cb, handed>>

\* Socket::OnRecvMsg hands a chunk to the callback, if there is one; a pointer
\* that no constructor initialised may also be called.
OnRecvMsg(w, s) ==
    /\ handed' = IF cb[s] = "user" THEN [handed EXCEPT ![s] = Append(@, cur[w].chunk)]
                                   ELSE handed
    /\ fault' = IF cb[s] = "wild" THEN "wild" ELSE fault

HandleRecv(w) ==
    /\ Step(w, "RECV")
    /\ OnRecvMsg(w, Sock(w))
    /\ IF cb[Sock(w)] = "null"
       THEN DeleteSocket(Sock(w)) /\ DeleteBlock(Blk(w)) /\ Loop(w)
       ELSE Goto(w, "repost") /\ UNCHANGED <<life, freed>>
    /\ UNCHANGED <<cb, blocks, ops>>

\* PostRecvMsg(pIoData): the same block waits for the next chunk.
Repost(w) ==
    /\ Step(w, "repost")
    /\ \/ ops' = ops \cup {Op(Sock(w), Blk(w))} /\ UNCHANGED <<life, freed>>
       \/ /\ "recv" \in Faults
          /\ DeleteSocket(Sock(w)) /\ DeleteBlock(Blk(w))
          /\ UNCHANGED ops
    /\ Loop(w)
    /\ UNCHANGED <<cb, blocks, handed, fault>>

\* Plausible bug: no further accept is posted.
HandleAcceptOnce(w) ==
    /\ Step(w, "START_ACCEPT")
    /\ Goto(w, "onaccept")
    /\ UNCHANGED <<life, cb, heap, ops, handed, fault>>

\* A connection was accepted: first of all, post the next accept; whether that
\* worked is not looked at.
HandleAccept(w) ==
    /\ Step(w, "START_ACCEPT")
    /\ PostAcceptMsg(Sock(w))
    /\ Goto(w, "onaccept")
    /\ UNCHANGED <<freed, handed, fault>>

\* Plausible bug: the receive is posted with the block of the accept.
OnAcceptSocketSameBlock(w) ==
    /\ Step(w, "onaccept")
    /\ ops' = ops \cup {Op(Acceptee(w), Blk(w))}
    /\ Goto(w, "setcb")
    /\ UNCHANGED <<life, cb, heap, handed, fault>>

\* Socket::OnAcceptSocket: attach the connection to the port and post its first
\* receive.  When a step of it fails, the connection is left behind.
OnAcceptSocket(w) ==
    /\ Step(w, "onaccept")
    /\ \/ NewRecvBlock /\ Posted(Acceptee(w)) /\ Goto(w, "setcb")
       \/ /\ "recv" \in Faults
          /\ NewRecvBlock /\ Goto(w, "done") /\ UNCHANGED ops
       \/ /\ {"setsockopt", "attach"} \cap Faults # {}
          /\ Goto(w, "done") /\ UNCHANGED <<blocks, ops>>
    /\ UNCHANGED <<life, cb, freed, handed, fault>>

\* Plausible bug: the connection never gets a callback.
SetDataHandleFuncForgotten(w) ==
    /\ Step(w, "setcb")
    /\ Goto(w, "first")
    /\ UNCHANGED <<life, cb, heap, ops, handed, fault>>

\* Only now does the connection get the callback of its server...
SetDataHandleFunc(w) ==
    /\ Step(w, "setcb")
    /\ cb' = [cb EXCEPT ![Acceptee(w)] = cb[Sock(w)]]
    /\ Goto(w, "first")
    /\ UNCHANGED <<life, heap, ops, handed, fault>>

\* Plausible bug: the data that came with the accept is ignored.
FirstChunkIgnored(w) ==
    /\ Step(w, "first")
    /\ Goto(w, "done")
    /\ UNCHANGED <<life, cb, heap, ops, handed, fault>>

\* ... and then the chunk that came with the accept.
FirstChunk(w) ==
    /\ Step(w, "first")
    /\ OnRecvMsg(w, Acceptee(w))
    /\ Goto(w, "done")
    /\ UNCHANGED <<life, cb, heap, ops>>

\* Plausible bugs: the receive that ioloop.cpp:176 has commented out, a second
\* accept, and a block that is not deleted.
AcceptDoneReceives(w) ==
    /\ Step(w, "done")
    /\ DeleteBlock(Blk(w))
    /\ NewRecvBlock /\ Posted(Acceptee(w))
    /\ Loop(w)
    /\ UNCHANGED <<life, cb, handed, fault>>

AcceptDoneAccepts(w) ==
    /\ Step(w, "done")
    /\ DeleteBlock(Blk(w))
    /\ PostAcceptMsg(Sock(w))
    /\ Loop(w)
    /\ UNCHANGED <<handed, fault>>

AcceptDoneKeeps(w) ==
    /\ Step(w, "done")
    /\ Loop(w)
    /\ UNCHANGED <<life, cb, heap, ops, handed, fault>>

AcceptDone(w) ==
    /\ Step(w, "done")
    /\ DeleteBlock(Blk(w))
    /\ Loop(w)
    /\ UNCHANGED <<life, cb, blocks, ops, handed, fault>>

-----------------------------------------------------------------------------
Handler(w) ==
    \/ Dequeue(w) \/ HandleFailed(w) \/ HandleZero(w) \/ HandleSend(w)
    \/ HandleRecv(w) \/ Repost(w) \/ HandleAccept(w) \/ OnAcceptSocket(w)
    \/ SetDataHandleFunc(w) \/ FirstChunk(w) \/ AcceptDone(w) \/ TouchesDeleted(w)

User ==
    \/ \E s \in UserSockets : NewSocket(s) \/ AddSocket(s) \/ UserDelete(s)
    \/ \E s \in Clients, len \in SendLens : PostSendMsg(s, len)
    \/ Release

Kernel ==
    \E o \in ops : AcceptArrives(o) \/ RecvArrives(o) \/ SendCompletes(o) \/ Aborts(o)

WorkerStep(w) == fault = "none" /\ Handler(w)

Next ==
    \/ fault = "none" /\ (User \/ Kernel)
    \/ \E w \in Workers : WorkerStep(w)

Spec == Init /\ [][Next]_vars

(***************************************************************************)
(* The conditions under which serving is safe, which the code leaves to    *)
(* its user and to the peers. The user must give every server a callback.  *)
(* And no worker may take a completion of a connection whose accept        *)
(* another worker still handles, between the first receive and the first   *)
(* chunk (ioloop.cpp:168-175): nothing in the code prevents it; a peer     *)
(* does that neither sends more nor leaves until its first piece was       *)
(* handled.                                                                *)
(***************************************************************************)
HaveCallbacks == \A s \in Servers : user[s] # "none" => cb[s] = "user"
Overtakes(v, w) ==
    pc[v] # "wait" /\ pc[w] \in {"setcb", "first"} /\ Sock(v) = Acceptee(w)
Orderly == HaveCallbacks /\ \A v, w \in Workers : ~Overtakes(v, w)

OrderlySpec == Init /\ [][Next /\ Orderly']_vars

\* The workers are operating-system threads and their calls return.
FairOrderlySpec == OrderlySpec /\ \A w \in Workers : WF_vars(WorkerStep(w))

-----------------------------------------------------------------------------
(***************************************************************************)
(* Properties.                                                             *)
(***************************************************************************)
Handling(stages) == {w \in Workers : pc[w] \in stages}
Count(S) == Cardinality(S)

\* Where a block is in use: operations, packets and handlers that hold it.
Holders(b) ==
    Count({o \in ops : o.blk = b}) + Count({i \in DOMAIN queue : queue[i].blk = b})
        + Count({w \in Workers : pc[w] # "wait" /\ cur[w].blk = b})

\* Ownership of PER_IO_DATA is linear: one operation, one packet or one handler
\* holds a block, never two, and nobody holds a deleted one (every `delete
\* pIoData` of ioloop.cpp:99-179, whatever else goes wrong).
OneHolder == \A b \in DOMAIN blocks : Holders(b) <= (IF b \in freed THEN 0 ELSE 1)

\* At most one receive per connection is under way from WSARecv to the repost
\* (ioloop.cpp:149-150): otherwise the data of a stream could be reordered by
\* the workers, and a connection deleted twice.
OneReceive ==
    \A s \in Sockets :
        Count({o \in ops : o.sock = s /\ OpOf(o) = "RECV"})
          + Count({i \in DOMAIN queue : queue[i].sock = s /\ OpOf(queue[i]) = "RECV"})
          + Count({w \in Handling({"failed", "zero", "RECV", "repost"}) :
                    Sock(w) = s /\ OpOf(cur[w]) = "RECV"}) <= 1

AcceptsUnderWay(s) ==
    Count({o \in ops : o.sock = s /\ OpOf(o) = "START_ACCEPT"})
      + Count({i \in DOMAIN queue : queue[i].sock = s /\ OpOf(queue[i]) = "START_ACCEPT"})
      + Count({w \in Handling({"failed", "zero", "START_ACCEPT"}) : Sock(w) = s})

\* A server has at most one accept outstanding (ioloop.cpp:164)...
OneAccept == \A s \in Servers : AcceptsUnderWay(s) <= 1

\* ... and, while accepts do not fail, always one: it never stops listening.
KeepsListening ==
    \A s \in Servers : user[s] = "added" /\ life[s] = "live" => AcceptsUnderWay(s) = 1

\* In a process that only serves, whatever fails and however two workers
\* interleave, no handler but the accept handler, after it has posted the first
\* receive (ioloop.cpp:168-175), meets a socket that was deleted.
DanglingOnlyAfterAccept ==
    (\A c \in Clients : life[c] = "unborn") => fault \in {"none", "wild", "user", "setcb", "first"}

\* Does a packet, or a handler that has not come to its callback yet, hold the
\* n-th chunk of connection s?
InFlight(s, n) ==
    \/ \E i \in DOMAIN queue :
        queue[i].chunk = n /\ s \in {queue[i].sock, blocks[queue[i].blk].accepts}
    \/ \E w \in Handling({"RECV", "START_ACCEPT", "onaccept", "setcb", "first"}) :
        cur[w].chunk = n /\ s \in {Sock(w), Acceptee(w)}

\* What a peer sends to a server with a callback is not dropped on the way to it:
\* the test sends a second message on a connection and expects it
\* (socket_test.cpp:76-78).
ChunkNotDropped ==
    HaveCallbacks => \A s \in Accepted : \A n \in 1 .. arrived[s] :
        (\E i \in DOMAIN handed[s] : handed[s][i] = n) \/ InFlight(s, n)

\* The sockets the user created are the user's to delete, as the test does
\* after Release (socket_test.cpp:42-47).
UserOwnsSockets == \A s \in UserSockets : life[s] = "deleted" => user[s] = "deleted"

\* While servers have their callbacks and no accept handler is overtaken, nothing
\* that was deleted is touched and no wild pointer is called, by any interleaving
\* of the workers and whatever connections do (ioloop.cpp:90-190)...
OrderlyIsSafe == fault = "none"

\* ... and each connection is a ByteStream: its callback sees what arrived from
\* the start, in order and without a gap, although a different worker may take
\* each piece (ioloop.cpp:141-180), and, as the workers are threads that run, sees
\* all of it unless the loop is released.
Stream == INSTANCE ByteStream WITH
    Connections <- Accepted,
    sent <- [a \in Accepted |-> arrived[a]],
    given <- [a \in Accepted |-> handed[a]],
    closed <- released

StreamSpec == Stream!Spec

\* When nothing fails but connections, the deletes of ServerWorkThread
\* (ioloop.cpp:90-180) are enough as long as the loop runs: every block is deleted
\* or still held. Release adds what it loses itself, the END_THREAD blocks
\* (ioloop.cpp:65), and leaves held for ever what the kernel and the port held.
LeaksOnlyAtRelease ==
    \A b \in DOMAIN blocks : Holders(b) = 0 /\ b \notin freed =>
        released /\ blocks[b].op = "END_THREAD"
=============================================================================
