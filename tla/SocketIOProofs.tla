--------------------------- MODULE SocketIOProofs ---------------------------
(***************************************************************************)
(* Proofs about SocketIO.  The properties count who holds a block; they    *)
(* follow from CoreInv, which says it without counting:                    *)
(*   - Linear: every block is in one place, alive, with its socket born;   *)
(*   - SockInv: each receive and each accept has a connection of its own,  *)
(*     a server has one accept, and what is about to be posted is not yet; *)
(*   - StageInv: a handler has come to a stage by its packet;              *)
(*   - Credits: as many identities are left as connections may still come. *)
(* A step is a move of one block from place to place (Completing, Taking,  *)
(* Dropping, Returning), a new block (Adding), or leaves blocks alone      *)
(* (Staying); the lemmas on steps combine these.                           *)
(***************************************************************************)
EXTENDS SocketIO, FiniteSetTheorems, SequenceTheorems, TLAPS

-----------------------------------------------------------------------------
(***************************************************************************)
(* Where a block is: in an operation, in a packet, or with a handler.      *)
(***************************************************************************)
Busy == {w \in Workers : pc[w] # "wait"}
Held == ops \cup {Op(queue[i].sock, queue[i].blk) : i \in DOMAIN queue}
            \cup {Op(Sock(w), Blk(w)) : w \in Busy}

OnePlace ==
    /\ \A o, p \in ops : o.blk = p.blk => o = p
    /\ \A i, j \in DOMAIN queue : queue[i].blk = queue[j].blk => i = j
    /\ \A v, w \in Busy : Blk(v) = Blk(w) => v = w
    /\ \A o \in ops, i \in DOMAIN queue : o.blk # queue[i].blk
    /\ \A o \in ops, w \in Busy : o.blk # Blk(w)
    /\ \A i \in DOMAIN queue, w \in Busy : queue[i].blk # Blk(w)

Alive == \A h \in Held : h.blk \in DOMAIN blocks \ freed /\ h.sock \in Sockets

Linear == OnePlace /\ Alive

LEMMA HeldTyped ==
    ASSUME TypeOK
    PROVE  /\ \A h \in Held : h = Op(h.sock, h.blk)
           /\ \A w \in Busy : Op(Sock(w), Blk(w)) \in Held /\ cur[w] \in Packet
<1>1. \A o \in ops : o = Op(o.sock, o.blk)
  BY DEF TypeOK, Op
<1>2. \A s, b : Op(s, b).sock = s /\ Op(s, b).blk = b
  BY DEF Op
<1>3. \A h \in Held : h = Op(h.sock, h.blk)
  BY <1>1, <1>2 DEF Held
<1>4. \A w \in Busy : Op(Sock(w), Blk(w)) \in Held
  BY DEF Held
<1>5. \A w \in Busy : cur[w] \in Packet
  BY DEF TypeOK, Busy
<1>6. QED
  BY <1>3, <1>4, <1>5

\* A block determines its place.
LEMMA HeldOnce ==
    ASSUME TypeOK, Linear
    PROVE  \A g, h \in Held : g.blk = h.blk => g = h
<1>1. \A s, b : Op(s, b).sock = s /\ Op(s, b).blk = b
  BY DEF Op
<1>2. QED
  BY <1>1 DEF Held, Linear, OnePlace

\* An operation completes.
LEMMA Completing ==
    ASSUME TypeOK, OnePlace, NEW o \in ops, NEW p \in Packet,
           ops' = ops \ {o}, queue' = Append(queue, p), p.sock = o.sock, p.blk = o.blk,
           UNCHANGED <<pc, cur>>
    PROVE  OnePlace' /\ Held' = Held
<1>1. /\ queue \in Seq(Packet) /\ Len(queue) \in Nat /\ DOMAIN queue = 1 .. Len(queue)
      /\ DOMAIN queue' = 1 .. Len(queue) + 1
      /\ \A i \in DOMAIN queue : queue'[i] = queue[i]
      /\ queue'[Len(queue) + 1] = p
  BY DEF TypeOK
<1>2. Busy' = Busy /\ \A w \in Busy : Sock(w)' = Sock(w) /\ Blk(w)' = Blk(w)
  BY DEF Busy, Sock, Blk
<1>3. \A i \in DOMAIN queue' : i \in DOMAIN queue \/ i = Len(queue) + 1
  BY <1>1
<1>4. OnePlace'
  <2>1. \A q, r \in ops' : q.blk = r.blk => q = r
    BY DEF OnePlace
  <2>2. \A i, j \in DOMAIN queue' : queue'[i].blk = queue'[j].blk => i = j
    BY <1>1, <1>3 DEF OnePlace
  <2>3. \A v, w \in Busy' : Blk(v)' = Blk(w)' => v = w
    BY <1>2 DEF OnePlace
  <2>4. \A q \in ops', i \in DOMAIN queue' : q.blk # queue'[i].blk
    BY <1>1, <1>3 DEF OnePlace
  <2>5. \A q \in ops', w \in Busy' : q.blk # Blk(w)'
    BY <1>2 DEF OnePlace
  <2>6. \A i \in DOMAIN queue', w \in Busy' : queue'[i].blk # Blk(w)'
    BY <1>1, <1>2, <1>3 DEF OnePlace
  <2>7. QED
    BY <2>1, <2>2, <2>3, <2>4, <2>5, <2>6 DEF OnePlace
<1>5. {Op(queue'[i].sock, queue'[i].blk) : i \in DOMAIN queue'}
        = {Op(queue[i].sock, queue[i].blk) : i \in DOMAIN queue} \cup {Op(o.sock, o.blk)}
  <2>1. Len(queue) + 1 \in DOMAIN queue' /\ \A i \in DOMAIN queue : i \in DOMAIN queue'
    BY <1>1
  <2>2. QED
    BY <1>1, <1>3, <2>1
<1>6. o = Op(o.sock, o.blk)
  BY DEF TypeOK, Op
<1>7. {Op(Sock(w)', Blk(w)') : w \in Busy'} = {Op(Sock(w), Blk(w)) : w \in Busy}
  BY <1>2
<1>8. Held' = Held
  <2>1. ops = ops' \cup {Op(o.sock, o.blk)}
    BY <1>6
  <2>2. QED
    BY <1>5, <1>7, <2>1 DEF Held, Op
<1>9. QED
  BY <1>4, <1>8

\* A worker takes the oldest packet.
LEMMA Taking ==
    ASSUME TypeOK, OnePlace, NEW w \in Workers, pc[w] = "wait", queue # <<>>,
           queue' = Tail(queue), cur' = [cur EXCEPT ![w] = Head(queue)],
           NEW stage, stage # "wait", pc' = [pc EXCEPT ![w] = stage], ops' = ops
    PROVE  OnePlace' /\ Held' = Held
<1>1. /\ queue \in Seq(Packet) /\ Len(queue) \in Nat /\ DOMAIN queue = 1 .. Len(queue)
      /\ Head(queue) = queue[1] /\ 1 \in DOMAIN queue
      /\ DOMAIN queue' = 1 .. Len(queue) - 1
      /\ \A i \in DOMAIN queue' : i + 1 \in DOMAIN queue /\ queue'[i] = queue[i + 1]
  BY DEF TypeOK
<1>2. /\ Busy' = Busy \cup {w} /\ w \notin Busy
      /\ \A v \in Busy : Sock(v)' = Sock(v) /\ Blk(v)' = Blk(v)
      /\ Sock(w)' = queue[1].sock /\ Blk(w)' = queue[1].blk
  <2>1. /\ pc' = [v \in Workers |-> IF v = w THEN stage ELSE pc[v]]
        /\ cur' = [v \in Workers |-> IF v = w THEN queue[1] ELSE cur[v]]
    BY <1>1 DEF TypeOK
  <2>2. Busy' = Busy \cup {w} /\ w \notin Busy
    BY <2>1 DEF Busy
  <2>3. \A v \in Busy : v # w /\ cur'[v] = cur[v]
    BY <2>1 DEF Busy
  <2>4. cur'[w] = queue[1]
    BY <2>1
  <2>5. QED
    BY <2>2, <2>3, <2>4 DEF Sock, Blk
<1>3. \A i \in DOMAIN queue' : i + 1 # 1 /\ i \in Nat
  BY <1>1
<1>4. OnePlace'
  <2>1. \A o, p \in ops' : o.blk = p.blk => o = p
    BY DEF OnePlace
  <2>2. \A i, j \in DOMAIN queue' : queue'[i].blk = queue'[j].blk => i = j
    BY <1>1, <1>3 DEF OnePlace
  <2>3. \A u, v \in Busy' : Blk(u)' = Blk(v)' => u = v
    BY <1>1, <1>2 DEF OnePlace
  <2>4. \A o \in ops', i \in DOMAIN queue' : o.blk # queue'[i].blk
    BY <1>1 DEF OnePlace
  <2>5. \A o \in ops', v \in Busy' : o.blk # Blk(v)'
    BY <1>1, <1>2 DEF OnePlace
  <2>6. \A i \in DOMAIN queue', v \in Busy' : queue'[i].blk # Blk(v)'
    BY <1>1, <1>2, <1>3 DEF OnePlace
  <2>7. QED
    BY <2>1, <2>2, <2>3, <2>4, <2>5, <2>6 DEF OnePlace
<1>5. {Op(queue[i].sock, queue[i].blk) : i \in DOMAIN queue}
        = {Op(queue'[i].sock, queue'[i].blk) : i \in DOMAIN queue'}
            \cup {Op(queue[1].sock, queue[1].blk)}
  <2>1. \A i \in DOMAIN queue :
            i = 1 \/ \E j \in DOMAIN queue' : queue'[j] = queue[i]
    <3>1. \A i \in DOMAIN queue \ {1} : i - 1 \in DOMAIN queue' /\ queue'[i - 1] = queue[i]
      BY <1>1
    <3>2. QED
      BY <3>1
  <2>2. \A j \in DOMAIN queue' : \E i \in DOMAIN queue : queue'[j] = queue[i]
    BY <1>1
  <2>3. 1 \in DOMAIN queue
    BY <1>1
  <2>4. \A h : (\E i \in DOMAIN queue : h = Op(queue[i].sock, queue[i].blk))
             <=> \/ \E j \in DOMAIN queue' : h = Op(queue'[j].sock, queue'[j].blk)
                 \/ h = Op(queue[1].sock, queue[1].blk)
    BY ONLY <2>1, <2>2, <2>3
  <2>5. QED
    BY <2>4
<1>6. {Op(Sock(v)', Blk(v)') : v \in Busy'}
        = {Op(Sock(v), Blk(v)) : v \in Busy} \cup {Op(queue[1].sock, queue[1].blk)}
  BY <1>2
<1>7. Held' = Held
  BY <1>5, <1>6 DEF Held, Op
<1>8. QED
  BY <1>4, <1>7

\* No block moves.
LEMMA Staying ==
    ASSUME OnePlace, UNCHANGED <<ops, queue, cur>>, Busy' = Busy
    PROVE  OnePlace' /\ Held' = Held
BY DEF OnePlace, Held, Sock, Blk, Op

\* A handler ends and drops its block.
LEMMA Dropping ==
    ASSUME TypeOK, OnePlace, NEW w \in Busy, Loop(w), UNCHANGED <<ops, queue>>
    PROVE  OnePlace' /\ Held' = Held \ {Op(Sock(w), Blk(w))}
<1>1. /\ Busy' = Busy \ {w}
      /\ \A v \in Busy' : Sock(v)' = Sock(v) /\ Blk(v)' = Blk(v)
  BY DEF Busy, Sock, Blk, TypeOK, Loop
<1>2. OnePlace'
  BY <1>1 DEF OnePlace
<1>3. \A s, b : Op(s, b).sock = s /\ Op(s, b).blk = b
  BY DEF Op
<1>4. {Op(Sock(v)', Blk(v)') : v \in Busy'}
        = {Op(Sock(v), Blk(v)) : v \in Busy} \ {Op(Sock(w), Blk(w))}
  BY <1>1, <1>3 DEF OnePlace
<1>5. Held' = Held \ {Op(Sock(w), Blk(w))}
  <2>1. Op(Sock(w), Blk(w)) \notin ops
    BY <1>3 DEF OnePlace
  <2>2. Op(Sock(w), Blk(w)) \notin {Op(queue[i].sock, queue[i].blk) : i \in DOMAIN queue}
    BY <1>3 DEF OnePlace
  <2>3. QED
    BY <1>4, <2>1, <2>2 DEF Held, Op
<1>6. QED
  BY <1>2, <1>5

\* A handler ends and posts its block again.
LEMMA Returning ==
    ASSUME TypeOK, OnePlace, NEW w \in Busy, Loop(w),
           ops' = ops \cup {Op(Sock(w), Blk(w))}, UNCHANGED queue
    PROVE  OnePlace' /\ Held' = Held
<1>1. /\ Busy' = Busy \ {w}
      /\ \A v \in Busy' : Sock(v)' = Sock(v) /\ Blk(v)' = Blk(v)
  BY DEF Busy, Sock, Blk, TypeOK, Loop
<1>2. \A s, b : Op(s, b).sock = s /\ Op(s, b).blk = b
  BY DEF Op
<1>3. OnePlace'
  BY <1>1, <1>2 DEF OnePlace
<1>4. {Op(Sock(v), Blk(v)) : v \in Busy}
        = {Op(Sock(v)', Blk(v)') : v \in Busy'} \cup {Op(Sock(w), Blk(w))}
  BY <1>1
<1>5. Held' = Held
  BY <1>4 DEF Held, Op
<1>6. QED
  BY <1>3, <1>5

\* A new block is posted.
LEMMA Adding ==
    ASSUME TypeOK, Linear, NEW s \in Sockets, Posted(s), UNCHANGED <<queue, cur>>, Busy' = Busy
    PROVE  OnePlace' /\ Held' = Held \cup {Op(s, NextBlk)}
<1>1. \A r, b : Op(r, b).sock = r /\ Op(r, b).blk = b
  BY DEF Op
<1>2. \A h \in Held : h.blk # NextBlk
  BY DEF Linear, Alive, NextBlk, TypeOK
<1>3. /\ \A o \in ops : o.blk # NextBlk
      /\ \A i \in DOMAIN queue : queue[i].blk # NextBlk
      /\ \A w \in Busy : Blk(w) # NextBlk
  BY <1>1, <1>2 DEF Held
<1>4. /\ \A w \in Busy : Sock(w)' = Sock(w) /\ Blk(w)' = Blk(w)
      /\ ops' = ops \cup {Op(s, NextBlk)}
  BY DEF Sock, Blk, Posted
<1>5. OnePlace'
  BY <1>1, <1>3, <1>4 DEF OnePlace, Linear
<1>6. Held' = Held \cup {Op(s, NextBlk)}
  BY <1>4 DEF Held, Op
<1>7. QED
  BY <1>5, <1>6

-----------------------------------------------------------------------------
(***************************************************************************)
(* What the blocks in use say about the sockets.                           *)
(***************************************************************************)
\* A handler that has posted the next accept, or the first receive, with its block.
AfterPost == {"onaccept", "setcb", "first", "done"}
AfterAttach == {"setcb", "first", "done"}
Late == {Blk(w) : w \in Handling(AfterPost)}
Attached == {Blk(w) : w \in Handling(AfterAttach)}

UserBorn == \A s \in UserSockets : user[s] # "none" => life[s] # "unborn"

\* A socket has operations only after it was created and added, and of its kind.
Fits ==
    \A h \in Held :
        /\ life[h.sock] # "unborn"
        /\ h.sock \in UserSockets => user[h.sock] \notin {"none", "started"}
        /\ h.sock \in Servers <=> OpOf(h) = "START_ACCEPT"
        /\ OpOf(h) = "SEND" => h.sock \in Clients
        /\ OpOf(h) \in OpType

\* Every accept has a connection of its own.
Targets ==
    /\ \A b \in DOMAIN blocks :
        IF blocks[b].op = "START_ACCEPT"
        THEN blocks[b].accepts \in Accepted /\ life[blocks[b].accepts] # "unborn"
        ELSE blocks[b].accepts = NoSocket
    /\ \A b, c \in DOMAIN blocks :
        blocks[b].op = "START_ACCEPT" /\ blocks[b].accepts = blocks[c].accepts => b = c

OneEach ==
    \A g, h \in Held : g.sock = h.sock /\ OpOf(g) = "RECV" /\ OpOf(h) = "RECV" => g = h

OneListening ==
    \A g, h \in Held :
        /\ g.sock = h.sock /\ OpOf(g) = "START_ACCEPT" /\ OpOf(h) = "START_ACCEPT"
        /\ g.blk \notin Late /\ h.blk \notin Late
        => g = h

\* Before its first receive is posted, nobody uses a connection.
Untouched ==
    \A g, h \in Held :
        OpOf(h) = "START_ACCEPT" /\ h.blk \notin Attached => g.sock # blocks[h.blk].accepts

SockInv == UserBorn /\ Fits /\ Targets /\ OneEach /\ OneListening /\ Untouched

\* The part of a step that does not disturb SockInv.
SameBlocks ==
    \A b \in DOMAIN blocks :
        /\ b \in DOMAIN blocks'
        /\ blocks'[b].op = blocks[b].op /\ blocks'[b].accepts = blocks[b].accepts
KeepsLate ==
    \A h \in Held : h \in Held' => /\ h.blk \in Late => h.blk \in Late'
                                   /\ h.blk \in Attached => h.blk \in Attached'
KeepsBorn ==
    /\ \A s \in Sockets : life[s] # "unborn" => life'[s] # "unborn"
    /\ \A s \in UserSockets : user[s] \notin {"none", "started"} => user'[s] \notin {"none", "started"}
    /\ UserBorn'

\* No operation is posted on a socket.
LEMMA Quiet ==
    ASSUME Linear, SockInv, Held' \subseteq Held, SameBlocks, KeepsLate, KeepsBorn,
           \A b \in DOMAIN blocks' \ DOMAIN blocks :
               blocks'[b].op # "START_ACCEPT" /\ blocks'[b].accepts = NoSocket
    PROVE  SockInv'
<1>1. \A h \in Held' :
        /\ h \in Held /\ h.blk \in DOMAIN blocks /\ h.sock \in Sockets
        /\ OpOf(h)' = OpOf(h) /\ blocks'[h.blk].accepts = blocks[h.blk].accepts
        /\ h.blk \in Late => h.blk \in Late'
        /\ h.blk \in Attached => h.blk \in Attached'
  BY DEF Linear, Alive, SameBlocks, KeepsLate, OpOf
<1>2. Fits'
  BY <1>1 DEF SockInv, Fits, KeepsBorn
<1>3. Targets'
  BY SocketIOAssumption DEF SockInv, Targets, SameBlocks, KeepsBorn, Sockets
<1>4. OneEach'
  BY <1>1 DEF SockInv, OneEach
<1>5. OneListening'
  BY <1>1 DEF SockInv, OneListening
<1>6. Untouched'
  BY <1>1 DEF SockInv, Untouched
<1>7. QED
  BY <1>2, <1>3, <1>4, <1>5, <1>6 DEF SockInv, KeepsBorn

\* A receive or a send is posted on s.
LEMMA PostsData ==
    ASSUME TypeOK, Linear, SockInv, KeepsLate, KeepsBorn,
           NEW s \in Sockets, NEW kind \in {"RECV", "SEND"}, NEW len,
           blocks' = Append(blocks, NewBlock(kind, NoSocket, len)),
           NEW n, n = Op(s, NextBlk), Held' = Held \cup {n},
           life[s] # "unborn", s \notin Servers,
           s \in UserSockets => user'[s] \notin {"none", "started"},
           kind = "SEND" => s \in Clients,
           kind = "RECV" => \A h \in Held : OpOf(h) = "RECV" => h.sock # s,
           \A h \in Held : OpOf(h) = "START_ACCEPT" /\ h.blk \notin Attached'
                           => blocks[h.blk].accepts # s
    PROVE  SockInv'
<1>1. /\ DOMAIN blocks = 1 .. Len(blocks) /\ Len(blocks) \in Nat
      /\ DOMAIN blocks' = 1 .. NextBlk /\ NextBlk = Len(blocks) + 1
      /\ \A b \in DOMAIN blocks : b # NextBlk /\ b \in DOMAIN blocks' /\ blocks'[b] = blocks[b]
      /\ blocks'[NextBlk] = NewBlock(kind, NoSocket, len)
  BY DEF TypeOK, NextBlk
<1>2. /\ blocks'[NextBlk].op = kind /\ blocks'[NextBlk].accepts = NoSocket
      /\ \A b \in DOMAIN blocks' : b \in DOMAIN blocks \/ b = NextBlk
      /\ NextBlk \in DOMAIN blocks' /\ NextBlk \notin DOMAIN blocks
  BY <1>1 DEF NewBlock
<1>3. \A h \in Held :
        /\ h.blk \in DOMAIN blocks /\ h.sock \in Sockets
        /\ OpOf(h)' = OpOf(h) /\ blocks'[h.blk].accepts = blocks[h.blk].accepts
        /\ h.blk \in Late => h.blk \in Late'
        /\ h.blk \in Attached => h.blk \in Attached'
  BY <1>1 DEF Linear, Alive, KeepsLate, OpOf
<1>5. n.sock = s /\ n.blk = NextBlk /\ OpOf(n)' = kind
  BY <1>2 DEF Op, OpOf
<1>6. \A h \in Held' : h \in Held \/ h = n
  OBVIOUS
<1>7. Fits'
  BY <1>3, <1>5, <1>6 DEF SockInv, Fits, KeepsBorn, OpType
<1>8. Targets'
  <2>1. \A b \in DOMAIN blocks' : b \in DOMAIN blocks \/ b = NextBlk
    BY <1>2
  <2>2. \A b \in DOMAIN blocks : blocks'[b] = blocks[b]
    BY <1>1
  <2>3. QED
    BY <1>2, <2>1, <2>2, SocketIOAssumption DEF SockInv, Targets, KeepsBorn, Sockets
<1>9. OneEach'
  BY <1>3, <1>5, <1>6 DEF SockInv, OneEach
<1>10. OneListening'
  BY <1>3, <1>5, <1>6 DEF SockInv, OneListening
<1>11. Untouched'
  BY <1>3, <1>5, <1>6 DEF SockInv, Untouched
<1>12. QED
  BY <1>7, <1>8, <1>9, <1>10, <1>11 DEF SockInv, KeepsBorn

\* An accept is posted on s, or fails to be.
LEMMA PostsAccept ==
    ASSUME TypeOK, Linear, SockInv, KeepsLate, KeepsBorn, NEW s \in Servers,
           NEW a \in Accepted, life[a] = "unborn", life'[a] # "unborn",
           blocks' = Append(blocks, NewBlock("START_ACCEPT", a, 0)),
           NEW n, n = Op(s, NextBlk), Held' = Held \cup {n} \/ Held' = Held,
           life[s] # "unborn", user'[s] \notin {"none", "started"},
           \A h \in Held : h.sock = s => h.blk \in Late'
    PROVE  SockInv'
<1>1. /\ DOMAIN blocks = 1 .. Len(blocks) /\ Len(blocks) \in Nat
      /\ DOMAIN blocks' = 1 .. NextBlk /\ NextBlk = Len(blocks) + 1
      /\ \A b \in DOMAIN blocks : b # NextBlk /\ b \in DOMAIN blocks' /\ blocks'[b] = blocks[b]
      /\ blocks'[NextBlk] = NewBlock("START_ACCEPT", a, 0)
  BY DEF TypeOK, NextBlk
<1>2. /\ blocks'[NextBlk].op = "START_ACCEPT" /\ blocks'[NextBlk].accepts = a
      /\ \A b \in DOMAIN blocks' : b \in DOMAIN blocks \/ b = NextBlk
  BY <1>1 DEF NewBlock
<1>3. \A h \in Held :
        /\ h.blk \in DOMAIN blocks /\ h.sock \in Sockets /\ h.sock # a
        /\ OpOf(h)' = OpOf(h) /\ blocks'[h.blk].accepts = blocks[h.blk].accepts
        /\ h.blk \in Late => h.blk \in Late'
        /\ h.blk \in Attached => h.blk \in Attached'
  BY <1>1 DEF Linear, Alive, KeepsLate, OpOf, SockInv, Fits
<1>5. n.sock = s /\ n.blk = NextBlk /\ OpOf(n)' = "START_ACCEPT"
  BY <1>2 DEF Op, OpOf
<1>6. \A h \in Held' : h \in Held \/ h = n
  OBVIOUS
<1>7. s \in UserSockets /\ s \in Sockets /\ s \notin Accepted
  BY SocketIOAssumption DEF UserSockets, Sockets
<1>8. Fits'
  BY <1>3, <1>5, <1>6, <1>7 DEF SockInv, Fits, KeepsBorn, OpType
<1>9. Targets'
  <2>1. \A b \in DOMAIN blocks : blocks'[b] = blocks[b] /\ blocks[b].accepts # a
    BY <1>1, SocketIOAssumption DEF SockInv, Targets, Sockets
  <2>2. QED
    BY <1>2, <2>1 DEF SockInv, Targets, KeepsBorn, Sockets
<1>10. OneEach'
  BY <1>3, <1>5, <1>6 DEF SockInv, OneEach
<1>11. OneListening'
  BY <1>3, <1>5, <1>6 DEF SockInv, OneListening
<1>12. Untouched'
  <2>1. \A h \in Held : OpOf(h) = "START_ACCEPT" => blocks[h.blk].accepts # s
    BY <1>3, <1>7 DEF SockInv, Targets, OpOf
  <2>2. \A g, h \in Held' : OpOf(h)' = "START_ACCEPT" /\ h.blk \notin Attached'
                            => g.sock # blocks'[h.blk].accepts
    BY <1>2, <1>3, <1>5, <1>6, <1>7, <2>1 DEF SockInv, Untouched
  <2>3. QED
    BY <2>2 DEF Untouched
<1>13. QED
  BY <1>8, <1>9, <1>10, <1>11, <1>12 DEF SockInv, KeepsBorn

-----------------------------------------------------------------------------
(***************************************************************************)
(* What the stage of a handler says about its packet, and the identities   *)
(* that are left for new connections.                                      *)
(***************************************************************************)
StageFits ==
    \A w \in Busy :
        /\ pc[w] = "SEND" => OpOf(cur[w]) = "SEND"
        /\ pc[w] \in {"RECV", "repost"} => OpOf(cur[w]) = "RECV"
        /\ pc[w] \in {"START_ACCEPT"} \cup AfterPost => OpOf(cur[w]) = "START_ACCEPT"
        /\ pc[w] \in {"RECV", "START_ACCEPT"} \cup AfterPost => cur[w].chunk \in 1 .. MaxChunks
ChunksFit ==
    \A i \in DOMAIN queue :
        queue[i].ok /\ queue[i].bytes # 0 /\ OpOf(queue[i]) # "SEND"
        => queue[i].chunk \in 1 .. MaxChunks
Quiescent == released => Busy = {}

StageInv == StageFits /\ ChunksFit /\ Quiescent

\* The connections created, the packets that will create one more, and the
\* servers that created their first.
Born == {a \in Accepted : life[a] # "unborn"}
Arriving == {i \in DOMAIN queue : queue[i].ok /\ queue[i].bytes # 0 /\ OpOf(queue[i]) = "START_ACCEPT"}
Tickets == {queue[i].blk : i \in Arriving} \cup {Blk(w) : w \in Handling({"START_ACCEPT"})}
Listening == {s \in Servers : user[s] \notin {"none", "started"}}

Credits == Cardinality(Born) + Cardinality(Tickets) <= Cardinality(Listening) + conns

\* All these sets are finite.
LEMMA Finite ==
    ASSUME TypeOK, Linear
    PROVE  /\ IsFiniteSet(Born) /\ IsFiniteSet(Tickets) /\ IsFiniteSet(Listening)
           /\ Cardinality(Born) \in Nat /\ Cardinality(Tickets) \in Nat
           /\ Cardinality(Listening) \in Nat /\ Cardinality(Listening) <= Cardinality(Servers)
           /\ Cardinality(Servers) \in Nat /\ Cardinality(Accepted) \in Nat
<1>1. IsFiniteSet(Servers) /\ IsFiniteSet(Accepted)
  BY SocketIOAssumption
<1>2. Born \subseteq Accepted /\ Listening \subseteq Servers
  BY DEF Born, Listening
<1>3. Tickets \subseteq DOMAIN blocks
  <2>1. \A s, b : Op(s, b) \in Held => b \in DOMAIN blocks
    BY DEF Linear, Alive, Op
  <2>2. \A i \in Arriving : queue[i].blk \in DOMAIN blocks
    BY <2>1 DEF Arriving, Held
  <2>3. \A w \in Handling({"START_ACCEPT"}) : Blk(w) \in DOMAIN blocks
    BY <2>1 DEF Handling, Held, Busy
  <2>4. QED
    BY <2>2, <2>3 DEF Tickets
<1>4. IsFiniteSet(DOMAIN blocks)
  <2>1. DOMAIN blocks = 1 .. Len(blocks) /\ Len(blocks) \in Nat
    BY DEF TypeOK
  <2>2. QED
    BY <2>1, FS_Interval
<1>5. /\ IsFiniteSet(Born) /\ IsFiniteSet(Tickets) /\ IsFiniteSet(Listening)
      /\ Cardinality(Listening) <= Cardinality(Servers)
  BY <1>1, <1>2, <1>3, <1>4, FS_Subset
<1>6. QED
  BY <1>1, <1>5, FS_CardinalityType

\* While fewer connections were created than can arrive, an identity is left.
LEMMA RoomLeft ==
    ASSUME TypeOK, Linear, Cardinality(Born) < Cardinality(Servers) + MaxConns
    PROVE  \E a \in Accepted : life[a] = "unborn"
<1> SUFFICES ASSUME \A a \in Accepted : life[a] # "unborn" PROVE FALSE
  OBVIOUS
<1>1. Born = Accepted
  BY DEF Born
<1>2. QED
  BY <1>1, Finite, SocketIOAssumption

LEMMA RoomForServer ==
    ASSUME TypeOK, Linear, Credits, NEW s \in Servers, user[s] = "started"
    PROVE  \E a \in Accepted : life[a] = "unborn"
<1>1. s \notin Listening /\ Listening \cup {s} \subseteq Servers
  BY DEF Listening
<1>2. Cardinality(Listening) + 1 <= Cardinality(Servers)
  <2>1. /\ IsFiniteSet(Listening \cup {s})
        /\ Cardinality(Listening \cup {s}) = Cardinality(Listening) + 1
    BY <1>1, Finite, FS_AddElement
  <2>2. Cardinality(Listening \cup {s}) <= Cardinality(Servers)
    BY <1>1, FS_Subset, SocketIOAssumption
  <2>3. QED
    BY <2>1, <2>2
<1>3. Cardinality(Born) < Cardinality(Servers) + MaxConns
  <2>1. conns <= MaxConns /\ conns \in Nat /\ MaxConns \in Nat
    BY SocketIOAssumption DEF TypeOK
  <2>2. QED
    BY <1>2, <2>1, Finite DEF Credits
<1>4. QED
  BY <1>3, RoomLeft

LEMMA RoomForConnection ==
    ASSUME TypeOK, Linear, Credits, NEW w \in Workers, pc[w] = "START_ACCEPT"
    PROVE  \E a \in Accepted : life[a] = "unborn"
<1>1. Tickets # {}
  BY DEF Tickets, Handling
<1>2. Cardinality(Tickets) >= 1
  BY <1>1, Finite, FS_EmptySet
<1>3. Cardinality(Born) < Cardinality(Servers) + MaxConns
  <2>1. conns <= MaxConns /\ conns \in Nat /\ MaxConns \in Nat
    BY SocketIOAssumption DEF TypeOK
  <2>2. QED
    BY <1>2, <2>1, Finite DEF Credits
<1>4. QED
  BY <1>3, RoomLeft

-----------------------------------------------------------------------------
(***************************************************************************)
(* Types.                                                                  *)
(***************************************************************************)
LEMMA NewBlockTyped ==
    ASSUME NEW kind \in OpType, NEW a \in Accepted \cup {NoSocket}, NEW len \in 0 .. BufSize
    PROVE  NewBlock(kind, a, len) \in Block
BY SocketIOAssumption DEF NewBlock, Block

LEMMA AppendBlock ==
    ASSUME TypeOK, NEW b \in Block, blocks' = Append(blocks, b)
    PROVE  /\ blocks' \in Seq(Block) /\ DOMAIN blocks' = DOMAIN blocks \cup {NextBlk}
           /\ NextBlk \in Nat /\ NextBlk \notin DOMAIN blocks
           /\ blocks'[NextBlk] = b
           /\ \A c \in DOMAIN blocks : blocks'[c] = blocks[c]
BY DEF TypeOK, NextBlk

\* The blocks of Release come behind all others, and no operation is for them.
LEMMA EndBlocks ==
    ASSUME TypeOK, blocks' = blocks \o EndThreadBlocks
    PROVE  /\ blocks' \in Seq(Block)
           /\ \A b \in DOMAIN blocks : b \in DOMAIN blocks' /\ blocks'[b] = blocks[b]
           /\ \A b \in DOMAIN blocks' \ DOMAIN blocks :
                  blocks'[b].op = "END_THREAD" /\ blocks'[b].accepts = NoSocket
<1> DEFINE b0 == NewBlock("END_THREAD", NoSocket, BufSize)
           n == Cardinality(Workers)
<1>1. b0 \in Block /\ b0.op = "END_THREAD" /\ b0.accepts = NoSocket
  BY SocketIOAssumption DEF NewBlock, Block
<1>2. n \in Nat
  BY SocketIOAssumption, FS_CardinalityType
<1>3. EndThreadBlocks = [i \in 1 .. n |-> b0]
  BY DEF EndThreadBlocks
<1> HIDE DEF b0, n
<1>4. /\ EndThreadBlocks \in Seq(Block) /\ Len(EndThreadBlocks) = n
      /\ \A i \in 1 .. n : EndThreadBlocks[i] = b0
  BY <1>1, <1>2, <1>3
<1>5. /\ blocks \in Seq(Block) /\ Len(blocks) \in Nat /\ DOMAIN blocks = 1 .. Len(blocks)
      /\ blocks' \in Seq(Block) /\ Len(blocks') = Len(blocks) + n
      /\ DOMAIN blocks' = 1 .. Len(blocks) + n
      /\ \A i \in 1 .. Len(blocks) : blocks'[i] = blocks[i]
      /\ \A i \in Len(blocks) + 1 .. Len(blocks) + n : blocks'[i] = EndThreadBlocks[i - Len(blocks)]
  <2>1. blocks \in Seq(Block) /\ Len(blocks) \in Nat /\ DOMAIN blocks = 1 .. Len(blocks)
    BY LenProperties DEF TypeOK
  <2>2. /\ blocks' \in Seq(Block) /\ Len(blocks') = Len(blocks) + n
        /\ \A i \in 1 .. Len(blocks) + n :
             blocks'[i] = IF i <= Len(blocks) THEN blocks[i] ELSE EndThreadBlocks[i - Len(blocks)]
    BY <1>4, <2>1, ConcatProperties
  <2>3. DOMAIN blocks' = 1 .. Len(blocks) + n
    BY <2>2, LenProperties
  <2>4. QED
    BY <1>2, <2>1, <2>2, <2>3
<1>6. \A b \in DOMAIN blocks' \ DOMAIN blocks : blocks'[b] = b0
  BY <1>2, <1>4, <1>5
<1>7. \A b \in DOMAIN blocks : b \in DOMAIN blocks' /\ blocks'[b] = blocks[b]
  BY <1>2, <1>5
<1>8. QED
  BY <1>1, <1>5, <1>6, <1>7

\* PostAcceptMsg finds an identity and keeps the types.
LEMMA PostAcceptTyped ==
    ASSUME TypeOK, NEW s \in Servers, PostAcceptMsg(s),
           \E a \in Accepted : life[a] = "unborn"
    PROVE  \E a \in Accepted :
             /\ life[a] = "unborn"
             /\ life' = [life EXCEPT ![a] = "live"] /\ life' \in [Sockets -> {"unborn", "live", "deleted"}]
             /\ cb' \in [Sockets -> Callback] /\ \A r \in Sockets \ {a} : cb'[r] = cb[r]
             /\ blocks' = Append(blocks, NewBlock("START_ACCEPT", a, 0))
             /\ NewBlock("START_ACCEPT", a, 0) \in Block
             /\ Posted(s) \/ UNCHANGED ops
             /\ ops' \in SUBSET [sock : Sockets, blk : DOMAIN blocks']
<1>1. PICK a \in Accepted :
        /\ life[a] = "unborn"
        /\ life' = [life EXCEPT ![a] = "live"]
        /\ \E garbage \in {"null", "wild"} : cb' = [cb EXCEPT ![a] = garbage]
        /\ blocks' = Append(blocks, NewBlock("START_ACCEPT", a, 0))
        /\ Posted(s) \/ UNCHANGED ops
  BY DEF PostAcceptMsg
<1>2. NewBlock("START_ACCEPT", a, 0) \in Block
  BY NewBlockTyped, SocketIOAssumption DEF OpType
<1>3. /\ life' \in [Sockets -> {"unborn", "live", "deleted"}]
      /\ cb' \in [Sockets -> Callback] /\ \A r \in Sockets \ {a} : cb'[r] = cb[r]
  BY <1>1 DEF TypeOK, Callback, Sockets
<1>4. ops' \in SUBSET [sock : Sockets, blk : DOMAIN blocks']
  <2>1. DOMAIN blocks' = DOMAIN blocks \cup {NextBlk}
    BY <1>1, <1>2, AppendBlock
  <2>2. QED
    BY <1>1, <2>1 DEF TypeOK, Posted, Op, Sockets, UserSockets
<1>5. QED
  BY <1>1, <1>2, <1>3, <1>4

\* A block that is changed in place, as HandleSend does.
LEMMA ExceptBlock ==
    ASSUME TypeOK, NEW b \in DOMAIN blocks, NEW off \in Nat, NEW len \in 0 .. (WordSize - 1),
           NEW done \in Nat,
           blocks' = [blocks EXCEPT ![b] = [@ EXCEPT !.off = off, !.len = len, !.done = done]]
    PROVE  /\ blocks' \in Seq(Block) /\ DOMAIN blocks' = DOMAIN blocks
           /\ \A c \in DOMAIN blocks : /\ blocks'[c].op = blocks[c].op
                                       /\ blocks'[c].accepts = blocks[c].accepts
<1>1. blocks[b] \in Block
  BY DEF TypeOK
<1>2. [blocks[b] EXCEPT !.off = off, !.len = len, !.done = done] \in Block
  BY <1>1 DEF Block
<1>3. /\ [blocks[b] EXCEPT !.off = off, !.len = len, !.done = done].op = blocks[b].op
      /\ [blocks[b] EXCEPT !.off = off, !.len = len, !.done = done].accepts = blocks[b].accepts
  BY <1>1 DEF Block
<1>4. QED
  BY <1>2, <1>3 DEF TypeOK

\* Places of a handler: it goes on, or waits again.
LEMMA GotoTyped ==
    ASSUME TypeOK, NEW w \in Busy, NEW stage \in Stage \ {"wait"}, Goto(w, stage)
    PROVE  /\ pc' \in [Workers -> Stage] /\ cur' \in [Workers -> Packet \cup {NoPacket}]
           /\ \A v \in Workers : pc'[v] = "wait" <=> cur'[v] = NoPacket
           /\ Busy' = Busy
           /\ pc'[w] = stage /\ \A v \in Workers \ {w} : pc'[v] = pc[v]
BY DEF TypeOK, Busy, Goto

LEMMA LoopTyped ==
    ASSUME TypeOK, NEW w \in Busy, Loop(w)
    PROVE  /\ pc' \in [Workers -> Stage] /\ cur' \in [Workers -> Packet \cup {NoPacket}]
           /\ \A v \in Workers : pc'[v] = "wait" <=> cur'[v] = NoPacket
           /\ Busy' = Busy \ {w}
           /\ \A v \in Workers \ {w} : pc'[v] = pc[v] /\ cur'[v] = cur[v]
<1>1. "wait" \in Stage
  BY DEF Stage
<1>2. QED
  BY <1>1 DEF TypeOK, Busy, Loop

\* What a handler works on exists.
LEMMA Working ==
    ASSUME TypeOK, Linear, NEW w \in Busy
    PROVE  /\ w \in Workers /\ cur[w] \in Packet /\ cur[w] # NoPacket
           /\ Sock(w) \in Sockets /\ Blk(w) \in DOMAIN blocks /\ Blk(w) \notin freed
           /\ blocks[Blk(w)] \in Block
           /\ Op(Sock(w), Blk(w)) \in Held
           /\ OpOf(cur[w]) = blocks[Blk(w)].op
<1>1. Op(Sock(w), Blk(w)) \in Held /\ cur[w] \in Packet
  BY HeldTyped
<1>2. Sock(w) \in Sockets /\ Blk(w) \in DOMAIN blocks /\ Blk(w) \notin freed
  BY <1>1 DEF Linear, Alive, Op
<1>3. blocks[Blk(w)] \in Block
  BY <1>2 DEF TypeOK
<1>4. w \in Workers /\ cur[w] # NoPacket
  BY DEF Busy, TypeOK
<1>5. QED
  BY <1>1, <1>2, <1>3, <1>4 DEF OpOf, Blk

\* The connection of an accept.
LEMMA AccepteeTyped ==
    ASSUME TypeOK, Linear, SockInv, StageInv, NEW w \in Busy,
           pc[w] \in {"START_ACCEPT"} \cup AfterPost
    PROVE  /\ Acceptee(w) \in Accepted /\ life[Acceptee(w)] # "unborn"
           /\ Sock(w) \in Servers
           /\ blocks[Blk(w)].op = "START_ACCEPT"
<1>1. OpOf(cur[w]) = "START_ACCEPT"
  BY DEF StageInv, StageFits
<1>2. /\ Blk(w) \in DOMAIN blocks /\ blocks[Blk(w)].op = "START_ACCEPT"
      /\ Op(Sock(w), Blk(w)) \in Held
  BY <1>1, Working
<1>3. Sock(w) \in Servers
  BY <1>2 DEF SockInv, Fits, Op, OpOf
<1>4. QED
  BY <1>2, <1>3 DEF SockInv, Targets, Acceptee

USE DEF Busy
LEMMA UserTyped ==
    ASSUME TypeOK, Linear, SockInv, StageInv, Credits, User
    PROVE  TypeOK'
<1>0. UserSockets \subseteq Sockets /\ Clients \subseteq UserSockets /\ Servers \subseteq UserSockets
  BY DEF Sockets, UserSockets
<1>1. ASSUME NEW s \in UserSockets, NewSocket(s) PROVE TypeOK'
  <2>1. cb' \in [Sockets -> Callback]
    <3>1. PICK f \in Callback : cb' = [cb EXCEPT ![s] = f]
      BY <1>1 DEF NewSocket, Callback
    <3>2. QED
      BY <3>1 DEF TypeOK
  <2>2. life' \in [Sockets -> {"unborn", "live", "deleted"}]
    BY <1>1 DEF NewSocket, TypeOK
  <2>3. user' \in [UserSockets -> {"none", "started", "added", "failed", "deleted"}]
    BY <1>1 DEF NewSocket, TypeOK
  <2>4. QED
    BY <1>1, <2>1, <2>2, <2>3 DEF NewSocket, TypeOK, heap, netVars
<1>2. ASSUME NEW s \in UserSockets, AddSocket(s) PROVE TypeOK'
  <2>1. user' \in [UserSockets -> {"none", "started", "added", "failed", "deleted"}]
    BY <1>2 DEF AddSocket, TypeOK
  <2>2. /\ life' \in [Sockets -> {"unborn", "live", "deleted"}]
        /\ cb' \in [Sockets -> Callback]
        /\ blocks' \in Seq(Block) /\ DOMAIN blocks \subseteq DOMAIN blocks'
        /\ ops' \in SUBSET [sock : Sockets, blk : DOMAIN blocks']
    <3>1. CASE s \in Servers /\ PostAcceptMsg(s)
      <4>1. \E a \in Accepted : life[a] = "unborn"
        BY <1>2, <3>1, RoomForServer DEF AddSocket
      <4>2. QED
        BY <3>1, <4>1, PostAcceptTyped, AppendBlock
    <3>2. CASE /\ s \in Clients /\ NewRecvBlock
               /\ Posted(s) \/ ("recv" \in Faults /\ UNCHANGED ops)
               /\ UNCHANGED <<life, cb>>
      <4>1. NewBlock("RECV", NoSocket, BufSize) \in Block
        BY NewBlockTyped, SocketIOAssumption DEF OpType
      <4>2. blocks' \in Seq(Block) /\ DOMAIN blocks' = DOMAIN blocks \cup {NextBlk}
        BY <3>2, <4>1, AppendBlock DEF NewRecvBlock
      <4>3. ops' \in SUBSET [sock : Sockets, blk : DOMAIN blocks']
        BY <1>0, <3>2, <4>2 DEF TypeOK, Posted, Op
      <4>4. QED
        BY <3>2, <4>2, <4>3 DEF TypeOK
    <3>3. CASE UNCHANGED <<life, cb, blocks, ops>>
      BY <3>3 DEF TypeOK
    <3>4. QED
      BY <1>2, <3>1, <3>2, <3>3 DEF AddSocket
  <2>3. QED
    BY <1>2, <2>1, <2>2 DEF AddSocket, TypeOK, netVars
<1>3. ASSUME NEW s \in UserSockets, UserDelete(s) PROVE TypeOK'
  <2>1. user' \in [UserSockets -> {"none", "started", "added", "failed", "deleted"}]
    BY <1>3 DEF UserDelete, TypeOK
  <2>2. life' \in [Sockets -> {"unborn", "live", "deleted"}]
    BY <1>0, <1>3 DEF UserDelete, TypeOK, DeleteSocket
  <2>3. fault' \in {"none", "wild", "overrun", "user"} \cup Stage
    BY <1>3 DEF UserDelete, TypeOK
  <2>4. QED
    BY <1>3, <2>1, <2>2, <2>3 DEF UserDelete, TypeOK, heap, netVars
<1>4. ASSUME NEW s \in Clients, NEW len \in SendLens, PostSendMsg(s, len) PROVE TypeOK'
  <2>1. fault' \in {"none", "wild", "overrun", "user"} \cup Stage
    BY <1>4 DEF PostSendMsg, TypeOK
  <2>2. /\ blocks' \in Seq(Block) /\ DOMAIN blocks \subseteq DOMAIN blocks'
        /\ ops' \in SUBSET [sock : Sockets, blk : DOMAIN blocks']
    <3>1. CASE UNCHANGED <<blocks, ops>>
      BY <3>1 DEF TypeOK
    <3>2. CASE /\ blocks' = Append(blocks, NewBlock("SEND", NoSocket, len))
               /\ Posted(s) \/ UNCHANGED ops
      <4>1. NewBlock("SEND", NoSocket, len) \in Block
        BY NewBlockTyped, SocketIOAssumption DEF OpType
      <4>2. blocks' \in Seq(Block) /\ DOMAIN blocks' = DOMAIN blocks \cup {NextBlk}
        BY <3>2, <4>1, AppendBlock
      <4>3. ops' \in SUBSET [sock : Sockets, blk : DOMAIN blocks']
        BY <1>0, <3>2, <4>2 DEF TypeOK, Posted, Op
      <4>4. QED
        BY <4>2, <4>3
    <3>3. QED
      BY <1>4, <3>1, <3>2 DEF PostSendMsg
  <2>3. QED
    BY <1>4, <2>1, <2>2 DEF PostSendMsg, TypeOK, netVars, userVars
<1>5. CASE Release
  <2>1. /\ blocks' \in Seq(Block) /\ \A b \in DOMAIN blocks : b \in DOMAIN blocks'
    BY <1>5, EndBlocks DEF Release
  <2>2. freed' \in SUBSET DOMAIN blocks' /\ ops' \in SUBSET [sock : Sockets, blk : DOMAIN blocks']
    BY <1>5, <2>1 DEF Release, TypeOK
  <2>3. QED
    BY <1>5, <2>1, <2>2 DEF Release, TypeOK, netVars
<1>6. QED
  BY <1>1, <1>2, <1>3, <1>4, <1>5 DEF User

LEMMA KernelTyped ==
    ASSUME TypeOK, Linear, SockInv, Kernel
    PROVE  TypeOK'
<1>1. ASSUME NEW o \in ops, NEW ok \in BOOLEAN, NEW bytes \in Nat, NEW chunk \in Nat,
             Complete(o, ok, bytes, chunk), conns' \in 0 .. MaxConns,
             arrived' \in [Sockets -> 0 .. MaxChunks]
      PROVE  TypeOK'
  <2>1. o.sock \in Sockets /\ o.blk \in DOMAIN blocks /\ o.blk \in Nat
    BY DEF TypeOK
  <2>2. [ok |-> ok, bytes |-> bytes, chunk |-> chunk, sock |-> o.sock, blk |-> o.blk] \in Packet
    BY <2>1 DEF Packet
  <2>3. queue' \in Seq(Packet)
    BY <1>1, <2>2 DEF Complete, TypeOK
  <2>4. ops' \in SUBSET [sock : Sockets, blk : DOMAIN blocks']
    BY <1>1 DEF Complete, TypeOK, heap
  <2>5. QED
    BY <1>1, <2>3, <2>4 DEF Complete, TypeOK, heap, userVars
<1>2. PICK o \in ops : AcceptArrives(o) \/ RecvArrives(o) \/ SendCompletes(o) \/ Aborts(o)
  BY DEF Kernel
<1>3. o \in [sock : Sockets, blk : DOMAIN blocks] /\ MaxChunks \in Nat \ {0} /\ MaxConns \in Nat
  BY SocketIOAssumption DEF TypeOK
<1>4. CASE AcceptArrives(o)
  <2>1. blocks[o.blk].accepts \in Accepted /\ Accepted \subseteq Sockets
    <3>1. blocks[o.blk].op = "START_ACCEPT"
      BY <1>4 DEF AcceptArrives, OpOf
    <3>2. QED
      BY <1>3, <3>1 DEF SockInv, Targets, Sockets
  <2>2. conns' \in 0 .. MaxConns
    BY <1>3, <1>4 DEF AcceptArrives, TypeOK
  <2>3. arrived' \in [Sockets -> 0 .. MaxChunks]
    <3>1. arrived \in [Sockets -> 0 .. MaxChunks] /\ 1 \in 0 .. MaxChunks
      BY <1>3 DEF TypeOK
    <3>2. \/ arrived' = [arrived EXCEPT ![blocks[o.blk].accepts] = 1]
          \/ arrived' = arrived
      BY <1>4 DEF AcceptArrives
    <3>3. QED
      BY <2>1, <3>1, <3>2
  <2>4. QED
    BY <1>1, <1>4, <2>2, <2>3 DEF AcceptArrives
<1>5. CASE RecvArrives(o)
  <2>1. conns' \in 0 .. MaxConns
    BY <1>5 DEF RecvArrives, TypeOK
  <2>2. arrived' \in [Sockets -> 0 .. MaxChunks]
    <3>1. arrived \in [Sockets -> 0 .. MaxChunks] /\ o.sock \in Sockets
      BY <1>3 DEF TypeOK
    <3>2. \/ /\ arrived[o.sock] < MaxChunks
             /\ arrived' = [arrived EXCEPT ![o.sock] = arrived[o.sock] + 1]
          \/ arrived' = arrived
      BY <1>5 DEF RecvArrives
    <3>3. arrived[o.sock] < MaxChunks => arrived[o.sock] + 1 \in 0 .. MaxChunks
      BY <1>3, <3>1
    <3>4. QED
      BY <3>1, <3>2, <3>3
  <2>3. arrived[o.sock] + 1 \in Nat
    BY <1>3 DEF TypeOK
  <2>4. QED
    BY <1>1, <1>5, <2>1, <2>2, <2>3 DEF RecvArrives
<1>6. CASE SendCompletes(o)
  <2>1. PICK n \in 0 .. blocks[o.blk].len : Complete(o, TRUE, n, 0)
    BY <1>6 DEF SendCompletes
  <2>2. n \in Nat
    BY <1>3 DEF TypeOK, Block
  <2>3. conns' \in 0 .. MaxConns /\ arrived' \in [Sockets -> 0 .. MaxChunks]
    BY <1>6 DEF SendCompletes, TypeOK, netVars
  <2>4. QED
    BY <1>1, <2>1, <2>2, <2>3
<1>7. CASE Aborts(o)
  <2>1. conns' \in 0 .. MaxConns /\ arrived' \in [Sockets -> 0 .. MaxChunks]
    BY <1>7 DEF Aborts, TypeOK, netVars
  <2>2. QED
    BY <1>1, <1>7, <2>1 DEF Aborts
<1>8. QED
  BY <1>2, <1>4, <1>5, <1>6, <1>7

\* A handler deletes its socket and its block.
LEMMA DeletesTyped ==
    ASSUME TypeOK, Linear, NEW w \in Busy
    PROVE  /\ DeleteSocket(Sock(w)) => life' \in [Sockets -> {"unborn", "live", "deleted"}]
           /\ DeleteBlock(Blk(w)) => freed' \in SUBSET DOMAIN blocks
           /\ ops \cup {Op(Sock(w), Blk(w))} \in SUBSET [sock : Sockets, blk : DOMAIN blocks]
<1>1. Sock(w) \in Sockets /\ Blk(w) \in DOMAIN blocks
  BY Working
<1>2. DeleteSocket(Sock(w)) => life' \in [Sockets -> {"unborn", "live", "deleted"}]
  BY DEF DeleteSocket, TypeOK
<1>3. DeleteBlock(Blk(w)) => freed' \in SUBSET DOMAIN blocks
  BY <1>1 DEF DeleteBlock, TypeOK
<1>4. Op(Sock(w), Blk(w)) \in [sock : Sockets, blk : DOMAIN blocks]
  BY <1>1 DEF Op
<1>5. QED
  BY <1>2, <1>3, <1>4 DEF TypeOK

\* A handler calls the callback of s with the chunk of its packet.
LEMMA CallbackTyped ==
    ASSUME TypeOK, StageInv, NEW w \in Busy, NEW s \in Sockets, OnRecvMsg(w, s),
           pc[w] \in {"RECV", "START_ACCEPT"} \cup AfterPost
    PROVE  /\ handed' \in [Sockets -> Seq(1 .. MaxChunks)]
           /\ fault' \in {"none", "wild", "overrun", "user"} \cup Stage
<1>1. cur[w].chunk \in 1 .. MaxChunks
  BY DEF StageInv, StageFits
<1>2. handed[s] \in Seq(1 .. MaxChunks)
  BY DEF TypeOK
<1>3. Append(handed[s], cur[w].chunk) \in Seq(1 .. MaxChunks)
  BY <1>1, <1>2
<1>4. handed' \in [Sockets -> Seq(1 .. MaxChunks)]
  BY <1>3 DEF OnRecvMsg, TypeOK
<1>5. QED
  BY <1>4 DEF OnRecvMsg, TypeOK

LEMMA HandlerTyped ==
    ASSUME TypeOK, Linear, SockInv, StageInv, Credits, NEW w \in Workers, Handler(w)
    PROVE  TypeOK'
<1>1. CASE Dequeue(w)
  <2>1. Head(queue) \in Packet /\ Tail(queue) \in Seq(Packet)
    BY <1>1 DEF Dequeue, TypeOK
  <2>2. Head(queue) # NoPacket
    BY <2>1, SocketIOAssumption DEF Packet, NoPacket
  <2>3. PICK stage \in Stage \ {"wait"} : pc' = [pc EXCEPT ![w] = stage]
    <3>1. 1 \in DOMAIN queue /\ Head(queue) = queue[1]
      BY <1>1 DEF Dequeue, TypeOK
    <3>2. blocks[Head(queue).blk].op \in {"SEND", "RECV", "START_ACCEPT"}
      <4>1. Op(Head(queue).sock, Head(queue).blk) \in Held
        BY <3>1 DEF Held
      <4>2. OpOf(Op(Head(queue).sock, Head(queue).blk)) \in OpType
        BY <4>1 DEF SockInv, Fits
      <4>3. QED
        BY <4>2 DEF Op, OpOf, OpType
    <3>3. QED
      BY <1>1, <3>2 DEF Dequeue, Stage
  <2>4. /\ pc' \in [Workers -> Stage] /\ cur' \in [Workers -> Packet \cup {NoPacket}]
        /\ \A v \in Workers : pc'[v] = "wait" <=> cur'[v] = NoPacket
    BY <1>1, <2>1, <2>2, <2>3 DEF Dequeue, TypeOK
  <2>5. QED
    BY <1>1, <2>1, <2>4 DEF Dequeue, TypeOK, heap, netVars, userVars
<1>2. CASE TouchesDeleted(w)
  <2>1. fault' \in {"none", "wild", "overrun", "user"} \cup Stage
    BY <1>2 DEF TouchesDeleted, TypeOK
  <2>2. QED
    BY <1>2, <2>1 DEF TouchesDeleted, TypeOK, heap, netVars, userVars
<1>3. CASE HandleFailed(w)
  <2>1. w \in Busy /\ Loop(w) /\ UNCHANGED <<queue, netVars, userVars>>
    BY <1>3 DEF HandleFailed, Step
  <2>2. life' \in [Sockets -> {"unborn", "live", "deleted"}] /\ freed' \in SUBSET DOMAIN blocks
    BY <1>3, <2>1, DeletesTyped DEF HandleFailed, TypeOK
  <2>3. QED
    BY <1>3, <2>1, <2>2, LoopTyped DEF HandleFailed, TypeOK, netVars, userVars
<1>4. CASE HandleZero(w)
  <2>1. w \in Busy /\ Loop(w) /\ UNCHANGED <<queue, netVars, userVars>>
    BY <1>4 DEF HandleZero, Step
  <2>2. life' \in [Sockets -> {"unborn", "live", "deleted"}] /\ freed' \in SUBSET DOMAIN blocks
    BY <1>4, <2>1, DeletesTyped DEF HandleZero, TypeOK
  <2>3. QED
    BY <1>4, <2>1, <2>2, LoopTyped DEF HandleZero, TypeOK, netVars, userVars
<1>5. CASE HandleSend(w)
  <2>1. w \in Busy /\ UNCHANGED <<queue, netVars, userVars, cb, handed>>
    BY <1>5 DEF HandleSend, Step
  <2>2. DEFINE done == blocks[Blk(w)].done + cur[w].bytes
               rest == (blocks[Blk(w)].len - done) % WordSize
  <2>3. done \in Nat /\ rest \in 0 .. (WordSize - 1) /\ Blk(w) \in DOMAIN blocks
    <3>1. blocks[Blk(w)] \in Block /\ cur[w] \in Packet /\ Blk(w) \in DOMAIN blocks
      BY <2>1, Working
    <3>2. done \in Nat /\ blocks[Blk(w)].len - done \in Int
      BY <3>1 DEF Block, Packet
    <3>3. \A i \in Int : i % WordSize \in 0 .. (WordSize - 1)
      <4>1. WordSize \in Nat /\ WordSize > 0
        BY SocketIOAssumption
      <4>2. QED
        BY <4>1
    <3>4. QED
      BY <3>1, <3>2, <3>3
  <2> HIDE DEF done, rest
  <2>4. \/ /\ DeleteBlock(Blk(w)) /\ Loop(w) /\ UNCHANGED <<life, blocks, ops, fault>>
        \/ /\ blocks' = [blocks EXCEPT ![Blk(w)] =
                            [@ EXCEPT !.off = done, !.len = rest, !.done = done]]
           /\ \/ fault' = "overrun" /\ UNCHANGED <<life, freed, ops, pc, cur>>
              \/ /\ ops' = ops \cup {Op(Sock(w), Blk(w))} /\ Loop(w)
                 /\ UNCHANGED <<life, freed, fault>>
              \/ /\ DeleteSocket(Sock(w)) /\ DeleteBlock(Blk(w)) /\ Loop(w)
                 /\ UNCHANGED <<ops, fault>>
    BY <1>5 DEF HandleSend, done, rest
  <2>5. blocks' \in Seq(Block) /\ DOMAIN blocks' = DOMAIN blocks
    <3>1. CASE UNCHANGED blocks
      BY <3>1 DEF TypeOK
    <3>2. CASE blocks' = [blocks EXCEPT ![Blk(w)] =
                             [@ EXCEPT !.off = done, !.len = rest, !.done = done]]
      BY <2>3, <3>2, ExceptBlock
    <3>3. QED
      BY <2>4, <3>1, <3>2
  <2>6. /\ life' \in [Sockets -> {"unborn", "live", "deleted"}]
        /\ freed' \in SUBSET DOMAIN blocks
        /\ ops' \in SUBSET [sock : Sockets, blk : DOMAIN blocks]
    BY <2>1, <2>4, DeletesTyped DEF TypeOK
  <2>7. /\ pc' \in [Workers -> Stage] /\ cur' \in [Workers -> Packet \cup {NoPacket}]
        /\ \A v \in Workers : pc'[v] = "wait" <=> cur'[v] = NoPacket
    BY <2>1, <2>4, LoopTyped DEF TypeOK
  <2>8. fault' \in {"none", "wild", "overrun", "user"} \cup Stage
    BY <2>4 DEF TypeOK
  <2>9. QED
    BY <2>1, <2>5, <2>6, <2>7, <2>8 DEF TypeOK, netVars, userVars
<1>6. CASE HandleRecv(w)
  <2>1. /\ w \in Busy /\ pc[w] = "RECV" /\ OnRecvMsg(w, Sock(w))
        /\ UNCHANGED <<queue, netVars, userVars, cb, blocks, ops>>
        /\ \/ DeleteSocket(Sock(w)) /\ DeleteBlock(Blk(w)) /\ Loop(w)
           \/ Goto(w, "repost") /\ UNCHANGED <<life, freed>>
    BY <1>6 DEF HandleRecv, Step
  <2>2. /\ handed' \in [Sockets -> Seq(1 .. MaxChunks)]
        /\ fault' \in {"none", "wild", "overrun", "user"} \cup Stage
    BY <2>1, Working, CallbackTyped
  <2>3. life' \in [Sockets -> {"unborn", "live", "deleted"}] /\ freed' \in SUBSET DOMAIN blocks
    BY <2>1, DeletesTyped DEF TypeOK
  <2>4. "repost" \in Stage \ {"wait"}
    BY DEF Stage
  <2>5. /\ pc' \in [Workers -> Stage] /\ cur' \in [Workers -> Packet \cup {NoPacket}]
        /\ \A v \in Workers : pc'[v] = "wait" <=> cur'[v] = NoPacket
    BY <2>1, <2>4, LoopTyped, GotoTyped
  <2>6. QED
    BY <2>1, <2>2, <2>3, <2>5 DEF TypeOK, netVars, userVars
<1>7. CASE Repost(w)
  <2>1. /\ w \in Busy /\ Loop(w) /\ UNCHANGED <<queue, netVars, userVars, cb, blocks, handed, fault>>
        /\ \/ ops' = ops \cup {Op(Sock(w), Blk(w))} /\ UNCHANGED <<life, freed>>
           \/ DeleteSocket(Sock(w)) /\ DeleteBlock(Blk(w)) /\ UNCHANGED ops
    BY <1>7 DEF Repost, Step
  <2>2. /\ life' \in [Sockets -> {"unborn", "live", "deleted"}]
        /\ freed' \in SUBSET DOMAIN blocks
        /\ ops' \in SUBSET [sock : Sockets, blk : DOMAIN blocks]
    BY <2>1, DeletesTyped DEF TypeOK
  <2>3. QED
    BY <2>1, <2>2, LoopTyped DEF TypeOK, netVars, userVars
<1>8. CASE HandleAccept(w)
  <2>1. /\ w \in Busy /\ pc[w] = "START_ACCEPT" /\ PostAcceptMsg(Sock(w)) /\ Goto(w, "onaccept")
        /\ UNCHANGED <<queue, netVars, userVars, freed, handed, fault>>
    BY <1>8 DEF HandleAccept, Step
  <2>2. Sock(w) \in Servers
    BY <2>1, AccepteeTyped
  <2>3. /\ life' \in [Sockets -> {"unborn", "live", "deleted"}] /\ cb' \in [Sockets -> Callback]
        /\ blocks' \in Seq(Block) /\ DOMAIN blocks \subseteq DOMAIN blocks'
        /\ ops' \in SUBSET [sock : Sockets, blk : DOMAIN blocks']
    <3>1. \E a \in Accepted : life[a] = "unborn"
      BY <2>1, RoomForConnection
    <3>2. QED
      BY <2>1, <2>2, <3>1, PostAcceptTyped, AppendBlock
  <2>4. "onaccept" \in Stage \ {"wait"}
    BY DEF Stage
  <2>5. QED
    BY <2>1, <2>3, <2>4, GotoTyped DEF TypeOK, netVars, userVars
<1>9. CASE OnAcceptSocket(w)
  <2>1. /\ w \in Busy /\ pc[w] = "onaccept"
        /\ UNCHANGED <<queue, netVars, userVars, life, cb, freed, handed, fault>>
        /\ Goto(w, "setcb") \/ Goto(w, "done")
        /\ \/ NewRecvBlock /\ (Posted(Acceptee(w)) \/ UNCHANGED ops)
           \/ UNCHANGED <<blocks, ops>>
    BY <1>9 DEF OnAcceptSocket, Step
  <2>2. Acceptee(w) \in Sockets
    BY <2>1, AccepteeTyped DEF AfterPost, Sockets
  <2>3. blocks' \in Seq(Block) /\ DOMAIN blocks \subseteq DOMAIN blocks'
        /\ ops' \in SUBSET [sock : Sockets, blk : DOMAIN blocks']
    <3>1. CASE UNCHANGED <<blocks, ops>>
      BY <3>1 DEF TypeOK
    <3>2. CASE NewRecvBlock /\ (Posted(Acceptee(w)) \/ UNCHANGED ops)
      <4>1. NewBlock("RECV", NoSocket, BufSize) \in Block
        BY NewBlockTyped, SocketIOAssumption DEF OpType
      <4>2. blocks' \in Seq(Block) /\ DOMAIN blocks' = DOMAIN blocks \cup {NextBlk}
        BY <3>2, <4>1, AppendBlock DEF NewRecvBlock
      <4>3. QED
        BY <2>2, <3>2, <4>2 DEF TypeOK, Posted, Op
    <3>3. QED
      BY <2>1, <3>1, <3>2
  <2>4. "setcb" \in Stage \ {"wait"} /\ "done" \in Stage \ {"wait"}
    BY DEF Stage
  <2>5. QED
    BY <2>1, <2>3, <2>4, GotoTyped DEF TypeOK, netVars, userVars
<1>10. CASE SetDataHandleFunc(w)
  <2>1. /\ w \in Busy /\ pc[w] = "setcb" /\ Goto(w, "first")
        /\ cb' = [cb EXCEPT ![Acceptee(w)] = cb[Sock(w)]]
        /\ UNCHANGED <<queue, netVars, userVars, life, heap, ops, handed, fault>>
    BY <1>10 DEF SetDataHandleFunc, Step
  <2>2. Sock(w) \in Sockets
    BY <2>1, Working
  <2>3. cb' \in [Sockets -> Callback]
    BY <2>1, <2>2 DEF TypeOK
  <2>4. "first" \in Stage \ {"wait"}
    BY DEF Stage
  <2>5. QED
    BY <2>1, <2>3, <2>4, GotoTyped DEF TypeOK, netVars, userVars, heap
<1>11. CASE FirstChunk(w)
  <2>1. /\ w \in Busy /\ pc[w] = "first" /\ Goto(w, "done") /\ OnRecvMsg(w, Acceptee(w))
        /\ UNCHANGED <<queue, netVars, userVars, life, cb, heap, ops>>
    BY <1>11 DEF FirstChunk, Step
  <2>2. Acceptee(w) \in Sockets
    BY <2>1, AccepteeTyped DEF AfterPost, Sockets
  <2>3. /\ handed' \in [Sockets -> Seq(1 .. MaxChunks)]
        /\ fault' \in {"none", "wild", "overrun", "user"} \cup Stage
    BY <2>1, <2>2, CallbackTyped DEF AfterPost
  <2>4. "done" \in Stage \ {"wait"}
    BY DEF Stage
  <2>5. QED
    BY <2>1, <2>3, <2>4, GotoTyped DEF TypeOK, netVars, userVars, heap
<1>12. CASE AcceptDone(w)
  <2>1. /\ w \in Busy /\ Loop(w) /\ DeleteBlock(Blk(w))
        /\ UNCHANGED <<queue, netVars, userVars, life, cb, blocks, ops, handed, fault>>
    BY <1>12 DEF AcceptDone, Step
  <2>2. freed' \in SUBSET DOMAIN blocks
    BY <2>1, DeletesTyped
  <2>3. QED
    BY <2>1, <2>2, LoopTyped DEF TypeOK, netVars, userVars
<1>13. QED
  BY <1>1, <1>2, <1>3, <1>4, <1>5, <1>6, <1>7, <1>8, <1>9, <1>10, <1>11, <1>12 DEF Handler

-----------------------------------------------------------------------------
(***************************************************************************)
(* What the steps preserve, by what they do with blocks.                   *)
(***************************************************************************)
CoreInv == TypeOK /\ Linear /\ SockInv /\ StageInv /\ Credits

\* Blocks keep what they are for, the only new one in use is the next, and a
\* socket, once created, stays created.
Moves ==
    /\ SameBlocks /\ KeepsLate
    /\ \A h \in Held' \ Held : h.blk = NextBlk
    /\ \A s \in Sockets : life[s] # "unborn" => life'[s] # "unborn"

Kept == Linear' /\ SockInv' /\ StageInv' /\ Credits' /\ Moves

\* New blocks, if any, are not those of accepts.
NoAccepts ==
    \A b \in DOMAIN blocks' \ DOMAIN blocks :
        blocks'[b].op # "START_ACCEPT" /\ blocks'[b].accepts = NoSocket

LEMMA LinearKept ==
    ASSUME Linear, OnePlace', Held' \subseteq Held, SameBlocks,
           \A h \in Held' : h.blk \notin freed'
    PROVE  Linear'
BY DEF Linear, Alive, SameBlocks

LEMMA CreditsKept ==
    ASSUME TypeOK, Linear, Credits, Born' = Born, Tickets' \subseteq Tickets,
           Listening \subseteq Listening', conns' = conns
    PROVE  Credits'
<1>1. Cardinality(Tickets') <= Cardinality(Tickets) /\ Cardinality(Tickets') \in Nat
  BY Finite, FS_Subset, FS_CardinalityType
<1>2. Cardinality(Listening) <= Cardinality(Listening') /\ Cardinality(Listening') \in Nat
  <2>1. IsFiniteSet(Listening')
    <3>1. Listening' \subseteq Servers
      BY DEF Listening
    <3>2. QED
      BY <3>1, FS_Subset, SocketIOAssumption
  <2>2. QED
    BY <2>1, FS_Subset, FS_CardinalityType
<1>3. conns \in Nat
  BY SocketIOAssumption DEF TypeOK
<1>4. QED
  BY <1>1, <1>2, <1>3, Finite DEF Credits

\* The stages of handlers that a step leaves where they are.
LEMMA OthersFit ==
    ASSUME TypeOK, Linear, StageInv, SameBlocks
    PROVE  /\ \A v \in Busy : cur'[v] = cur[v] => OpOf(cur[v])' = OpOf(cur[v])
           /\ \A i \in DOMAIN queue : blocks'[queue[i].blk].op = blocks[queue[i].blk].op
<1>1. \A v \in Busy : cur[v].blk \in DOMAIN blocks
  BY Working DEF Blk
<1>2. \A v \in Busy : cur'[v] = cur[v] => OpOf(cur[v])' = OpOf(cur[v])
  BY <1>1 DEF SameBlocks, OpOf
<1>3. \A i \in DOMAIN queue : queue[i].blk \in DOMAIN blocks
  <2>1. \A s, b : Op(s, b) \in Held => b \in DOMAIN blocks
    BY DEF Linear, Alive, Op
  <2>2. QED
    BY <2>1 DEF Held
<1>4. QED
  BY <1>1, <1>2, <1>3 DEF SameBlocks

\* A handler ends: it drops its block, and may delete its socket.
LEMMA EndsKeep ==
    ASSUME CoreInv, NEW w \in Busy, Loop(w),
           UNCHANGED <<ops, queue, conns, user, released>>, SameBlocks,
           DOMAIN blocks' = DOMAIN blocks,
           freed' = freed \/ DeleteBlock(Blk(w)),
           life' = life \/ DeleteSocket(Sock(w))
    PROVE  Kept
<1>0. TypeOK /\ Linear /\ SockInv /\ StageInv /\ Credits /\ OnePlace
  BY DEF CoreInv, Linear
<1>1. OnePlace' /\ Held' = Held \ {Op(Sock(w), Blk(w))}
  BY <1>0, Dropping
<1>2. /\ Busy' = Busy \ {w} /\ w \in Workers
      /\ \A v \in Workers \ {w} : pc'[v] = pc[v] /\ cur'[v] = cur[v]
      /\ pc'[w] = "wait"
  BY <1>0, LoopTyped DEF Loop, TypeOK
<1>3. \A h \in Held' : h.blk # Blk(w)
  BY <1>0, <1>1, HeldOnce, Working DEF Op
<1>4. Linear'
  <2>1. \A h \in Held' : h.blk \notin freed'
    BY <1>0, <1>1, <1>3 DEF Linear, Alive, DeleteBlock
  <2>2. QED
    BY <1>0, <1>1, <2>1, LinearKept
<1>5. KeepsLate
  <2>1. \A v \in Workers \ {w} : Blk(v)' = Blk(v)
    BY <1>2 DEF Blk
  <2>2. QED
    BY <1>2, <1>3, <2>1 DEF KeepsLate, Late, Attached, Handling
<1>6. /\ \A s \in Sockets : life'[s] = "unborn" <=> life[s] = "unborn"
      /\ KeepsBorn
  <2>1. Op(Sock(w), Blk(w)) \in Held /\ Sock(w) \in Sockets
    BY <1>0, Working
  <2>2. life[Sock(w)] # "unborn"
    BY <1>0, <2>1 DEF SockInv, Fits, Op
  <2>3. \A s \in Sockets : life'[s] = "unborn" <=> life[s] = "unborn"
    BY <1>0, <2>1, <2>2 DEF DeleteSocket, TypeOK
  <2>4. UserSockets \subseteq Sockets
    BY DEF Sockets
  <2>5. QED
    BY <1>0, <2>3, <2>4 DEF KeepsBorn, SockInv, UserBorn
<1>7. SockInv'
  BY <1>0, <1>1, <1>5, <1>6, Quiet
<1>8. StageInv'
  <2>1. StageFits'
    BY <1>0, <1>2, OthersFit DEF StageInv, StageFits
  <2>2. ChunksFit'
    BY <1>0, OthersFit DEF StageInv, ChunksFit, OpOf
  <2>3. Quiescent'
    BY <1>0, <1>2 DEF StageInv, Quiescent
  <2>4. QED
    BY <2>1, <2>2, <2>3 DEF StageInv
<1>9. Credits'
  <2>1. Born' = Born
    BY <1>6 DEF Born, Sockets
  <2>2. Tickets' \subseteq Tickets
    <3>1. Arriving' = Arriving
      BY <1>0, OthersFit DEF Arriving, OpOf
    <3>2. \A v \in Handling({"START_ACCEPT"})' : v \in Handling({"START_ACCEPT"}) /\ Blk(v)' = Blk(v)
      BY <1>2 DEF Handling, Blk
    <3>3. QED
      BY <3>1, <3>2 DEF Tickets
  <2>3. Listening' = Listening
    BY DEF Listening
  <2>4. QED
    BY <1>0, <2>1, <2>2, <2>3, CreditsKept
<1>10. QED
  BY <1>1, <1>4, <1>5, <1>6, <1>7, <1>8, <1>9 DEF Kept, Moves

\* A handler ends and posts its block again.
LEMMA RepostsKeep ==
    ASSUME CoreInv, NEW w \in Busy, Loop(w), pc[w] \in {"SEND", "repost"},
           ops' = ops \cup {Op(Sock(w), Blk(w))},
           UNCHANGED <<queue, life, freed, conns, user, released>>, SameBlocks,
           DOMAIN blocks' = DOMAIN blocks
    PROVE  Kept
<1>0. TypeOK /\ Linear /\ SockInv /\ StageInv /\ Credits /\ OnePlace
  BY DEF CoreInv, Linear
<1>1. OnePlace' /\ Held' = Held
  BY <1>0, Returning
<1>2. /\ Busy' = Busy \ {w} /\ w \in Workers
      /\ \A v \in Workers \ {w} : pc'[v] = pc[v] /\ cur'[v] = cur[v]
      /\ pc'[w] = "wait"
  BY <1>0, LoopTyped DEF Loop, TypeOK
<1>3. Linear'
  <2>1. \A h \in Held' : h.blk \notin freed'
    BY <1>0, <1>1 DEF Linear, Alive
  <2>2. QED
    BY <1>0, <1>1, <2>1, LinearKept
<1>4. KeepsLate
  <2>1. \A v \in Workers \ {w} : Blk(v)' = Blk(v)
    BY <1>2 DEF Blk
  <2>2. w \notin Handling(AfterPost) /\ w \notin Handling(AfterAttach)
    BY DEF Handling, AfterPost, AfterAttach
  <2>3. QED
    BY <1>2, <2>1, <2>2 DEF KeepsLate, Late, Attached, Handling
<1>5. KeepsBorn
  BY <1>0 DEF KeepsBorn, SockInv, UserBorn
<1>6. SockInv'
  BY <1>0, <1>1, <1>4, <1>5, Quiet
<1>7. StageInv'
  <2>1. StageFits'
    BY <1>0, <1>2, OthersFit DEF StageInv, StageFits
  <2>2. ChunksFit'
    BY <1>0, OthersFit DEF StageInv, ChunksFit, OpOf
  <2>3. Quiescent'
    BY <1>0, <1>2 DEF StageInv, Quiescent
  <2>4. QED
    BY <2>1, <2>2, <2>3 DEF StageInv
<1>8. Credits'
  <2>1. Tickets' \subseteq Tickets
    <3>1. Arriving' = Arriving
      BY <1>0, OthersFit DEF Arriving, OpOf
    <3>2. \A v \in Handling({"START_ACCEPT"})' : v \in Handling({"START_ACCEPT"}) /\ Blk(v)' = Blk(v)
      BY <1>2 DEF Handling, Blk
    <3>3. QED
      BY <3>1, <3>2 DEF Tickets
  <2>2. Born' = Born /\ Listening' = Listening
    BY DEF Born, Listening
  <2>3. QED
    BY <1>0, <2>1, <2>2, CreditsKept
<1>9. QED
  BY <1>1, <1>3, <1>4, <1>6, <1>7, <1>8 DEF Kept, Moves

\* A handler goes on to its next stage; no block moves.
LEMMA GoesOnKeep ==
    ASSUME CoreInv, NEW w \in Busy, NEW stage \in Stage \ {"wait", "START_ACCEPT"},
           Goto(w, stage),
           pc[w] \in AfterPost => stage \in AfterPost,
           pc[w] \in AfterAttach => stage \in AfterAttach,
           stage \in AfterPost => pc[w] \in AfterPost,
           stage \in {"RECV", "SEND", "repost"} => stage = "repost" /\ pc[w] = "RECV",
           UNCHANGED <<ops, queue, life, freed, conns, user, released>>, SameBlocks, NoAccepts
    PROVE  Kept
<1>0. TypeOK /\ Linear /\ SockInv /\ StageInv /\ Credits /\ OnePlace
  BY DEF CoreInv, Linear
<1>1. /\ Busy' = Busy /\ w \in Workers /\ cur' = cur
      /\ \A v \in Workers \ {w} : pc'[v] = pc[v]
      /\ pc'[w] = stage
  BY <1>0, GotoTyped DEF Goto
<1>2. OnePlace' /\ Held' = Held
  BY <1>0, <1>1, Staying
<1>3. Linear'
  <2>1. \A h \in Held' : h.blk \notin freed'
    BY <1>0, <1>2 DEF Linear, Alive
  <2>2. QED
    BY <1>0, <1>2, <2>1, LinearKept
<1>4. KeepsLate
  <2>1. \A v : Blk(v)' = Blk(v)
    BY <1>1 DEF Blk
  <2>2. \A v \in Handling(AfterPost) : v \in Handling(AfterPost)'
    BY <1>1 DEF Handling
  <2>3. \A v \in Handling(AfterAttach) : v \in Handling(AfterAttach)'
    BY <1>1 DEF Handling
  <2>4. QED
    BY <2>1, <2>2, <2>3 DEF KeepsLate, Late, Attached
<1>5. KeepsBorn
  BY <1>0 DEF KeepsBorn, SockInv, UserBorn
<1>6. SockInv'
  BY <1>0, <1>2, <1>4, <1>5, Quiet DEF NoAccepts
<1>7. StageInv'
  <2>1. StageFits'
    BY <1>0, <1>1, OthersFit DEF StageInv, StageFits, AfterPost, Stage
  <2>2. ChunksFit'
    BY <1>0, OthersFit DEF StageInv, ChunksFit, OpOf
  <2>3. Quiescent'
    BY <1>0, <1>1 DEF StageInv, Quiescent
  <2>4. QED
    BY <2>1, <2>2, <2>3 DEF StageInv
<1>8. Credits'
  <2>1. Tickets' \subseteq Tickets
    <3>1. Arriving' = Arriving
      BY <1>0, OthersFit DEF Arriving, OpOf
    <3>2. \A v \in Handling({"START_ACCEPT"})' : v \in Handling({"START_ACCEPT"}) /\ Blk(v)' = Blk(v)
      BY <1>1 DEF Handling, Blk
    <3>3. QED
      BY <3>1, <3>2 DEF Tickets
  <2>2. Born' = Born /\ Listening' = Listening
    BY DEF Born, Listening
  <2>3. QED
    BY <1>0, <2>1, <2>2, CreditsKept
<1>9. QED
  BY <1>2, <1>3, <1>4, <1>6, <1>7, <1>8 DEF Kept, Moves

\* Nothing moves: a step of the user, or one that ends the behaviour.
LEMMA RestsKeep ==
    ASSUME CoreInv, UNCHANGED <<ops, queue, pc, cur, freed, conns>>, SameBlocks, NoAccepts,
           KeepsBorn, \A a \in Accepted : life'[a] = life[a],
           released' = released \/ Busy = {}
    PROVE  Kept
<1>0. TypeOK /\ Linear /\ SockInv /\ StageInv /\ Credits /\ OnePlace
  BY DEF CoreInv, Linear
<1>1. OnePlace' /\ Held' = Held
  BY <1>0, Staying
<1>2. Linear'
  <2>1. \A h \in Held' : h.blk \notin freed'
    BY <1>0, <1>1 DEF Linear, Alive
  <2>2. QED
    BY <1>0, <1>1, <2>1, LinearKept
<1>3. KeepsLate
  BY DEF KeepsLate, Late, Attached, Handling, Blk
<1>4. SockInv'
  BY <1>0, <1>1, <1>3, Quiet DEF NoAccepts
<1>5. StageInv'
  <2>1. StageFits'
    BY <1>0, OthersFit DEF StageInv, StageFits
  <2>2. ChunksFit'
    BY <1>0, OthersFit DEF StageInv, ChunksFit, OpOf
  <2>3. Quiescent'
    BY <1>0 DEF StageInv, Quiescent
  <2>4. QED
    BY <2>1, <2>2, <2>3 DEF StageInv
<1>6. Credits'
  <2>1. Tickets' = Tickets
    <3>1. Arriving' = Arriving
      BY <1>0, OthersFit DEF Arriving, OpOf
    <3>2. QED
      BY <3>1 DEF Tickets, Handling, Blk
  <2>2. Born' = Born
    BY DEF Born
  <2>3. Listening \subseteq Listening'
    BY DEF Listening, KeepsBorn, UserSockets
  <2>4. QED
    BY <1>0, <2>1, <2>2, <2>3, CreditsKept
<1>7. QED
  BY <1>1, <1>2, <1>3, <1>4, <1>5, <1>6 DEF Kept, Moves, KeepsBorn

\* The kernel completes an operation; with `arrives`, a connection came with it.
LEMMA CompletesKeep ==
    ASSUME CoreInv, NEW o \in ops, NEW ok \in BOOLEAN, NEW bytes \in Nat, NEW chunk \in Nat,
           Complete(o, ok, bytes, chunk),
           ok /\ bytes # 0 /\ OpOf(o) # "SEND" => chunk \in 1 .. MaxChunks,
           \/ conns' = conns /\ ~(ok /\ bytes # 0 /\ OpOf(o) = "START_ACCEPT")
           \/ conns' = conns + 1
    PROVE  Kept
<1>0. TypeOK /\ Linear /\ SockInv /\ StageInv /\ Credits /\ OnePlace
  BY DEF CoreInv, Linear
<1>1. DEFINE p == [ok |-> ok, bytes |-> bytes, chunk |-> chunk, sock |-> o.sock, blk |-> o.blk]
<1>2. /\ p \in Packet /\ p.sock = o.sock /\ p.blk = o.blk /\ OpOf(p) = OpOf(o)
      /\ p.ok = ok /\ p.bytes = bytes /\ p.chunk = chunk
  BY <1>0 DEF Packet, TypeOK, OpOf
<1>3. /\ ops' = ops \ {o} /\ queue' = Append(queue, p)
      /\ UNCHANGED <<life, blocks, freed, pc, cur, user, released>>
  BY DEF Complete, heap, userVars
<1> HIDE DEF p
<1>4. OnePlace' /\ Held' = Held
  BY <1>0, <1>2, <1>3, Completing
<1>5. SameBlocks /\ NoAccepts
  BY <1>3 DEF SameBlocks, NoAccepts
<1>6. Linear'
  BY <1>0, <1>3, <1>4 DEF Linear, Alive
<1>7. SockInv'
  <2>1. KeepsLate /\ KeepsBorn
    BY <1>0, <1>3 DEF KeepsLate, Late, Attached, Handling, Blk, KeepsBorn, SockInv, UserBorn
  <2>2. QED
    BY <1>0, <1>4, <1>5, <2>1, Quiet DEF NoAccepts
<1>8. KeepsLate
  BY <1>3 DEF KeepsLate, Late, Attached, Handling, Blk
<1>9. /\ DOMAIN queue' = DOMAIN queue \cup {Len(queue) + 1}
      /\ \A i \in DOMAIN queue : queue'[i] = queue[i]
      /\ queue'[Len(queue) + 1] = p
  BY <1>0, <1>3 DEF TypeOK
<1>10. StageInv'
  <2>1. StageFits'
    BY <1>0, <1>3, <1>5, OthersFit DEF StageInv, StageFits
  <2>2. ChunksFit'
    <3>1. \A i \in DOMAIN queue' : queue'[i] = p \/ (i \in DOMAIN queue /\ queue'[i] = queue[i])
      BY <1>9
    <3>2. QED
      BY <1>0, <1>2, <1>3, <3>1 DEF StageInv, ChunksFit, OpOf
  <2>3. Quiescent'
    BY <1>0, <1>3 DEF StageInv, Quiescent
  <2>4. QED
    BY <2>1, <2>2, <2>3 DEF StageInv
<1>11. Credits'
  <2>1. Born' = Born /\ Listening' = Listening
    BY <1>3 DEF Born, Listening
  <2>2. /\ Handling({"START_ACCEPT"})' = Handling({"START_ACCEPT"})
        /\ \A v \in Handling({"START_ACCEPT"}) : Blk(v)' = Blk(v)
    BY <1>3 DEF Handling, Blk
  <2>3. \A i \in Arriving' : i \in Arriving \/ (queue'[i] = p /\ i = Len(queue) + 1)
    BY <1>3, <1>9 DEF Arriving, OpOf
  <2>4. \A i \in Arriving : queue'[i].blk = queue[i].blk
    BY <1>9 DEF Arriving
  <2>5. CASE conns' = conns /\ ~(ok /\ bytes # 0 /\ OpOf(o) = "START_ACCEPT")
    <3>1. \A i \in Arriving' : queue'[i] # p
      BY <1>2, <1>3, <2>5 DEF Arriving, OpOf
    <3>2. Tickets' \subseteq Tickets
      BY <2>2, <2>3, <2>4, <3>1 DEF Tickets
    <3>3. QED
      BY <1>0, <2>1, <2>5, <3>2, CreditsKept
  <2>6. CASE conns' = conns + 1
    <3>1. Tickets' \subseteq Tickets \cup {o.blk}
      BY <1>2, <2>2, <2>3, <2>4 DEF Tickets
    <3>2. /\ IsFiniteSet(Tickets \cup {o.blk})
          /\ Cardinality(Tickets \cup {o.blk}) \in Nat
          /\ Cardinality(Tickets \cup {o.blk}) <= Cardinality(Tickets) + 1
      <4>1. IsFiniteSet(Tickets) /\ Cardinality(Tickets) \in Nat
        BY <1>0, Finite
      <4>2. /\ IsFiniteSet(Tickets \cup {o.blk})
            /\ Cardinality(Tickets \cup {o.blk}) =
                  IF o.blk \in Tickets THEN Cardinality(Tickets) ELSE Cardinality(Tickets) + 1
        BY <4>1, FS_AddElement
      <4>3. QED
        BY <4>1, <4>2
    <3>3. Cardinality(Tickets') \in Nat /\ Cardinality(Tickets') <= Cardinality(Tickets) + 1
      <4>1. /\ IsFiniteSet(Tickets')
            /\ Cardinality(Tickets') <= Cardinality(Tickets \cup {o.blk})
        BY <3>1, <3>2, FS_Subset
      <4>2. Cardinality(Tickets') \in Nat
        BY <4>1, FS_CardinalityType
      <4>3. Cardinality(Tickets) \in Nat
        BY <1>0, Finite
      <4>4. QED
        BY <3>2, <4>1, <4>2, <4>3
    <3>4. conns \in Nat
      BY <1>0, SocketIOAssumption DEF TypeOK
    <3>5. Cardinality(Tickets) \in Nat /\ Cardinality(Born) \in Nat /\ Cardinality(Listening) \in Nat
      BY <1>0, Finite
    <3>6. QED
      BY <1>0, <2>1, <2>6, <3>3, <3>4, <3>5 DEF Credits
  <2>7. QED
    BY <2>5, <2>6
<1>12. QED
  BY <1>3, <1>4, <1>5, <1>6, <1>7, <1>10, <1>11, <1>8 DEF Kept, Moves

LEMMA KernelKeeps ==
    ASSUME CoreInv, Kernel
    PROVE  Kept
<1>1. PICK o \in ops : AcceptArrives(o) \/ RecvArrives(o) \/ SendCompletes(o) \/ Aborts(o)
  BY DEF Kernel
<1>2. TypeOK /\ SockInv /\ MaxChunks \in Nat \ {0} /\ o.sock \in Sockets /\ o.blk \in DOMAIN blocks
  BY SocketIOAssumption DEF CoreInv, TypeOK
<1>3. CASE AcceptArrives(o)
  <2>1. conns' = conns + 1 /\ (Complete(o, TRUE, 1, 1) \/ Complete(o, TRUE, 0, 0))
    BY <1>3 DEF AcceptArrives
  <2>2. 1 \in 1 .. MaxChunks
    BY <1>2
  <2>3. QED
    BY <2>1, <2>2, CompletesKeep
<1>4. CASE RecvArrives(o)
  <2>1. /\ conns' = conns /\ OpOf(o) = "RECV"
        /\ \/ arrived[o.sock] < MaxChunks /\ Complete(o, TRUE, 1, arrived[o.sock] + 1)
           \/ Complete(o, TRUE, 0, 0)
    BY <1>4 DEF RecvArrives
  <2>2. arrived[o.sock] \in 0 .. MaxChunks
    BY <1>2 DEF TypeOK
  <2>3. arrived[o.sock] < MaxChunks
        => arrived[o.sock] + 1 \in 1 .. MaxChunks /\ arrived[o.sock] + 1 \in Nat
    BY <1>2, <2>2
  <2>4. QED
    BY <2>1, <2>3, CompletesKeep
<1>5. CASE SendCompletes(o)
  <2>1. PICK n \in 0 .. blocks[o.blk].len : Complete(o, TRUE, n, 0)
    BY <1>5 DEF SendCompletes
  <2>2. n \in Nat
    BY <1>2 DEF TypeOK, Block
  <2>3. conns' = conns /\ OpOf(o) = "SEND"
    BY <1>5 DEF SendCompletes, netVars
  <2>4. QED
    BY <2>1, <2>2, <2>3, CompletesKeep
<1>6. CASE Aborts(o)
  <2>1. conns' = conns /\ Complete(o, FALSE, 0, 0)
    BY <1>6 DEF Aborts, netVars
  <2>2. QED
    BY <2>1, CompletesKeep
<1>7. QED
  BY <1>1, <1>3, <1>4, <1>5, <1>6

LEMMA DequeueKeeps ==
    ASSUME CoreInv, NEW w \in Workers, Dequeue(w)
    PROVE  Kept
<1>0. TypeOK /\ Linear /\ SockInv /\ StageInv /\ Credits /\ OnePlace
  BY DEF CoreInv, Linear
<1>1. /\ queue # <<>> /\ 1 \in DOMAIN queue /\ Head(queue) = queue[1] /\ queue[1] \in Packet
      /\ pc[w] = "wait" /\ w \notin Busy /\ ~released
      /\ UNCHANGED <<life, blocks, freed, ops, conns, user, released>>
  BY <1>0 DEF Dequeue, TypeOK, heap, netVars, userVars
<1>2. /\ \A i \in DOMAIN queue' : i + 1 \in DOMAIN queue /\ queue'[i] = queue[i + 1]
      /\ cur'[w] = queue[1]
      /\ \A v \in Workers \ {w} : pc'[v] = pc[v] /\ cur'[v] = cur[v]
  <2>1. queue' = Tail(queue) /\ cur' = [cur EXCEPT ![w] = queue[1]]
    BY <1>1 DEF Dequeue
  <2>2. cur'[w] = queue[1] /\ \A v \in Workers \ {w} : cur'[v] = cur[v]
    BY <1>0, <2>1 DEF TypeOK
  <2>3. \A v \in Workers \ {w} : pc'[v] = pc[v]
    BY <1>0 DEF TypeOK, Dequeue
  <2>4. \A i \in DOMAIN queue' : i + 1 \in DOMAIN queue /\ queue'[i] = queue[i + 1]
    BY <1>0, <1>1, <2>1 DEF TypeOK
  <2>5. QED
    BY <2>2, <2>3, <2>4
<1>3. queue[1].blk \in DOMAIN blocks /\ OpOf(queue[1]) \in OpType
  <2>1. Op(queue[1].sock, queue[1].blk) \in Held
    BY <1>1 DEF Held
  <2>2. queue[1].blk \in DOMAIN blocks
    BY <1>0, <2>1 DEF Linear, Alive, Op
  <2>3. OpOf(Op(queue[1].sock, queue[1].blk)) \in OpType
    BY <1>0, <2>1 DEF SockInv, Fits
  <2>4. QED
    BY <2>2, <2>3 DEF OpOf, Op
<1>4. PICK stage \in {"failed", "zero", "SEND", "RECV", "START_ACCEPT"} :
        /\ pc' = [pc EXCEPT ![w] = stage]
        /\ stage \notin {"failed", "zero"}
           => queue[1].ok /\ queue[1].bytes # 0 /\ stage = OpOf(queue[1])
  BY <1>1, <1>3 DEF Dequeue, OpOf, OpType
<1>5. pc'[w] = stage
  BY <1>0, <1>4 DEF TypeOK
<1>6. OnePlace' /\ Held' = Held
  <2>1. queue' = Tail(queue) /\ cur' = [cur EXCEPT ![w] = Head(queue)]
    BY DEF Dequeue
  <2>2. QED
    BY <1>0, <1>1, <1>4, <2>1, Taking
<1>7. Linear'
  BY <1>0, <1>1, <1>6 DEF Linear, Alive
<1>8. SameBlocks /\ NoAccepts
  BY <1>1 DEF SameBlocks, NoAccepts
<1>9. KeepsLate
  <2>1. \A v \in Workers : pc[v] # "wait" => pc'[v] = pc[v] /\ Blk(v)' = Blk(v)
    BY <1>1, <1>2 DEF Blk
  <2>2. Late \subseteq Late' /\ Attached \subseteq Attached'
    BY <2>1 DEF Late, Attached, Handling, AfterPost, AfterAttach
  <2>3. QED
    BY <2>2 DEF KeepsLate
<1>10. SockInv'
  <2>1. KeepsBorn
    BY <1>0, <1>1 DEF KeepsBorn, SockInv, UserBorn
  <2>2. QED
    BY <1>0, <1>6, <1>8, <1>9, <2>1, Quiet DEF NoAccepts
<1>11. StageInv'
  <2>1. StageFits'
    <3>1. OpOf(cur[w])' = OpOf(queue[1])
      BY <1>1, <1>2 DEF OpOf
    <3>2. stage \in {"RECV", "START_ACCEPT"} => queue[1].chunk \in 1 .. MaxChunks
      BY <1>0, <1>1, <1>4 DEF StageInv, ChunksFit
    <3>3. \A v \in Busy' : v = w \/ (v \in Busy /\ v # w)
      BY <1>2
    <3>4. \A v \in Busy : v # w => OpOf(cur[v])' = OpOf(cur[v])
      BY <1>0, <1>2, <1>8, OthersFit
    <3>5. QED
      BY <1>0, <1>2, <1>4, <1>5, <3>1, <3>2, <3>3, <3>4 DEF StageInv, StageFits, AfterPost
  <2>2. ChunksFit'
    BY <1>0, <1>1, <1>2 DEF StageInv, ChunksFit, OpOf
  <2>3. Quiescent'
    BY <1>1 DEF Quiescent
  <2>4. QED
    BY <2>1, <2>2, <2>3 DEF StageInv
<1>12. Credits'
  <2>1. \A i \in Arriving' : i + 1 \in Arriving /\ queue'[i] = queue[i + 1]
    BY <1>1, <1>2 DEF Arriving, OpOf
  <2>2. stage = "START_ACCEPT" => 1 \in Arriving
    BY <1>1, <1>4 DEF Arriving
  <2>3. \A v \in Handling({"START_ACCEPT"})' :
            \/ v = w /\ stage = "START_ACCEPT" /\ Blk(v)' = queue[1].blk
            \/ v \in Handling({"START_ACCEPT"}) /\ Blk(v)' = Blk(v)
    BY <1>2, <1>5 DEF Handling, Blk
  <2>4. Tickets' \subseteq Tickets
    BY <2>1, <2>2, <2>3 DEF Tickets
  <2>5. Born' = Born /\ Listening' = Listening
    BY <1>1 DEF Born, Listening
  <2>6. QED
    BY <1>0, <1>1, <2>4, <2>5, CreditsKept
<1>13. QED
  BY <1>1, <1>6, <1>7, <1>8, <1>10, <1>11, <1>12, <1>9 DEF Kept, Moves

\* A receive or a send is posted on s, with a new block.
LEMMA PostsDataKeep ==
    ASSUME CoreInv, KeepsLate, KeepsBorn,
           NEW s \in Sockets, NEW kind \in {"RECV", "SEND"}, NEW len \in 0 .. BufSize,
           blocks' = Append(blocks, NewBlock(kind, NoSocket, len)), Posted(s),
           UNCHANGED <<queue, cur, freed, life, conns, released>>, Busy' = Busy,
           \A v \in Busy : pc'[v] = pc[v] \/ (pc[v] \in AfterPost /\ pc'[v] \in AfterPost),
           life[s] # "unborn", s \notin Servers,
           s \in UserSockets => user'[s] \notin {"none", "started"},
           kind = "SEND" => s \in Clients,
           kind = "RECV" => \A h \in Held : OpOf(h) = "RECV" => h.sock # s,
           \A h \in Held : OpOf(h) = "START_ACCEPT" /\ h.blk \notin Attached'
                           => blocks[h.blk].accepts # s
    PROVE  Kept
<1>0. TypeOK /\ Linear /\ SockInv /\ StageInv /\ Credits /\ OnePlace
  BY DEF CoreInv, Linear
<1>1. OnePlace' /\ Held' = Held \cup {Op(s, NextBlk)}
  BY <1>0, Adding
<1>2. NewBlock(kind, NoSocket, len) \in Block
  BY NewBlockTyped DEF OpType
<1>3. /\ DOMAIN blocks' = DOMAIN blocks \cup {NextBlk}
      /\ NextBlk \notin DOMAIN blocks
      /\ \A c \in DOMAIN blocks : blocks'[c] = blocks[c]
  BY <1>0, <1>2, AppendBlock
<1>4. SameBlocks
  BY <1>3 DEF SameBlocks
<1>5. Linear'
  <2>1. NextBlk \notin freed /\ freed \subseteq DOMAIN blocks
    BY <1>0, <1>3 DEF TypeOK
  <2>2. \A h \in Held' : \/ h \in Held
                         \/ h.sock = s /\ h.blk \in DOMAIN blocks' /\ h.blk \notin freed
    BY <1>1, <1>3, <2>1 DEF Op
  <2>3. QED
    BY <1>0, <1>1, <1>3, <2>2 DEF Linear, Alive
<1>6. SockInv'
  BY <1>0, <1>1, PostsData
<1>7. StageInv'
  <2>1. StageFits'
    BY <1>0, <1>4, OthersFit DEF StageInv, StageFits, AfterPost
  <2>2. ChunksFit'
    BY <1>0, <1>4, OthersFit DEF StageInv, ChunksFit, OpOf
  <2>3. Quiescent'
    BY <1>0 DEF StageInv, Quiescent
  <2>4. QED
    BY <2>1, <2>2, <2>3 DEF StageInv
<1>8. Credits'
  <2>1. Arriving' = Arriving
    BY <1>0, <1>4, OthersFit DEF Arriving, OpOf
  <2>2. \A v \in Handling({"START_ACCEPT"})' : v \in Handling({"START_ACCEPT"}) /\ Blk(v)' = Blk(v)
    BY DEF Handling, Blk, AfterPost
  <2>3. Tickets' \subseteq Tickets
    BY <2>1, <2>2 DEF Tickets
  <2>4. Born' = Born
    BY DEF Born
  <2>5. Listening \subseteq Listening'
    BY DEF Listening, KeepsBorn, UserSockets
  <2>6. QED
    BY <1>0, <2>3, <2>4, <2>5, CreditsKept
<1>9. \A h \in Held' \ Held : h.blk = NextBlk
  BY <1>1 DEF Op
<1>10. QED
  BY <1>4, <1>5, <1>6, <1>7, <1>8, <1>9 DEF Kept, Moves

\* An accept is posted on s with a new connection, or fails to be.
LEMMA PostsAcceptKeep ==
    ASSUME CoreInv, KeepsLate, NEW s \in Servers, NEW a \in Accepted, life[a] = "unborn",
           life' = [life EXCEPT ![a] = "live"],
           blocks' = Append(blocks, NewBlock("START_ACCEPT", a, 0)), Posted(s) \/ UNCHANGED ops,
           UNCHANGED <<queue, cur, freed, released>>, Busy' = Busy,
           \A r \in UserSockets \ {s} : user'[r] = user[r],
           \A v \in Busy : pc'[v] = pc[v] \/ (pc[v] = "START_ACCEPT" /\ pc'[v] = "onaccept"),
           life[s] # "unborn", user'[s] \notin {"none", "started"},
           \A h \in Held : h.sock = s => h.blk \in Late'
    PROVE  /\ Linear' /\ SockInv' /\ StageInv'
           /\ Born' = Born \cup {a} /\ a \notin Born
           /\ Arriving' = Arriving /\ \A i \in Arriving : queue'[i].blk = queue[i].blk
           /\ Moves
<1>0. TypeOK /\ Linear /\ SockInv /\ StageInv /\ Credits /\ OnePlace
  BY DEF CoreInv, Linear
<1>1. s \in Sockets /\ a \in Sockets /\ UserSockets \subseteq Sockets /\ a \notin UserSockets
  BY SocketIOAssumption DEF Sockets, UserSockets
<1>2. OnePlace' /\ (Held' = Held \cup {Op(s, NextBlk)} \/ Held' = Held)
  BY <1>0, <1>1, Adding, Staying
<1>3. NewBlock("START_ACCEPT", a, 0) \in Block
  BY NewBlockTyped, SocketIOAssumption DEF OpType
<1>4. /\ DOMAIN blocks' = DOMAIN blocks \cup {NextBlk}
      /\ NextBlk \notin DOMAIN blocks
      /\ \A c \in DOMAIN blocks : blocks'[c] = blocks[c]
  BY <1>0, <1>3, AppendBlock
<1>5. SameBlocks
  BY <1>4 DEF SameBlocks
<1>6. Linear'
  <2>1. NextBlk \notin freed /\ freed \subseteq DOMAIN blocks
    BY <1>0, <1>4 DEF TypeOK
  <2>2. \A h \in Held' : \/ h \in Held
                         \/ h.sock = s /\ h.blk \in DOMAIN blocks' /\ h.blk \notin freed
    BY <1>2, <1>4, <2>1 DEF Op
  <2>3. QED
    BY <1>0, <1>1, <1>2, <1>4, <2>2 DEF Linear, Alive
<1>7. life'[a] # "unborn" /\ \A r \in Sockets \ {a} : life'[r] = life[r]
  BY <1>0, <1>1 DEF TypeOK
<1>8. KeepsBorn
  BY <1>0, <1>1, <1>7 DEF KeepsBorn, SockInv, UserBorn
<1>9. SockInv'
  BY <1>0, <1>2, <1>7, <1>8, PostsAccept
<1>10. StageInv'
  <2>1. StageFits'
    BY <1>0, <1>5, OthersFit DEF StageInv, StageFits, AfterPost
  <2>2. ChunksFit'
    BY <1>0, <1>5, OthersFit DEF StageInv, ChunksFit, OpOf
  <2>3. Quiescent'
    BY <1>0 DEF StageInv, Quiescent
  <2>4. QED
    BY <2>1, <2>2, <2>3 DEF StageInv
<1>11. Born' = Born \cup {a} /\ a \notin Born
  BY <1>1, <1>7 DEF Born, Sockets
<1>12. Arriving' = Arriving /\ \A i \in Arriving : queue'[i].blk = queue[i].blk
  BY <1>0, <1>5, OthersFit DEF Arriving, OpOf
<1>13. \A h \in Held' \ Held : h.blk = NextBlk
  BY <1>2 DEF Op
<1>14. QED
  BY <1>5, <1>6, <1>8, <1>9, <1>10, <1>11, <1>12, <1>13 DEF Moves, KeepsBorn

LEMMA HandleAcceptKeeps ==
    ASSUME CoreInv, NEW w \in Workers, HandleAccept(w)
    PROVE  Kept
<1>0. TypeOK /\ Linear /\ SockInv /\ StageInv /\ Credits /\ OnePlace
  BY DEF CoreInv, Linear
<1>1. /\ w \in Busy /\ pc[w] = "START_ACCEPT" /\ PostAcceptMsg(Sock(w)) /\ Goto(w, "onaccept")
      /\ UNCHANGED <<queue, conns, user, released, freed>>
  BY DEF HandleAccept, Step, netVars, userVars
<1>2. Sock(w) \in Servers /\ blocks[Blk(w)].op = "START_ACCEPT"
  BY <1>0, <1>1, AccepteeTyped
<1>3. PICK a \in Accepted :
        /\ life[a] = "unborn" /\ life' = [life EXCEPT ![a] = "live"]
        /\ blocks' = Append(blocks, NewBlock("START_ACCEPT", a, 0))
        /\ Posted(Sock(w)) \/ UNCHANGED ops
  <2>1. \E a \in Accepted : life[a] = "unborn"
    BY <1>0, <1>1, RoomForConnection
  <2>2. QED
    BY <1>0, <1>1, <1>2, <2>1, PostAcceptTyped
<1>4. Op(Sock(w), Blk(w)) \in Held
  BY <1>0, <1>1, Working
<1>5. /\ cur' = cur /\ Busy' = Busy /\ pc'[w] = "onaccept"
      /\ \A v \in Workers \ {w} : pc'[v] = pc[v]
  <2>1. "onaccept" \in Stage \ {"wait"}
    BY DEF Stage
  <2>2. QED
    BY <1>0, <1>1, <2>1, GotoTyped DEF Goto
<1>6. Late' = Late \cup {Blk(w)} /\ Attached' = Attached
  <2>1. Handling(AfterPost)' = Handling(AfterPost) \cup {w}
    BY <1>1, <1>5 DEF Handling, AfterPost
  <2>2. Handling(AfterAttach)' = Handling(AfterAttach)
    BY <1>1, <1>5 DEF Handling, AfterAttach
  <2>3. \A v : Blk(v)' = Blk(v)
    BY <1>5 DEF Blk
  <2>4. QED
    BY <2>1, <2>2, <2>3 DEF Late, Attached
<1>7. KeepsLate
  BY <1>6 DEF KeepsLate
<1>8. Blk(w) \notin Late
  BY <1>0, <1>1 DEF Late, Handling, AfterPost, OnePlace
<1>9. \A h \in Held : h.sock = Sock(w) => h.blk \in Late'
  <2>1. SUFFICES ASSUME NEW h \in Held, h.sock = Sock(w), h.blk \notin Late
                 PROVE  h.blk = Blk(w)
    BY <1>6
  <2>2. OpOf(h) = "START_ACCEPT"
    BY <1>0, <1>2, <2>1 DEF SockInv, Fits
  <2>3. \A g \in Held : g.sock = Sock(w) /\ OpOf(g) = "START_ACCEPT" /\ g.blk \notin Late => g = h
    BY <1>0, <2>1, <2>2 DEF SockInv, OneListening
  <2>4. QED
    BY <1>2, <1>4, <1>8, <2>3 DEF Op, OpOf
<1>10. life[Sock(w)] # "unborn" /\ user'[Sock(w)] \notin {"none", "started"}
  BY <1>0, <1>1, <1>2, <1>4 DEF SockInv, Fits, Op, UserSockets
<1>11. /\ Linear' /\ SockInv' /\ StageInv'
       /\ Born' = Born \cup {a} /\ a \notin Born
       /\ Arriving' = Arriving /\ \A i \in Arriving : queue'[i].blk = queue[i].blk
       /\ Moves
  BY <1>1, <1>2, <1>3, <1>5, <1>7, <1>9, <1>10, PostsAcceptKeep
<1>12. Credits'
  <2>1. Tickets' \subseteq Tickets \ {Blk(w)} /\ Blk(w) \in Tickets
    <3>1. \A v \in Handling({"START_ACCEPT"})' :
              v # w /\ v \in Handling({"START_ACCEPT"}) /\ Blk(v)' = Blk(v)
      BY <1>5 DEF Handling, Blk
    <3>2. \A v \in Handling({"START_ACCEPT"}) : v # w => Blk(v) # Blk(w)
      BY <1>0, <1>1 DEF Handling, OnePlace
    <3>3. \A i \in Arriving : queue[i].blk # Blk(w)
      BY <1>0, <1>1 DEF Arriving, OnePlace
    <3>4. w \in Handling({"START_ACCEPT"})
      BY <1>1 DEF Handling
    <3>5. QED
      BY <1>11, <3>1, <3>2, <3>3, <3>4 DEF Tickets
  <2>2. /\ IsFiniteSet(Tickets) /\ IsFiniteSet(Born)
        /\ Cardinality(Tickets) \in Nat /\ Cardinality(Born) \in Nat /\ Cardinality(Listening) \in Nat
    BY <1>0, Finite
  <2>3. IsFiniteSet(Tickets \ {Blk(w)}) /\ Cardinality(Tickets \ {Blk(w)}) = Cardinality(Tickets) - 1
    BY <2>1, <2>2, FS_RemoveElement
  <2>4. Cardinality(Tickets') \in Nat /\ Cardinality(Tickets') <= Cardinality(Tickets) - 1
    BY <2>1, <2>3, FS_Subset, FS_CardinalityType
  <2>5. Cardinality(Born') = Cardinality(Born) + 1
    BY <1>11, <2>2, FS_AddElement
  <2>6. Listening' = Listening /\ conns' = conns /\ conns \in Nat
    BY <1>0, <1>1, SocketIOAssumption DEF Listening, TypeOK
  <2>7. QED
    BY <1>0, <2>2, <2>4, <2>5, <2>6 DEF Credits
<1>13. QED
  BY <1>11, <1>12 DEF Kept

\* Appending the block of a receive or a send changes no other.
LEMMA DataBlock ==
    ASSUME TypeOK, NEW kind \in {"RECV", "SEND"}, NEW len \in 0 .. BufSize,
           blocks' = Append(blocks, NewBlock(kind, NoSocket, len))
    PROVE  SameBlocks /\ NoAccepts
<1>1. NewBlock(kind, NoSocket, len) \in Block
  BY NewBlockTyped DEF OpType
<1>2. /\ DOMAIN blocks' = DOMAIN blocks \cup {NextBlk}
      /\ blocks'[NextBlk] = NewBlock(kind, NoSocket, len)
      /\ \A c \in DOMAIN blocks : blocks'[c] = blocks[c]
  BY <1>1, AppendBlock
<1>3. QED
  BY <1>2 DEF SameBlocks, NoAccepts, NewBlock

LEMMA OnAcceptSocketKeeps ==
    ASSUME CoreInv, NEW w \in Workers, OnAcceptSocket(w)
    PROVE  Kept
<1>0. TypeOK /\ Linear /\ SockInv /\ StageInv /\ OnePlace
  BY DEF CoreInv, Linear
<1>1. /\ w \in Busy /\ pc[w] = "onaccept"
      /\ UNCHANGED <<queue, conns, user, released, life, freed>>
      /\ \/ NewRecvBlock /\ Posted(Acceptee(w)) /\ Goto(w, "setcb")
         \/ NewRecvBlock /\ Goto(w, "done") /\ UNCHANGED ops
         \/ Goto(w, "done") /\ UNCHANGED <<blocks, ops>>
  BY DEF OnAcceptSocket, Step, netVars, userVars
<1>2. "done" \in Stage \ {"wait", "START_ACCEPT"} /\ "setcb" \in Stage \ {"wait", "START_ACCEPT"}
  BY DEF Stage
<1>3. BufSize \in 0 .. BufSize
  BY SocketIOAssumption
<1>4. NewRecvBlock => SameBlocks /\ NoAccepts
  BY <1>0, <1>3, DataBlock DEF NewRecvBlock
<1>5. CASE Goto(w, "done") /\ UNCHANGED ops /\ (NewRecvBlock \/ UNCHANGED blocks)
  <2>1. SameBlocks /\ NoAccepts
    BY <1>4, <1>5 DEF SameBlocks, NoAccepts
  <2>2. QED
    BY <1>1, <1>2, <1>5, <2>1, GoesOnKeep DEF AfterPost, AfterAttach
<1>6. CASE NewRecvBlock /\ Posted(Acceptee(w)) /\ Goto(w, "setcb")
  <2>1. /\ Acceptee(w) \in Accepted /\ life[Acceptee(w)] # "unborn"
        /\ blocks[Blk(w)].op = "START_ACCEPT"
    BY <1>0, <1>1, AccepteeTyped DEF AfterPost
  <2>2. /\ Acceptee(w) \in Sockets /\ Acceptee(w) \notin Servers /\ Acceptee(w) \notin UserSockets
    BY <2>1, SocketIOAssumption DEF Sockets, UserSockets
  <2>3. Op(Sock(w), Blk(w)) \in Held /\ Blk(w) \in DOMAIN blocks
    BY <1>0, <1>1, Working
  <2>4. /\ cur' = cur /\ Busy' = Busy /\ pc'[w] = "setcb"
        /\ \A v \in Workers \ {w} : pc'[v] = pc[v]
    BY <1>0, <1>1, <1>2, <1>6, GotoTyped DEF Goto
  <2>5. Late' = Late /\ Attached' = Attached \cup {Blk(w)}
    <3>1. Handling(AfterPost)' = Handling(AfterPost)
      BY <1>1, <2>4 DEF Handling, AfterPost
    <3>2. Handling(AfterAttach)' = Handling(AfterAttach) \cup {w}
      BY <1>1, <2>4 DEF Handling, AfterAttach
    <3>3. \A v : Blk(v)' = Blk(v)
      BY <2>4 DEF Blk
    <3>4. QED
      BY <3>1, <3>2, <3>3 DEF Late, Attached
  <2>6. KeepsLate
    BY <2>5 DEF KeepsLate
  <2>7. KeepsBorn
    BY <1>0, <1>1 DEF KeepsBorn, SockInv, UserBorn
  <2>8. Blk(w) \notin Attached
    BY <1>0, <1>1 DEF Attached, Handling, AfterAttach, OnePlace
  <2>9. \A h \in Held : h.sock # Acceptee(w)
    BY <1>0, <2>1, <2>3, <2>8 DEF SockInv, Untouched, Op, OpOf, Acceptee
  <2>10. ASSUME NEW h \in Held, OpOf(h) = "START_ACCEPT", h.blk \notin Attached'
         PROVE  blocks[h.blk].accepts # Acceptee(w)
    <3>1. h.blk # Blk(w) /\ h.blk \in DOMAIN blocks
      BY <1>0, <2>5, <2>10 DEF Linear, Alive
    <3>2. QED
      BY <1>0, <2>1, <2>3, <2>10, <3>1 DEF SockInv, Targets, Acceptee, OpOf
  <2>11. \A v \in Busy : pc'[v] = pc[v] \/ (pc[v] \in AfterPost /\ pc'[v] \in AfterPost)
    BY <1>1, <2>4 DEF AfterPost
  <2>12. blocks' = Append(blocks, NewBlock("RECV", NoSocket, BufSize))
    BY <1>6 DEF NewRecvBlock
  <2>13. QED
    BY <1>1, <1>3, <1>6, <2>1, <2>2, <2>4, <2>6, <2>7, <2>9, <2>10, <2>11, <2>12, PostsDataKeep
<1>7. QED
  BY <1>1, <1>5, <1>6

LEMMA HandlerKeeps ==
    ASSUME CoreInv, NEW w \in Workers, Handler(w)
    PROVE  Kept
<1>0. TypeOK /\ Linear /\ SockInv /\ StageInv /\ OnePlace
  BY DEF CoreInv, Linear
<1>1. CASE TouchesDeleted(w)
  <2>1. UNCHANGED <<life, blocks, freed, ops, queue, pc, cur, conns, user, released>>
    BY <1>1 DEF TouchesDeleted, heap, netVars, userVars
  <2>2. SameBlocks /\ NoAccepts /\ KeepsBorn
    BY <1>0, <2>1 DEF SameBlocks, NoAccepts, KeepsBorn, SockInv, UserBorn
  <2>3. QED
    BY <2>1, <2>2, RestsKeep
<1>2. CASE HandleFailed(w)
  <2>1. /\ w \in Busy /\ Loop(w) /\ UNCHANGED <<blocks, ops, queue, conns, user, released>>
        /\ freed' = freed \/ DeleteBlock(Blk(w))
        /\ life' = life \/ DeleteSocket(Sock(w))
    BY <1>2 DEF HandleFailed, Step, netVars, userVars
  <2>2. QED
    BY <2>1, EndsKeep DEF SameBlocks
<1>3. CASE HandleZero(w)
  <2>1. /\ w \in Busy /\ Loop(w) /\ UNCHANGED <<blocks, ops, queue, conns, user, released>>
        /\ DeleteBlock(Blk(w)) /\ DeleteSocket(Sock(w))
    BY <1>3 DEF HandleZero, Step, netVars, userVars
  <2>2. QED
    BY <2>1, EndsKeep DEF SameBlocks
<1>4. CASE HandleSend(w)
  <2>1. DEFINE done == blocks[Blk(w)].done + cur[w].bytes
               rest == (blocks[Blk(w)].len - done) % WordSize
  <2>2. /\ w \in Busy /\ pc[w] = "SEND" /\ UNCHANGED <<queue, conns, user, released>>
        /\ \/ DeleteBlock(Blk(w)) /\ Loop(w) /\ UNCHANGED <<life, blocks, ops>>
           \/ /\ blocks' = [blocks EXCEPT ![Blk(w)] =
                               [@ EXCEPT !.off = done, !.len = rest, !.done = done]]
              /\ \/ UNCHANGED <<life, freed, ops, pc, cur>>
                 \/ /\ ops' = ops \cup {Op(Sock(w), Blk(w))} /\ Loop(w)
                    /\ UNCHANGED <<life, freed>>
                 \/ DeleteSocket(Sock(w)) /\ DeleteBlock(Blk(w)) /\ Loop(w) /\ UNCHANGED ops
    BY <1>4 DEF HandleSend, Step, netVars, userVars
  <2> HIDE DEF done, rest
  <2>3. SameBlocks /\ DOMAIN blocks' = DOMAIN blocks
    <3>1. CASE UNCHANGED blocks
      BY <3>1 DEF SameBlocks
    <3>2. CASE blocks' = [blocks EXCEPT ![Blk(w)] =
                             [@ EXCEPT !.off = done, !.len = rest, !.done = done]]
      <4>1. Blk(w) \in DOMAIN blocks /\ blocks[Blk(w)] \in Block
        BY <1>0, <2>2, Working
      <4>2. /\ [blocks[Blk(w)] EXCEPT !.off = done, !.len = rest, !.done = done].op
                 = blocks[Blk(w)].op
            /\ [blocks[Blk(w)] EXCEPT !.off = done, !.len = rest, !.done = done].accepts
                 = blocks[Blk(w)].accepts
        BY <4>1 DEF Block
      <4>3. DOMAIN blocks' = DOMAIN blocks
        BY <3>2
      <4>4. QED
        BY <1>0, <3>2, <4>1, <4>2, <4>3 DEF SameBlocks, TypeOK
    <3>3. QED
      BY <2>2, <3>1, <3>2
  <2>4. NoAccepts
    BY <2>3 DEF NoAccepts
  <2>5. CASE UNCHANGED <<life, freed, ops, pc, cur>>
    <3>1. KeepsBorn
      BY <1>0, <2>2, <2>5 DEF KeepsBorn, SockInv, UserBorn
    <3>2. QED
      BY <2>2, <2>3, <2>4, <2>5, <3>1, RestsKeep
  <2>6. CASE ops' = ops \cup {Op(Sock(w), Blk(w))} /\ Loop(w) /\ UNCHANGED <<life, freed>>
    BY <2>2, <2>3, <2>6, RepostsKeep
  <2>7. CASE /\ DeleteBlock(Blk(w)) /\ Loop(w) /\ UNCHANGED ops
             /\ life' = life \/ DeleteSocket(Sock(w))
    BY <2>2, <2>3, <2>7, EndsKeep
  <2>8. QED
    BY <2>2, <2>5, <2>6, <2>7
<1>5. CASE HandleRecv(w)
  <2>1. /\ w \in Busy /\ pc[w] = "RECV" /\ UNCHANGED <<blocks, ops, queue, conns, user, released>>
        /\ \/ DeleteSocket(Sock(w)) /\ DeleteBlock(Blk(w)) /\ Loop(w)
           \/ Goto(w, "repost") /\ UNCHANGED <<life, freed>>
    BY <1>5 DEF HandleRecv, Step, netVars, userVars
  <2>2. SameBlocks /\ NoAccepts /\ "repost" \in Stage \ {"wait", "START_ACCEPT"}
    BY <2>1 DEF SameBlocks, NoAccepts, Stage
  <2>3. CASE DeleteSocket(Sock(w)) /\ DeleteBlock(Blk(w)) /\ Loop(w)
    BY <2>1, <2>2, <2>3, EndsKeep
  <2>4. CASE Goto(w, "repost") /\ UNCHANGED <<life, freed>>
    BY <2>1, <2>2, <2>4, GoesOnKeep DEF AfterPost, AfterAttach
  <2>5. QED
    BY <2>1, <2>3, <2>4
<1>6. CASE Repost(w)
  <2>1. /\ w \in Busy /\ pc[w] = "repost" /\ Loop(w)
        /\ UNCHANGED <<blocks, queue, conns, user, released>>
        /\ \/ ops' = ops \cup {Op(Sock(w), Blk(w))} /\ UNCHANGED <<life, freed>>
           \/ DeleteSocket(Sock(w)) /\ DeleteBlock(Blk(w)) /\ UNCHANGED ops
    BY <1>6 DEF Repost, Step, netVars, userVars
  <2>2. SameBlocks
    BY <2>1 DEF SameBlocks
  <2>3. QED
    BY <2>1, <2>2, RepostsKeep, EndsKeep
<1>7. CASE SetDataHandleFunc(w)
  <2>1. /\ w \in Busy /\ pc[w] = "setcb" /\ Goto(w, "first")
        /\ UNCHANGED <<life, blocks, freed, ops, queue, conns, user, released>>
    BY <1>7 DEF SetDataHandleFunc, Step, heap, netVars, userVars
  <2>2. SameBlocks /\ NoAccepts /\ "first" \in Stage \ {"wait", "START_ACCEPT"}
    BY <2>1 DEF SameBlocks, NoAccepts, Stage
  <2>3. QED
    BY <2>1, <2>2, GoesOnKeep DEF AfterPost, AfterAttach
<1>8. CASE FirstChunk(w)
  <2>1. /\ w \in Busy /\ pc[w] = "first" /\ Goto(w, "done")
        /\ UNCHANGED <<life, blocks, freed, ops, queue, conns, user, released>>
    BY <1>8 DEF FirstChunk, Step, heap, netVars, userVars
  <2>2. SameBlocks /\ NoAccepts /\ "done" \in Stage \ {"wait", "START_ACCEPT"}
    BY <2>1 DEF SameBlocks, NoAccepts, Stage
  <2>3. QED
    BY <2>1, <2>2, GoesOnKeep DEF AfterPost, AfterAttach
<1>9. CASE AcceptDone(w)
  <2>1. /\ w \in Busy /\ Loop(w) /\ DeleteBlock(Blk(w))
        /\ UNCHANGED <<life, blocks, ops, queue, conns, user, released>>
    BY <1>9 DEF AcceptDone, Step, netVars, userVars
  <2>2. QED
    BY <2>1, EndsKeep DEF SameBlocks
<1>10. QED
  BY <1>1, <1>2, <1>3, <1>4, <1>5, <1>6, <1>7, <1>8, <1>9,
     DequeueKeeps, HandleAcceptKeeps, OnAcceptSocketKeeps DEF Handler

LEMMA UserKeeps ==
    ASSUME CoreInv, User
    PROVE  Kept
<1>0. TypeOK /\ Linear /\ SockInv /\ StageInv /\ Credits /\ OnePlace
  BY DEF CoreInv, Linear
<1>1. /\ UserSockets \subseteq Sockets /\ Accepted \cap UserSockets = {}
      /\ Servers \cup Clients = UserSockets /\ Servers \cap Clients = {}
  BY SocketIOAssumption DEF Sockets, UserSockets
<1>2. ASSUME NEW s \in UserSockets, NewSocket(s) PROVE Kept
  <2>1. /\ UNCHANGED <<blocks, freed, ops, queue, pc, cur, conns, released>>
        /\ user' = [user EXCEPT ![s] = "started"] /\ life' = [life EXCEPT ![s] = "live"]
        /\ user[s] = "none"
    BY <1>2 DEF NewSocket, heap, netVars
  <2>2. SameBlocks /\ NoAccepts
    BY <2>1 DEF SameBlocks, NoAccepts
  <2>3. KeepsBorn /\ \A a \in Accepted : life'[a] = life[a]
    BY <1>0, <1>1, <2>1 DEF KeepsBorn, SockInv, UserBorn, TypeOK, Sockets
  <2>4. QED
    BY <2>1, <2>2, <2>3, RestsKeep
<1>3. ASSUME NEW s \in UserSockets, UserDelete(s) PROVE Kept
  <2>1. /\ UNCHANGED <<blocks, freed, ops, queue, pc, cur, conns, released>>
        /\ user' = [user EXCEPT ![s] = "deleted"] /\ life' = [life EXCEPT ![s] = "deleted"]
    BY <1>3 DEF UserDelete, heap, netVars, DeleteSocket
  <2>2. SameBlocks /\ NoAccepts
    BY <2>1 DEF SameBlocks, NoAccepts
  <2>3. KeepsBorn /\ \A a \in Accepted : life'[a] = life[a]
    BY <1>0, <1>1, <2>1 DEF KeepsBorn, SockInv, UserBorn, TypeOK, Sockets
  <2>4. QED
    BY <2>1, <2>2, <2>3, RestsKeep
<1>4. CASE Release
  <2>1. UNCHANGED <<life, freed, ops, queue, pc, cur, conns, user>> /\ Busy = {}
    BY <1>4 DEF Release, netVars
  <2>2. SameBlocks /\ NoAccepts /\ KeepsBorn
    <3>1. SameBlocks /\ NoAccepts
      BY <1>0, <1>4, EndBlocks DEF Release, SameBlocks, NoAccepts
    <3>2. QED
      BY <1>0, <2>1, <3>1 DEF KeepsBorn, SockInv, UserBorn
  <2>3. QED
    BY <2>1, <2>2, RestsKeep
<1>5. ASSUME NEW s \in Clients, NEW len \in SendLens, PostSendMsg(s, len) PROVE Kept
  <2>1. /\ UNCHANGED <<life, freed, queue, pc, cur, conns, user, released>>
        /\ user[s] = "added" /\ s \in UserSockets /\ s \in Sockets /\ s \notin Servers
        /\ s \notin Accepted
        /\ \/ UNCHANGED <<blocks, ops>>
           \/ /\ blocks' = Append(blocks, NewBlock("SEND", NoSocket, len))
              /\ Posted(s) \/ UNCHANGED ops
    BY <1>1, <1>5 DEF PostSendMsg, netVars, userVars
  <2>2. len \in 0 .. BufSize
    BY SocketIOAssumption
  <2>3. KeepsLate /\ KeepsBorn
    BY <1>0, <2>1 DEF KeepsLate, Late, Attached, Handling, Blk, KeepsBorn, SockInv, UserBorn
  <2>4. CASE UNCHANGED ops
    <3>1. SameBlocks /\ NoAccepts
      <4>1. CASE UNCHANGED blocks
        BY <4>1 DEF SameBlocks, NoAccepts
      <4>2. CASE blocks' = Append(blocks, NewBlock("SEND", NoSocket, len))
        BY <1>0, <2>2, <4>2, DataBlock
      <4>3. QED
        BY <2>1, <4>1, <4>2
    <3>2. QED
      BY <2>1, <2>3, <2>4, <3>1, RestsKeep
  <2>5. CASE blocks' = Append(blocks, NewBlock("SEND", NoSocket, len)) /\ Posted(s)
    <3>1. life[s] # "unborn"
      BY <1>0, <2>1 DEF SockInv, UserBorn
    <3>2. ASSUME NEW h \in Held, OpOf(h) = "START_ACCEPT" PROVE blocks[h.blk].accepts # s
      BY <1>0, <2>1, <3>2 DEF SockInv, Targets, Linear, Alive, OpOf
    <3>3. QED
      BY <2>1, <2>2, <2>3, <2>5, <3>1, <3>2, PostsDataKeep
  <2>6. QED
    BY <2>1, <2>4, <2>5
<1>6. ASSUME NEW s \in UserSockets, AddSocket(s) PROVE Kept
  <2>1. /\ UNCHANGED <<freed, queue, pc, cur, conns, released>>
        /\ user[s] = "started" /\ s \in Sockets /\ s \notin Accepted
        /\ \A r \in UserSockets \ {s} : user'[r] = user[r]
        /\ user'[s] \notin {"none", "started"}
    BY <1>0, <1>1, <1>6 DEF AddSocket, netVars, TypeOK
  <2>2. KeepsLate
    BY <2>1 DEF KeepsLate, Late, Attached, Handling, Blk
  <2>3. life[s] # "unborn"
    BY <1>0, <2>1 DEF SockInv, UserBorn
  <2>4. \A h \in Held : h.sock # s
    BY <1>0, <2>1 DEF SockInv, Fits
  <2>5. UNCHANGED life => KeepsBorn
    BY <1>0, <2>1, <2>3 DEF KeepsBorn, SockInv, UserBorn
  <2>6. CASE s \in Servers /\ PostAcceptMsg(s)
    <3>1. PICK a \in Accepted :
            /\ life[a] = "unborn" /\ life' = [life EXCEPT ![a] = "live"]
            /\ blocks' = Append(blocks, NewBlock("START_ACCEPT", a, 0))
            /\ Posted(s) \/ UNCHANGED ops
      <4>1. \E a \in Accepted : life[a] = "unborn"
        BY <1>0, <2>1, <2>6, RoomForServer
      <4>2. QED
        BY <1>0, <2>6, <4>1, PostAcceptTyped
    <3>2. /\ Linear' /\ SockInv' /\ StageInv'
          /\ Born' = Born \cup {a} /\ a \notin Born
          /\ Arriving' = Arriving /\ \A i \in Arriving : queue'[i].blk = queue[i].blk
          /\ Moves
      BY <2>1, <2>2, <2>3, <2>4, <2>6, <3>1, PostsAcceptKeep
    <3>3. Tickets' = Tickets
      BY <2>1, <3>2 DEF Tickets, Handling, Blk
    <3>4. Listening' = Listening \cup {s} /\ s \notin Listening
      BY <2>1, <2>6 DEF Listening, UserSockets
    <3>5. /\ IsFiniteSet(Born) /\ IsFiniteSet(Listening) /\ Cardinality(Tickets) \in Nat
          /\ Cardinality(Born) \in Nat /\ Cardinality(Listening) \in Nat
      BY <1>0, Finite
    <3>6. /\ Cardinality(Born') = Cardinality(Born) + 1
          /\ Cardinality(Listening') = Cardinality(Listening) + 1
      BY <3>2, <3>4, <3>5, FS_AddElement
    <3>7. conns' = conns /\ conns \in Nat
      BY <1>0, <2>1, SocketIOAssumption DEF TypeOK
    <3>8. Credits'
      BY <1>0, <3>3, <3>5, <3>6, <3>7 DEF Credits
    <3>9. QED
      BY <3>2, <3>8 DEF Kept
  <2>7. CASE s \in Clients /\ NewRecvBlock /\ Posted(s) /\ UNCHANGED life
    <3>1. ASSUME NEW h \in Held, OpOf(h) = "START_ACCEPT" PROVE blocks[h.blk].accepts # s
      BY <1>0, <2>1, <3>1 DEF SockInv, Targets, Linear, Alive, OpOf
    <3>2. s \notin Servers /\ BufSize \in 0 .. BufSize
      BY <1>1, <2>7, SocketIOAssumption
    <3>3. blocks' = Append(blocks, NewBlock("RECV", NoSocket, BufSize))
      BY <2>7 DEF NewRecvBlock
    <3>4. QED
      BY <2>1, <2>2, <2>3, <2>4, <2>5, <2>7, <3>1, <3>2, <3>3, PostsDataKeep
  <2>8. CASE UNCHANGED <<life, ops>> /\ (NewRecvBlock \/ UNCHANGED blocks)
    <3>1. SameBlocks /\ NoAccepts
      <4>1. CASE UNCHANGED blocks
        BY <4>1 DEF SameBlocks, NoAccepts
      <4>2. CASE NewRecvBlock
        <5>1. BufSize \in 0 .. BufSize
          BY SocketIOAssumption
        <5>2. QED
          BY <1>0, <4>2, <5>1, DataBlock DEF NewRecvBlock
      <4>3. QED
        BY <2>8, <4>1, <4>2
    <3>2. QED
      BY <2>1, <2>5, <2>8, <3>1, RestsKeep
  <2>9. QED
    BY <1>6, <2>6, <2>7, <2>8 DEF AddSocket
<1>7. QED
  BY <1>2, <1>3, <1>4, <1>5, <1>6 DEF User

-----------------------------------------------------------------------------
LEMMA InitCore == Init => CoreInv
<1> SUFFICES ASSUME Init PROVE CoreInv
  OBVIOUS
<1>1. Held = {} /\ DOMAIN blocks = {} /\ DOMAIN queue = {} /\ Busy = {} /\ ops = {}
  BY DEF Init, Held
<1>2. TypeOK
  <2>1. /\ \A w \in Workers : cur[w] = NoPacket /\ pc[w] = "wait"
        /\ pc \in [Workers -> Stage] /\ cur \in [Workers -> Packet \cup {NoPacket}]
    BY DEF Init, Stage
  <2>2. /\ life \in [Sockets -> {"unborn", "live", "deleted"}]
        /\ cb \in [Sockets -> Callback]
        /\ user \in [UserSockets -> {"none", "started", "added", "failed", "deleted"}]
    BY DEF Init, Callback
  <2>3. blocks \in Seq(Block) /\ freed \in SUBSET DOMAIN blocks /\ queue \in Seq(Packet)
    BY DEF Init
  <2>4. /\ conns \in 0 .. MaxConns /\ arrived \in [Sockets -> 0 .. MaxChunks]
        /\ handed \in [Sockets -> Seq(1 .. MaxChunks)]
    BY SocketIOAssumption DEF Init
  <2>5. QED
    BY <1>1, <2>1, <2>2, <2>3, <2>4 DEF TypeOK, Init
<1>3. Linear
  BY <1>1 DEF Linear, OnePlace, Alive
<1>4. SockInv
  BY <1>1 DEF SockInv, UserBorn, Fits, Targets, OneEach, OneListening, Untouched, Init
<1>5. StageInv
  BY <1>1 DEF StageInv, StageFits, ChunksFit, Quiescent
<1>6. Credits
  <2>1. Born = {} /\ Tickets = {} /\ Listening = {}
    BY <1>1 DEF Born, Tickets, Listening, Arriving, Handling, Init, Sockets, UserSockets
  <2>2. conns = 0
    BY DEF Init
  <2>3. QED
    BY <2>1, <2>2, FS_EmptySet DEF Credits
<1>7. QED
  BY <1>2, <1>3, <1>4, <1>5, <1>6 DEF CoreInv

LEMMA StepMoves ==
    ASSUME CoreInv, Next
    PROVE  Kept
<1>1. ASSUME NEW w \in Workers, Handler(w) PROVE Kept
  BY <1>1, HandlerKeeps
<1>2. QED
  BY <1>1, UserKeeps, KernelKeeps DEF Next, WorkerStep

LEMMA StepCore == CoreInv /\ [Next]_vars => CoreInv'
<1> SUFFICES ASSUME CoreInv, [Next]_vars PROVE CoreInv'
  OBVIOUS
<1>0. TypeOK /\ Linear /\ SockInv /\ StageInv /\ Credits
  BY DEF CoreInv
<1>1. CASE User
  BY <1>0, <1>1, UserTyped, UserKeeps DEF CoreInv, Kept
<1>2. CASE Kernel
  BY <1>0, <1>2, KernelTyped, KernelKeeps DEF CoreInv, Kept
<1>3. ASSUME NEW w \in Workers, Handler(w) PROVE CoreInv'
  BY <1>0, <1>3, HandlerTyped, HandlerKeeps DEF CoreInv, Kept
<1>4. CASE UNCHANGED vars
  <2>1. UNCHANGED <<life, cb, blocks, freed, ops, queue, pc, cur, conns, arrived, handed, user, released, fault>>
    BY <1>4 DEF vars, heap, netVars, userVars
  <2>2. SameBlocks /\ NoAccepts /\ KeepsBorn
    BY <1>0, <2>1 DEF SameBlocks, NoAccepts, KeepsBorn, SockInv, UserBorn
  <2>3. Kept
    BY <2>1, <2>2, RestsKeep
  <2>4. TypeOK'
    BY <1>0, <2>1 DEF TypeOK
  <2>5. QED
    BY <2>3, <2>4 DEF CoreInv, Kept
<1>5. QED
  BY <1>1, <1>2, <1>3, <1>4 DEF Next, WorkerStep

\* Whatever fails and whoever comes first, the account of the blocks is right:
\* no handler of ServerWorkThread posts or deletes a block that is not its own.
THEOREM CoreHolds == Spec => []CoreInv
BY InitCore, StepCore, PTL DEF Spec

\* Every variable keeps its type, however many sockets, sends and failures
\* there are; in particular an identity is left whenever an accept is posted.
THEOREM TypeCorrect == Spec => []TypeOK
<1>1. CoreInv => TypeOK
  BY DEF CoreInv
<1>2. QED
  BY <1>1, CoreHolds, PTL

-----------------------------------------------------------------------------
(***************************************************************************)
(* The counts of the properties.                                           *)
(***************************************************************************)
LEMMA AtMostOne ==
    ASSUME NEW S, \A x, y \in S : x = y
    PROVE  Cardinality(S) = IF S = {} THEN 0 ELSE 1
<1>1. CASE S = {}
  BY <1>1, FS_EmptySet
<1>2. CASE S # {}
  <2>1. PICK x \in S : S = {x}
    BY <1>2
  <2>2. QED
    BY <1>2, <2>1, FS_Singleton
<1>3. QED
  BY <1>1, <1>2

\* Three counts, of which at most one set has a member, and at most one.
LEMMA OneOfThree ==
    ASSUME NEW R, NEW S, NEW T,
           \A x, y \in R : x = y, \A x, y \in S : x = y, \A x, y \in T : x = y,
           R = {} \/ S = {}, R = {} \/ T = {}, S = {} \/ T = {}
    PROVE  Count(R) + Count(S) + Count(T) = IF R = {} /\ S = {} /\ T = {} THEN 0 ELSE 1
<1>1. /\ Cardinality(R) = IF R = {} THEN 0 ELSE 1
      /\ Cardinality(S) = IF S = {} THEN 0 ELSE 1
      /\ Cardinality(T) = IF T = {} THEN 0 ELSE 1
  BY AtMostOne
<1>2. QED
  BY <1>1 DEF Count

\* The packet of a server's handler is that of an accept.
LEMMA ServesAccepts ==
    ASSUME CoreInv, NEW w \in Busy, Sock(w) \in Servers
    PROVE  pc[w] \in {"failed", "zero", "START_ACCEPT"} \cup AfterPost
<1>0. TypeOK /\ Linear /\ SockInv /\ StageInv
  BY DEF CoreInv
<1>1. PICK g \in Held : g.sock = Sock(w) /\ g.blk = Blk(w)
  BY <1>0, Working DEF Op
<1>2. OpOf(g) = "START_ACCEPT" /\ OpOf(cur[w]) = OpOf(g)
  BY <1>0, <1>1 DEF SockInv, Fits, OpOf, Blk
<1>3. pc[w] \notin {"SEND", "RECV", "repost"}
  BY <1>0, <1>2 DEF StageInv, StageFits
<1>4. pc[w] \in Stage \ {"wait"}
  BY <1>0 DEF TypeOK
<1>5. QED
  BY <1>3, <1>4 DEF Stage, AfterPost

\* Counting the holders of a block says whether there is one.
LEMMA HolderCount ==
    ASSUME CoreInv, NEW b
    PROVE  Holders(b) = IF \E h \in Held : h.blk = b THEN 1 ELSE 0
<1>0. OnePlace
  BY DEF CoreInv, Linear
<1>1. DEFINE R == {o \in ops : o.blk = b}
             S == {i \in DOMAIN queue : queue[i].blk = b}
             T == {w \in Workers : pc[w] # "wait" /\ cur[w].blk = b}
<1>2. /\ \A x, y \in R : x = y
      /\ \A x, y \in S : x = y
      /\ \A x, y \in T : x = y
      /\ R = {} \/ S = {}
      /\ R = {} \/ T = {}
      /\ S = {} \/ T = {}
  BY <1>0 DEF OnePlace, Blk
<1>3. (\E h \in Held : h.blk = b) <=> R # {} \/ S # {} \/ T # {}
  <2>1. \A s, c : Op(s, c).blk = c
    BY DEF Op
  <2>2. QED
    BY <2>1 DEF Held, Blk
<1> HIDE DEF R, S, T
<1>4. Count(R) + Count(S) + Count(T) = IF R = {} /\ S = {} /\ T = {} THEN 0 ELSE 1
  BY <1>2, OneOfThree
<1>5. Holders(b) = Count(R) + Count(S) + Count(T)
  BY DEF Holders, R, S, T
<1>6. QED
  BY <1>3, <1>4, <1>5

\* Counting the accepts of a server says whether one is under way.
LEMMA AcceptCount ==
    ASSUME CoreInv, NEW s \in Servers
    PROVE  AcceptsUnderWay(s) = IF \E h \in Held : h.sock = s /\ h.blk \notin Late
                                THEN 1 ELSE 0
<1>0. TypeOK /\ OnePlace /\ SockInv
  BY DEF CoreInv, Linear
<1>1. DEFINE R == {o \in ops : o.sock = s /\ OpOf(o) = "START_ACCEPT"}
             S == {i \in DOMAIN queue : queue[i].sock = s /\ OpOf(queue[i]) = "START_ACCEPT"}
             T == {w \in Handling({"failed", "zero", "START_ACCEPT"}) : Sock(w) = s}
<1>2. \A g, h \in Held : g.sock = s /\ h.sock = s /\ g.blk \notin Late /\ h.blk \notin Late
                         => g.blk = h.blk
  BY <1>0 DEF SockInv, OneListening, Fits
<1>3. \A o \in R : o \in ops /\ o \in Held /\ o.sock = s /\ o.blk \notin Late
  BY <1>0 DEF Held, Late, Handling, AfterPost, OnePlace
<1>4. \A i \in S : i \in DOMAIN queue /\ Op(s, queue[i].blk) \in Held /\ queue[i].blk \notin Late
  BY <1>0 DEF Held, Late, Handling, AfterPost, OnePlace
<1>5. \A w \in T : w \in Busy /\ Op(s, Blk(w)) \in Held /\ Blk(w) \notin Late
  BY <1>0 DEF Held, Late, Handling, AfterPost, OnePlace
<1>6. \A r, b : Op(r, b).sock = r /\ Op(r, b).blk = b
  BY DEF Op
<1>7. ASSUME NEW h \in Held, h.sock = s, h.blk \notin Late
      PROVE  R # {} \/ S # {} \/ T # {}
  <2>1. OpOf(h) = "START_ACCEPT"
    BY <1>0, <1>7 DEF SockInv, Fits
  <2>2. CASE h \in ops
    BY <1>7, <2>1, <2>2
  <2>3. ASSUME NEW i \in DOMAIN queue, h = Op(queue[i].sock, queue[i].blk) PROVE S # {}
    BY <1>7, <2>1, <2>3 DEF Op, OpOf
  <2>4. ASSUME NEW w \in Busy, h = Op(Sock(w), Blk(w)) PROVE T # {}
    <3>1. Sock(w) = s /\ Blk(w) \notin Late
      BY <1>6, <1>7, <2>4
    <3>2. pc[w] \notin AfterPost
      BY <3>1 DEF Late, Handling
    <3>3. pc[w] \in {"failed", "zero", "START_ACCEPT"}
      BY <3>1, <3>2, ServesAccepts
    <3>4. QED
      BY <3>1, <3>3 DEF Handling
  <2>5. QED
    BY <2>2, <2>3, <2>4 DEF Held
<1> HIDE DEF R, S, T
<1>8. /\ \A x, y \in R : x = y
      /\ \A x, y \in S : x = y
      /\ \A x, y \in T : x = y
      /\ R = {} \/ S = {}
      /\ R = {} \/ T = {}
      /\ S = {} \/ T = {}
  BY <1>0, <1>2, <1>3, <1>4, <1>5, <1>6 DEF OnePlace
<1>9. Count(R) + Count(S) + Count(T) = IF R = {} /\ S = {} /\ T = {} THEN 0 ELSE 1
  BY <1>8, OneOfThree
<1>10. (\E h \in Held : h.sock = s /\ h.blk \notin Late) <=> R # {} \/ S # {} \/ T # {}
  BY <1>3, <1>4, <1>5, <1>6, <1>7
<1>11. AcceptsUnderWay(s) = Count(R) + Count(S) + Count(T)
  BY DEF AcceptsUnderWay, R, S, T
<1>12. QED
  BY <1>9, <1>10, <1>11

\* The blocks of PER_IO_DATA are owned by one operation, packet or handler, and
\* nobody holds a deleted one.
THEOREM BlocksHaveOneHolder == Spec => []OneHolder
<1>1. CoreInv => OneHolder
  BY HolderCount DEF CoreInv, Linear, Alive, OneHolder
<1>2. QED
  BY <1>1, CoreHolds, PTL

\* A connection has at most one receive under way: the chunks of a stream
\* cannot overtake each other in the port.
THEOREM ReceivesAlone == Spec => []OneReceive
<1>1. CoreInv => OneReceive
  <2> SUFFICES ASSUME CoreInv, NEW s \in Sockets
               PROVE  Count({o \in ops : o.sock = s /\ OpOf(o) = "RECV"})
                        + Count({i \in DOMAIN queue : queue[i].sock = s /\ OpOf(queue[i]) = "RECV"})
                        + Count({w \in Handling({"failed", "zero", "RECV", "repost"}) :
                                  Sock(w) = s /\ OpOf(cur[w]) = "RECV"}) <= 1
    BY DEF OneReceive
  <2>0. TypeOK /\ OnePlace /\ SockInv
    BY DEF CoreInv, Linear
  <2>1. DEFINE R == {o \in ops : o.sock = s /\ OpOf(o) = "RECV"}
               S == {i \in DOMAIN queue : queue[i].sock = s /\ OpOf(queue[i]) = "RECV"}
               T == {w \in Handling({"failed", "zero", "RECV", "repost"}) :
                        Sock(w) = s /\ OpOf(cur[w]) = "RECV"}
  <2>2. \A g, h \in Held : g.sock = s /\ h.sock = s /\ OpOf(g) = "RECV" /\ OpOf(h) = "RECV"
                           => g.blk = h.blk
    BY <2>0 DEF SockInv, OneEach
  <2>3. \A o \in R : o \in ops /\ o \in Held /\ o.sock = s /\ OpOf(o) = "RECV"
    BY DEF Held
  <2>4. \A i \in S : /\ i \in DOMAIN queue /\ Op(s, queue[i].blk) \in Held
                     /\ OpOf(Op(s, queue[i].blk)) = "RECV"
    BY DEF Held, OpOf, Op
  <2>5. \A w \in T : /\ w \in Busy /\ Op(s, Blk(w)) \in Held
                     /\ OpOf(Op(s, Blk(w))) = "RECV"
    BY DEF Held, OpOf, Op, Handling, Blk
  <2>6. \A b : Op(s, b).sock = s /\ Op(s, b).blk = b
    BY DEF Op
  <2> HIDE DEF R, S, T
  <2>7. /\ \A x, y \in R : x = y
        /\ \A x, y \in S : x = y
        /\ \A x, y \in T : x = y
        /\ R = {} \/ S = {}
        /\ R = {} \/ T = {}
        /\ S = {} \/ T = {}
    BY <2>0, <2>2, <2>3, <2>4, <2>5, <2>6 DEF OnePlace
  <2>8. Count(R) + Count(S) + Count(T) <= 1
    BY <2>7, OneOfThree
  <2>9. QED
    BY <2>8 DEF R, S, T
<1>2. QED
  BY <1>1, CoreHolds, PTL

\* A server has at most one accept outstanding.
THEOREM AcceptsAlone == Spec => []OneAccept
<1>1. CoreInv => OneAccept
  BY AcceptCount DEF OneAccept
<1>2. QED
  BY <1>1, CoreHolds, PTL

-----------------------------------------------------------------------------
(***************************************************************************)
(* In a process without client sockets, what is in use is not deleted.     *)
(***************************************************************************)
Serving == \A c \in Clients : life[c] = "unborn"

StartedLive == \A s \in UserSockets : user[s] = "started" => life[s] = "live"
HeldLive ==
    Serving /\ ~released =>
        \A h \in Held :
            /\ h.blk \notin Late => life[h.sock] = "live"
            /\ OpOf(h) = "START_ACCEPT" /\ h.blk \notin Attached
               => life[blocks[h.blk].accepts] = "live"

LifeInv == StartedLive /\ HeldLive /\ DanglingOnlyAfterAccept

LEMMA ServingBefore ==
    ASSUME Moves, Serving'
    PROVE  Serving
BY DEF Moves, Serving, Sockets, UserSockets

\* No socket in use is deleted, and what is posted is live.
LEMMA HeldLiveKept ==
    ASSUME CoreInv, CoreInv', Moves, HeldLive, released' = released,
           Serving' => \A s \in Sockets : life[s] = "live" => life'[s] = "live",
           Serving' => \A h \in Held' \ Held :
               /\ life'[h.sock] = "live"
               /\ blocks'[h.blk].op = "START_ACCEPT" => life'[blocks'[h.blk].accepts] = "live"
    PROVE  HeldLive'
<1>0. TypeOK /\ Linear /\ SockInv
  BY DEF CoreInv
<1>1. SUFFICES ASSUME Serving', ~released, NEW h \in Held, h \in Held'
               PROVE  /\ h.blk \notin Late' => life'[h.sock] = "live"
                      /\ blocks'[h.blk].op = "START_ACCEPT" /\ h.blk \notin Attached'
                         => life'[blocks'[h.blk].accepts] = "live"
  BY DEF HeldLive, OpOf
<1>2. Serving
  BY <1>1, ServingBefore
<1>3. h.blk \in DOMAIN blocks /\ h.sock \in Sockets
  BY <1>0 DEF Linear, Alive
<1>4. /\ blocks'[h.blk].op = OpOf(h) /\ blocks'[h.blk].accepts = blocks[h.blk].accepts
      /\ h.blk \notin Late' => h.blk \notin Late
      /\ h.blk \notin Attached' => h.blk \notin Attached
  BY <1>1, <1>3 DEF Moves, SameBlocks, KeepsLate, OpOf
<1>5. OpOf(h) = "START_ACCEPT" => blocks[h.blk].accepts \in Sockets
  BY <1>0, <1>3 DEF SockInv, Targets, OpOf, Sockets
<1>6. QED
  BY <1>1, <1>2, <1>3, <1>4, <1>5 DEF HeldLive

\* With no new block nothing new is in use.
LEMMA NothingNew ==
    ASSUME CoreInv, CoreInv', Moves, DOMAIN blocks' = DOMAIN blocks
    PROVE  Held' \subseteq Held
<1>1. NextBlk \notin DOMAIN blocks
  BY DEF CoreInv, TypeOK, NextBlk
<1>2. QED
  BY <1>1 DEF CoreInv, Linear, Alive, Moves

LEMMA CalmLife ==
    ASSUME CoreInv, CoreInv', Moves, HeldLive, DOMAIN blocks' = DOMAIN blocks,
           released' = released, \A s \in Sockets : life[s] = "live" => life'[s] = "live"
    PROVE  HeldLive'
BY NothingNew, HeldLiveKept

\* A handler deletes its socket with the only block that is in use for it.
LEMMA DeletingLife ==
    ASSUME CoreInv, CoreInv', Moves, HeldLive, NEW w \in Busy, pc[w] \notin AfterPost,
           DeleteSocket(Sock(w)), DeleteBlock(Blk(w)),
           DOMAIN blocks' = DOMAIN blocks, released' = released
    PROVE  HeldLive'
<1>0. TypeOK /\ Linear /\ SockInv /\ OnePlace /\ Linear'
  BY DEF CoreInv, Linear
<1>1. SUFFICES ASSUME Serving', ~released, NEW h \in Held'
               PROVE  /\ h.blk \notin Late' => life'[h.sock] = "live"
                      /\ blocks'[h.blk].op = "START_ACCEPT" /\ h.blk \notin Attached'
                         => life'[blocks'[h.blk].accepts] = "live"
  BY DEF HeldLive, OpOf
<1>2. Serving
  BY <1>1, ServingBefore
<1>3. h \in Held /\ h.blk \in DOMAIN blocks /\ h.sock \in Sockets
  BY <1>0, NothingNew DEF Linear, Alive
<1>4. /\ blocks'[h.blk].op = OpOf(h) /\ blocks'[h.blk].accepts = blocks[h.blk].accepts
      /\ h.blk \notin Late' => h.blk \notin Late
      /\ h.blk \notin Attached' => h.blk \notin Attached
  BY <1>1, <1>3 DEF Moves, SameBlocks, KeepsLate, OpOf
<1>5. /\ Op(Sock(w), Blk(w)) \in Held /\ Sock(w) \in Sockets
      /\ Blk(w) \in DOMAIN blocks
  BY <1>0, Working
<1>6. PICK g \in Held : g.sock = Sock(w) /\ g.blk = Blk(w)
  BY <1>5 DEF Op
<1>7. g # h
  BY <1>0, <1>1, <1>6 DEF Linear, Alive, DeleteBlock
<1>8. g.blk \notin Late
  BY <1>0, <1>6 DEF Late, Handling, OnePlace, AfterPost
<1>9. life' = [life EXCEPT ![Sock(w)] = "deleted"]
  BY DEF DeleteSocket
<1>10. ASSUME h.blk \notin Late PROVE h.sock # Sock(w)
  <2>1. SUFFICES ASSUME h.sock = g.sock PROVE FALSE
    BY <1>6
  <2>2. OpOf(g) = "START_ACCEPT" <=> OpOf(h) = "START_ACCEPT"
    BY <1>0, <1>3, <2>1 DEF SockInv, Fits
  <2>3. OpOf(g) # "START_ACCEPT"
    BY <1>0, <1>3, <1>7, <1>8, <1>10, <2>1, <2>2 DEF SockInv, OneListening
  <2>4. OpOf(g) # "SEND" /\ OpOf(h) # "SEND"
    BY <1>0, <1>2, <1>3 DEF SockInv, Fits, Serving
  <2>5. OpOf(g) \in OpType /\ OpOf(h) \in OpType
    BY <1>0, <1>3, <1>6 DEF SockInv, Fits
  <2>6. OpOf(g) = "RECV" /\ OpOf(h) = "RECV"
    BY <2>2, <2>3, <2>4, <2>5 DEF OpType
  <2>7. QED
    BY <1>0, <1>3, <1>7, <2>1, <2>6 DEF SockInv, OneEach
<1>11. OpOf(h) = "START_ACCEPT" /\ h.blk \notin Attached => blocks[h.blk].accepts # Sock(w)
  BY <1>0, <1>3, <1>6 DEF SockInv, Untouched
<1>12. OpOf(h) = "START_ACCEPT" => blocks[h.blk].accepts \in Sockets
  BY <1>0, <1>3 DEF SockInv, Targets, OpOf, Sockets
<1>13. \A s \in Sockets : s # Sock(w) => life'[s] = life[s]
  BY <1>0, <1>9 DEF TypeOK
<1>14. QED
  BY <1>1, <1>2, <1>3, <1>4, <1>10, <1>11, <1>12, <1>13 DEF HeldLive

\* Only after the first receive was posted may a handler meet a deleted socket.
LEMMA MeetsLive ==
    ASSUME CoreInv, HeldLive, Serving, NEW w \in Workers, TouchesDeleted(w)
    PROVE  pc[w] \in {"setcb", "first"}
<1>0. TypeOK /\ Linear /\ SockInv /\ StageInv /\ OnePlace
  BY DEF CoreInv, Linear
<1>1. SUFFICES ASSUME pc[w] \notin {"setcb", "first"} PROVE FALSE
  OBVIOUS
<1>2. PICK s \in Touches(w) : life[s] = "deleted"
  BY DEF TouchesDeleted
<1>3. pc[w] \in {"failed", "zero", "SEND", "RECV", "repost", "START_ACCEPT", "onaccept"}
  BY <1>1, <1>2 DEF Touches
<1>4. w \in Busy /\ ~released
  BY <1>0, <1>3 DEF StageInv, Quiescent
<1>5. PICK g \in Held : g.sock = Sock(w) /\ g.blk = Blk(w)
  BY <1>0, <1>4, Working DEF Op
<1>6. g.blk \notin Attached
  BY <1>0, <1>3, <1>4, <1>5 DEF Attached, Handling, OnePlace, AfterAttach
<1>7. CASE pc[w] = "onaccept"
  <2>1. s = blocks[g.blk].accepts /\ OpOf(g) = "START_ACCEPT"
    BY <1>0, <1>2, <1>4, <1>5, <1>7, AccepteeTyped DEF Touches, Acceptee, OpOf, AfterPost
  <2>2. QED
    BY <1>2, <1>4, <1>6, <2>1 DEF HeldLive
<1>8. CASE pc[w] # "onaccept"
  <2>1. s = g.sock
    BY <1>2, <1>3, <1>5, <1>8 DEF Touches
  <2>2. g.blk \notin Late
    BY <1>0, <1>3, <1>4, <1>5, <1>8 DEF Late, Handling, OnePlace, AfterPost
  <2>3. QED
    BY <1>2, <1>4, <2>1, <2>2 DEF HeldLive
<1>9. QED
  BY <1>7, <1>8

\* A step of a handler leaves the sockets alone that wait to be added.
LEMMA StartedKept ==
    ASSUME CoreInv, StartedLive, NEW w \in Busy, user' = user,
           life' = life \/ DeleteSocket(Sock(w))
    PROVE  StartedLive'
<1>0. TypeOK /\ Linear /\ SockInv /\ UserSockets \subseteq Sockets
  BY DEF CoreInv, Sockets
<1>1. PICK g \in Held : g.sock = Sock(w)
  BY <1>0, Working DEF Op
<1>2. Sock(w) \in UserSockets => user[Sock(w)] # "started"
  BY <1>0, <1>1 DEF SockInv, Fits
<1>3. \A s \in Sockets : s # Sock(w) => life'[s] = life[s]
  BY <1>0 DEF TypeOK, DeleteSocket
<1>4. QED
  BY <1>0, <1>2, <1>3 DEF StartedLive

LEMMA HandlerLife ==
    ASSUME CoreInv, CoreInv', Moves, LifeInv, fault = "none", NEW w \in Workers, Handler(w)
    PROVE  LifeInv'
<1>0. /\ TypeOK /\ Linear /\ SockInv /\ StageInv /\ OnePlace /\ TypeOK' /\ Linear' /\ SockInv'
      /\ StartedLive /\ HeldLive
  BY DEF CoreInv, LifeInv, Linear
\* What a handler does with sockets, in general...
<1>1. ASSUME w \in Busy, UNCHANGED <<user, released>>, pc[w] \notin AfterPost,
             DOMAIN blocks' = DOMAIN blocks,
             life' = life \/ (DeleteSocket(Sock(w)) /\ DeleteBlock(Blk(w)))
      PROVE  StartedLive' /\ HeldLive'
  <2>1. StartedLive'
    BY <1>0, <1>1, StartedKept
  <2>2. HeldLive'
    BY <1>0, <1>1, CalmLife, DeletingLife
  <2>3. QED
    BY <2>1, <2>2
<1>2. ASSUME UNCHANGED <<user, released, life>>, DOMAIN blocks' = DOMAIN blocks
      PROVE  StartedLive' /\ HeldLive'
  BY <1>0, <1>2, CalmLife DEF StartedLive
<1>3. fault' \in {"none", "wild"} => DanglingOnlyAfterAccept'
  BY DEF DanglingOnlyAfterAccept
\* ... and handler by handler.
<1>4. CASE Dequeue(w)
  <2>1. UNCHANGED <<user, released, life, blocks, fault>>
    BY <1>4 DEF Dequeue, heap, userVars
  <2>2. QED
    BY <1>2, <1>3, <2>1 DEF LifeInv
<1>5. CASE TouchesDeleted(w)
  <2>1. UNCHANGED <<user, released, life, blocks>> /\ fault' = pc[w]
    BY <1>5 DEF TouchesDeleted, heap, userVars
  <2>2. DanglingOnlyAfterAccept'
    <3>1. Serving => pc[w] \in {"setcb", "first"}
      BY <1>0, <1>5, MeetsLive
    <3>2. QED
      BY <2>1, <3>1 DEF DanglingOnlyAfterAccept, Serving
  <2>3. QED
    BY <1>2, <2>1, <2>2 DEF LifeInv
<1>6. CASE HandleFailed(w)
  <2>1. /\ w \in Busy /\ pc[w] = "failed" /\ UNCHANGED <<user, released, blocks, fault>>
        /\ life' = life \/ (DeleteSocket(Sock(w)) /\ DeleteBlock(Blk(w)))
    BY <1>6 DEF HandleFailed, Step, userVars
  <2>2. QED
    BY <1>1, <1>3, <2>1 DEF LifeInv, AfterPost
<1>7. CASE HandleZero(w)
  <2>1. /\ w \in Busy /\ pc[w] = "zero" /\ UNCHANGED <<user, released, blocks, fault>>
        /\ DeleteSocket(Sock(w)) /\ DeleteBlock(Blk(w))
    BY <1>7 DEF HandleZero, Step, userVars
  <2>2. QED
    BY <1>1, <1>3, <2>1 DEF LifeInv, AfterPost
<1>8. CASE HandleSend(w)
  <2>1. /\ w \in Busy /\ pc[w] = "SEND" /\ UNCHANGED <<user, released>>
        /\ DOMAIN blocks' = DOMAIN blocks
        /\ life' = life \/ (DeleteSocket(Sock(w)) /\ DeleteBlock(Blk(w)))
    BY <1>8 DEF HandleSend, Step, userVars
  <2>2. StartedLive' /\ HeldLive'
    BY <1>1, <2>1 DEF AfterPost
  <2>3. DanglingOnlyAfterAccept'
    <3>1. PICK g \in Held : g.sock = Sock(w) /\ g.blk = Blk(w)
      BY <1>0, <2>1, Working DEF Op
    <3>2. OpOf(g) = "SEND"
      BY <1>0, <2>1, <3>1, Working DEF StageInv, StageFits, OpOf
    <3>3. ~Serving
      BY <1>0, <3>1, <3>2 DEF SockInv, Fits, Serving
    <3>4. ~Serving'
      BY <3>3, ServingBefore
    <3>5. QED
      BY <3>4 DEF DanglingOnlyAfterAccept, Serving
  <2>4. QED
    BY <2>2, <2>3 DEF LifeInv
<1>9. CASE HandleRecv(w)
  <2>1. /\ w \in Busy /\ pc[w] = "RECV" /\ UNCHANGED <<user, released, blocks>>
        /\ life' = life \/ (DeleteSocket(Sock(w)) /\ DeleteBlock(Blk(w)))
        /\ fault' \in {"none", "wild"}
    BY <1>9 DEF HandleRecv, Step, userVars, OnRecvMsg
  <2>2. QED
    BY <1>1, <1>3, <2>1 DEF LifeInv, AfterPost
<1>10. CASE Repost(w)
  <2>1. /\ w \in Busy /\ pc[w] = "repost" /\ UNCHANGED <<user, released, blocks, fault>>
        /\ life' = life \/ (DeleteSocket(Sock(w)) /\ DeleteBlock(Blk(w)))
    BY <1>10 DEF Repost, Step, userVars
  <2>2. QED
    BY <1>1, <1>3, <2>1 DEF LifeInv, AfterPost
<1>11. CASE HandleAccept(w)
  <2>1. /\ w \in Busy /\ pc[w] = "START_ACCEPT" /\ PostAcceptMsg(Sock(w)) /\ Goto(w, "onaccept")
        /\ UNCHANGED <<queue, user, released, fault>>
    BY <1>11 DEF HandleAccept, Step, userVars
  <2>2. Sock(w) \in Servers /\ Sock(w) \in Sockets /\ UserSockets \cap Accepted = {}
    BY <1>0, <2>1, AccepteeTyped, SocketIOAssumption DEF Sockets, UserSockets
  <2>3. PICK a \in Accepted :
          /\ life[a] = "unborn" /\ life' = [life EXCEPT ![a] = "live"]
          /\ blocks' = Append(blocks, NewBlock("START_ACCEPT", a, 0))
          /\ NewBlock("START_ACCEPT", a, 0) \in Block
          /\ Posted(Sock(w)) \/ UNCHANGED ops
    <3>1. \E a \in Accepted : life[a] = "unborn"
      BY <1>0, <2>1, RoomForConnection DEF CoreInv
    <3>2. QED
      BY <1>0, <2>1, <2>2, <3>1, PostAcceptTyped
  <2>4. life'[a] = "live" /\ \A s \in Sockets \ {a} : life'[s] = life[s]
    BY <1>0, <2>3 DEF TypeOK, Sockets
  <2>5. Busy' = Busy /\ cur' = cur
    <3>1. "onaccept" \in Stage \ {"wait"}
      BY DEF Stage
    <3>2. QED
      BY <1>0, <2>1, <3>1, GotoTyped DEF Goto
  <2>6. Held' \subseteq Held \cup {Op(Sock(w), NextBlk)}
    BY <1>0, <2>1, <2>2, <2>3, <2>5, Adding, Staying
  <2>7. /\ blocks'[NextBlk] = NewBlock("START_ACCEPT", a, 0)
    BY <1>0, <2>3, AppendBlock
  <2>8. Serving => life[Sock(w)] = "live" /\ Sock(w) # a
    <3>1. PICK g \in Held : g.sock = Sock(w) /\ g.blk = Blk(w)
      BY <1>0, <2>1, Working DEF Op
    <3>2. g.blk \notin Late /\ ~released
      BY <1>0, <2>1, <3>1 DEF Late, Handling, OnePlace, AfterPost, StageInv, Quiescent
    <3>3. QED
      BY <1>0, <2>3, <3>1, <3>2 DEF HeldLive
  <2>9. HeldLive'
    <3>1. Serving' => Serving
      BY ServingBefore
    <3>2. Serving => \A h \in Held' \ Held :
              /\ life'[h.sock] = "live"
              /\ blocks'[h.blk].op = "START_ACCEPT" => life'[blocks'[h.blk].accepts] = "live"
      BY <2>2, <2>4, <2>6, <2>7, <2>8 DEF Op, NewBlock
    <3>3. \A s \in Sockets : life[s] = "live" => life'[s] = "live"
      BY <2>4
    <3>4. QED
      BY <1>0, <2>1, <3>1, <3>2, <3>3, HeldLiveKept
  <2>10. StartedLive'
    BY <1>0, <2>1, <2>2, <2>4 DEF StartedLive, Sockets
  <2>11. QED
    BY <1>3, <2>1, <2>9, <2>10 DEF LifeInv
<1>12. CASE OnAcceptSocket(w)
  <2>1. /\ w \in Busy /\ pc[w] = "onaccept" /\ UNCHANGED <<queue, user, released, fault, life>>
        /\ Goto(w, "setcb") \/ Goto(w, "done")
        /\ \/ NewRecvBlock /\ (Posted(Acceptee(w)) \/ UNCHANGED ops)
           \/ UNCHANGED <<blocks, ops>>
    BY <1>12 DEF OnAcceptSocket, Step, userVars
  <2>2. StartedLive'
    BY <1>0, <2>1 DEF StartedLive
  <2>3. CASE UNCHANGED blocks
    BY <1>2, <1>3, <2>1, <2>3 DEF LifeInv
  <2>4. CASE NewRecvBlock /\ (Posted(Acceptee(w)) \/ UNCHANGED ops)
    <3>1. Acceptee(w) \in Sockets /\ OpOf(cur[w]) = "START_ACCEPT"
      BY <1>0, <2>1, AccepteeTyped, Working DEF AfterPost, Sockets
    <3>2. Busy' = Busy /\ cur' = cur
      <4>1. "setcb" \in Stage \ {"wait"} /\ "done" \in Stage \ {"wait"}
        BY DEF Stage
      <4>2. QED
        BY <1>0, <2>1, <4>1, GotoTyped DEF Goto
    <3>3. Held' \subseteq Held \cup {Op(Acceptee(w), NextBlk)}
      BY <1>0, <2>1, <2>4, <3>1, <3>2, Adding, Staying
    <3>4. blocks'[NextBlk].op = "RECV"
      <4>1. NewBlock("RECV", NoSocket, BufSize) \in Block
        BY NewBlockTyped, SocketIOAssumption DEF OpType
      <4>2. blocks'[NextBlk] = NewBlock("RECV", NoSocket, BufSize)
        BY <1>0, <2>4, <4>1, AppendBlock DEF NewRecvBlock
      <4>3. QED
        BY <4>2 DEF NewBlock
    <3>5. Serving => life[Acceptee(w)] = "live"
      <4>1. PICK g \in Held : g.sock = Sock(w) /\ g.blk = Blk(w)
        BY <1>0, <2>1, Working DEF Op
      <4>2. g.blk \notin Attached /\ ~released
        BY <1>0, <2>1, <4>1 DEF Attached, Handling, OnePlace, AfterAttach, StageInv, Quiescent
      <4>3. OpOf(g) = "START_ACCEPT" /\ blocks[g.blk].accepts = Acceptee(w)
        BY <3>1, <4>1 DEF OpOf, Acceptee, Blk
      <4>4. QED
        BY <1>0, <4>2, <4>3 DEF HeldLive
    <3>6. HeldLive'
      <4>1. Serving' => Serving
        BY ServingBefore
      <4>2. Serving => \A h \in Held' \ Held : life'[h.sock] = "live" /\ blocks'[h.blk].op = "RECV"
        BY <2>1, <3>3, <3>4, <3>5 DEF Op
      <4>3. QED
        BY <1>0, <2>1, <4>1, <4>2, HeldLiveKept
    <3>7. QED
      BY <1>3, <2>1, <2>2, <3>6 DEF LifeInv
  <2>5. QED
    BY <2>1, <2>3, <2>4
<1>13. CASE SetDataHandleFunc(w)
  <2>1. UNCHANGED <<user, released, life, blocks, fault>>
    BY <1>13 DEF SetDataHandleFunc, Step, heap, userVars
  <2>2. QED
    BY <1>2, <1>3, <2>1 DEF LifeInv
<1>14. CASE FirstChunk(w)
  <2>1. UNCHANGED <<user, released, life, blocks>> /\ fault' \in {"none", "wild"}
    BY <1>14 DEF FirstChunk, Step, heap, userVars, OnRecvMsg
  <2>2. QED
    BY <1>2, <1>3, <2>1 DEF LifeInv
<1>15. CASE AcceptDone(w)
  <2>1. UNCHANGED <<user, released, life, blocks, fault>>
    BY <1>15 DEF AcceptDone, Step, userVars
  <2>2. QED
    BY <1>2, <1>3, <2>1 DEF LifeInv
<1>16. QED
  BY <1>4, <1>5, <1>6, <1>7, <1>8, <1>9, <1>10, <1>11, <1>12, <1>13, <1>14, <1>15 DEF Handler

LEMMA KernelLife ==
    ASSUME CoreInv, CoreInv', Moves, LifeInv, Kernel
    PROVE  LifeInv'
<1>1. UNCHANGED <<user, released, life, blocks, fault>>
  BY DEF Kernel, AcceptArrives, RecvArrives, SendCompletes, Aborts, Complete, heap, userVars
<1>2. HeldLive'
  BY <1>1, CalmLife DEF LifeInv
<1>3. QED
  BY <1>1, <1>2 DEF LifeInv, StartedLive, DanglingOnlyAfterAccept

LEMMA UserLife ==
    ASSUME CoreInv, CoreInv', Moves, LifeInv, fault = "none", User
    PROVE  LifeInv'
<1>0. /\ TypeOK /\ Linear /\ SockInv /\ OnePlace /\ TypeOK'
      /\ StartedLive /\ HeldLive
      /\ UserSockets \subseteq Sockets /\ Servers \cup Clients = UserSockets
      /\ UserSockets \cap Accepted = {}
  BY SocketIOAssumption DEF CoreInv, LifeInv, Linear, Sockets, UserSockets
<1>1. fault' \in {"none", "user"} => DanglingOnlyAfterAccept'
  BY DEF DanglingOnlyAfterAccept
<1>2. released' => HeldLive'
  BY DEF HeldLive
<1>3. ASSUME NEW s \in UserSockets, NewSocket(s) PROVE LifeInv'
  <2>1. /\ UNCHANGED <<released, blocks, fault>>
        /\ life' = [life EXCEPT ![s] = "live"] /\ user' = [user EXCEPT ![s] = "started"]
    BY <1>3 DEF NewSocket, heap
  <2>2. life'[s] = "live" /\ \A r \in Sockets \ {s} : life'[r] = life[r]
    BY <1>0, <2>1 DEF TypeOK
  <2>3. StartedLive'
    BY <1>0, <2>1, <2>2 DEF StartedLive, TypeOK
  <2>4. HeldLive'
    BY <1>0, <2>1, <2>2, CalmLife
  <2>5. QED
    BY <1>1, <2>1, <2>3, <2>4 DEF LifeInv
<1>4. ASSUME NEW s \in UserSockets, UserDelete(s) PROVE LifeInv'
  <2>1. /\ released /\ released' = released /\ fault' \in {"none", "user"}
        /\ life' = [life EXCEPT ![s] = "deleted"] /\ user' = [user EXCEPT ![s] = "deleted"]
    BY <1>4 DEF UserDelete, DeleteSocket
  <2>2. StartedLive'
    BY <1>0, <2>1 DEF StartedLive, TypeOK
  <2>3. QED
    BY <1>1, <1>2, <2>1, <2>2 DEF LifeInv
<1>5. CASE Release
  <2>1. UNCHANGED <<life, user, fault>> /\ released'
    BY <1>5 DEF Release
  <2>2. QED
    BY <1>0, <1>1, <1>2, <2>1 DEF LifeInv, StartedLive
<1>6. ASSUME NEW s \in Clients, NEW len \in SendLens, PostSendMsg(s, len) PROVE LifeInv'
  <2>1. UNCHANGED <<life, user, released>> /\ fault' \in {"none", "user"} /\ user[s] = "added"
    BY <1>6 DEF PostSendMsg, userVars
  <2>2. ~Serving'
    BY <1>0, <2>1 DEF SockInv, UserBorn, Serving
  <2>3. StartedLive' /\ HeldLive'
    BY <1>0, <2>1, <2>2 DEF StartedLive, HeldLive
  <2>4. QED
    BY <1>1, <2>1, <2>3 DEF LifeInv
<1>7. ASSUME NEW s \in UserSockets, AddSocket(s) PROVE LifeInv'
  <2>1. /\ UNCHANGED <<released, queue, pc, cur, fault>> /\ user[s] = "started"
        /\ \A r \in UserSockets \ {s} : user'[r] = user[r]
        /\ user'[s] # "started"
    BY <1>0, <1>7 DEF AddSocket, TypeOK
  <2>2. life[s] = "live"
    BY <1>0, <2>1 DEF StartedLive
  <2>3. CASE s \in Clients /\ UNCHANGED life
    <3>1. ~Serving'
      BY <2>2, <2>3 DEF Serving
    <3>2. StartedLive' /\ HeldLive'
      BY <1>0, <2>1, <2>3, <3>1 DEF StartedLive, HeldLive
    <3>3. QED
      BY <1>1, <2>1, <3>2 DEF LifeInv
  <2>4. CASE UNCHANGED <<life, blocks>>
    BY <1>0, <1>1, <2>1, <2>4, CalmLife DEF LifeInv, StartedLive
  <2>5. CASE s \in Servers /\ PostAcceptMsg(s)
    <3>1. PICK a \in Accepted :
            /\ life[a] = "unborn" /\ life' = [life EXCEPT ![a] = "live"]
            /\ blocks' = Append(blocks, NewBlock("START_ACCEPT", a, 0))
            /\ NewBlock("START_ACCEPT", a, 0) \in Block
            /\ Posted(s) \/ UNCHANGED ops
      <4>1. \E a \in Accepted : life[a] = "unborn"
        BY <1>0, <2>1, <2>5, RoomForServer DEF CoreInv
      <4>2. QED
        BY <1>0, <2>5, <4>1, PostAcceptTyped
    <3>2. life'[a] = "live" /\ \A r \in Sockets \ {a} : life'[r] = life[r]
      BY <1>0, <3>1 DEF TypeOK, Sockets
    <3>3. Held' \subseteq Held \cup {Op(s, NextBlk)}
      BY <1>0, <2>1, <3>1, Adding, Staying
    <3>4. blocks'[NextBlk] = NewBlock("START_ACCEPT", a, 0)
      BY <1>0, <3>1, AppendBlock
    <3>5. \A h \in Held' \ Held :
            /\ life'[h.sock] = "live"
            /\ blocks'[h.blk].op = "START_ACCEPT" => life'[blocks'[h.blk].accepts] = "live"
      BY <1>0, <2>2, <3>2, <3>3, <3>4 DEF Op, NewBlock
    <3>6. HeldLive'
      BY <1>0, <2>1, <3>1, <3>2, <3>5, HeldLiveKept
    <3>7. StartedLive'
      BY <1>0, <2>1, <3>2 DEF StartedLive
    <3>8. QED
      BY <1>1, <2>1, <3>6, <3>7 DEF LifeInv
  <2>6. QED
    BY <1>7, <2>3, <2>4, <2>5 DEF AddSocket
<1>8. QED
  BY <1>3, <1>4, <1>5, <1>6, <1>7 DEF User

\* Sockets that wait to be added are live, and in a process that only serves so
\* is what an operation, a packet or a handler still needs.
THEOREM LifeHolds == Spec => []LifeInv
<1>1. Init => LifeInv
  BY DEF Init, LifeInv, StartedLive, HeldLive, Held, DanglingOnlyAfterAccept
<1>2. CoreInv /\ CoreInv' /\ LifeInv /\ [Next]_vars => LifeInv'
  <2> SUFFICES ASSUME CoreInv, CoreInv', LifeInv, [Next]_vars PROVE LifeInv'
    OBVIOUS
  <2>1. CASE Next
    <3>1. Moves
      BY <2>1, StepMoves DEF Kept
    <3>2. ASSUME NEW w \in Workers, WorkerStep(w) PROVE LifeInv'
      BY <3>1, <3>2, HandlerLife DEF WorkerStep
    <3>3. QED
      BY <2>1, <3>1, <3>2, KernelLife, UserLife DEF Next
  <2>2. CASE UNCHANGED vars
    BY <2>2 DEF vars, heap, netVars, userVars, LifeInv, StartedLive, HeldLive, Held,
               DanglingOnlyAfterAccept, Late, Attached, Handling, Serving, OpOf, Op, Sock, Blk
  <2>3. QED
    BY <2>1, <2>2
<1>3. QED
  BY <1>1, <1>2, CoreHolds, PTL DEF Spec

\* In a process that only serves, no handler but the accept handler, after it
\* has posted the first receive, meets a socket that was deleted: whatever
\* fails, for any number of workers, servers and connections.
THEOREM DeletedOnlyMetAfterAccept == Spec => []DanglingOnlyAfterAccept
<1>1. LifeInv => DanglingOnlyAfterAccept
  BY DEF LifeInv
<1>2. QED
  BY <1>1, LifeHolds, PTL
=============================================================================
