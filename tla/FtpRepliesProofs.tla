-------------------------- MODULE FtpRepliesProofs --------------------------
(***************************************************************************)
(* Proofs about FtpControl, for any commands, any server and a connection  *)
(* that may break at any time: a call reads the reply to its own command   *)
(* (RepliesMatch), and FtpLogin and FtpClose report success only when the  *)
(* server did (LoginHonest, CloseHonest), as long as the client is in step.*)
(*                                                                         *)
(* None of the three is inductive: what a call reads next depends on every *)
(* line that is on its way and on what the server still owes.  LinesInv    *)
(* says which lines may be there and in which order, OwedInv that a server *)
(* owes exactly one reply to a call that waits and one final reply to an   *)
(* open data connection.  Whether FtpClose waits for the latter it decides *)
(* by the last response alone: RespInv says why that response tells.       *)
(***************************************************************************)
EXTENDS FtpControlProofs, FiniteSetTheorems, SequenceTheorems

\* A call waits for the reply to a command, not for the final one of a transfer.
Asked == pc = "read" /\ call.cmd \notin {"close", "accept"}

(***************************************************************************)
(* What the lines that were not read yet are, and in which order.          *)
(***************************************************************************)
Reply(l) == l.of = call.cmd /\ l.code \in Codes(call.cmd)
Ended(l) ==
    /\ ~l.more /\ ~l.long
    /\ \/ l.of = "bye" /\ l.code = "4" /\ ~net.up
       \/ l.of = "final" /\ l.code = conn.final /\ ~conn.moving

\* m may be said after l: the rest of a reply, the final reply of a transfer
\* that was begun, or a farewell.
Follows(l, m) ==
    \/ m.of = "bye"
    \/ Reply(l) /\ l.more /\ Reply(m)
    \/ Reply(l) /\ (l.more \/ l.code = "1") /\ m.of = "final"

AskedLines ==
    /\ \A i \in DOMAIN net.lines : Ended(net.lines[i]) \/ Reply(net.lines[i])
    /\ \A i, j \in DOMAIN net.lines : i < j => Follows(net.lines[i], net.lines[j])
    /\ \A j \in DOMAIN net.lines : net.lines[j].of = "final" =>
         \E i \in DOMAIN net.lines : i < j /\ Reply(net.lines[i]) /\ ~net.lines[i].more

RestLines ==
    /\ \A i \in DOMAIN net.lines : Ended(net.lines[i])
    /\ \A i, j \in DOMAIN net.lines : i < j => net.lines[j].of = "bye"

LinesInv == IF Asked THEN AskedLines ELSE RestLines

(***************************************************************************)
(* What the server owes: the reply to the command that was sent, and the   *)
(* final reply of the transfer that goes on.                               *)
(***************************************************************************)
FinalLine == \E i \in DOMAIN net.lines : net.lines[i].of = "final"
FinalOwed == conn.moving \/ FinalLine

\* The client knows of a transfer whose final reply it has not asked for yet.
Transferring ==
    \/ pc \in {"idle", "accept", "xfer", "undefined"} /\ data.st = "open"
    \/ pc = "read" /\ call.cmd \in {"close", "accept"}
    \/ pc = "close" /\ ctl.resp \notin Errors
    \/ pc = "got" /\ call.cmd \in Transfers /\ call.ok

Unanswered == net.cmds = <<call.cmd>> /\ net.lines = <<>> /\ ~conn.moving
Answered ==
    /\ net.cmds = <<>>
    /\ \E i \in DOMAIN net.lines :
         /\ Reply(net.lines[i]) /\ ~net.lines[i].more
         /\ FinalOwed <=> net.lines[i].code = "1"

OwedInv ==
    /\ net.up /\ Asked => Unanswered \/ Answered
    /\ net.up /\ ~Asked => net.cmds = <<>> /\ (FinalOwed <=> Transferring)
    /\ ~net.up => net.cmds = <<>> /\ (~Asked /\ FinalLine => Transferring)

(***************************************************************************)
(* What the response tells FtpClose of the final reply.                    *)
(***************************************************************************)
RespInv ==
    /\ pc \in {"idle", "accept", "xfer"} /\ data.st = "open" => ctl.resp \notin Errors
    /\ pc = "close" /\ call.op = "FtpClose" => ctl.resp \notin Errors
    /\ pc = "got" /\ net.up /\ (call.cmd = "accept" \/ (call.cmd \in Transfers /\ ~call.ok))
          => ctl.resp \in Errors
    /\ pc = "got" /\ call.cmd \in Transfers /\ call.ok => ctl.resp = "1"
    /\ pc = "read" /\ call.cmd = "accept" /\ net.up => ~conn.moving /\ conn.final = "4"

\* A client in step sends commands only while it has no data connection.
AloneInv ==
    pc \in {"send", "read", "got"} /\ call.cmd \notin Transfers \cup {"accept"} => data.st = "none"

\* In the port mode, a server that has not connected yet has not finished well.
InPort ==
    \/ call.cmd = "PORT" \/ pc = "accept"
    \/ call.cmd \in Transfers /\ pc \in {"send", "read", "got"} /\ ctl.cmode = "port"
PortInv ==
    InPort => /\ conn.st \in {"none", "listening", "pending", "ended"}
              /\ conn.st \in {"none", "listening"} => conn.final # "2"

(***************************************************************************)
(* What a '2' says of the user, and of the transfer.                       *)
(***************************************************************************)
Welcome == {"USER", "PASS"}
LoginInv ==
    /\ \A i \in DOMAIN net.lines :
         net.lines[i].of \in Welcome /\ net.lines[i].code = "2" => net.user
    /\ pc = "got" /\ net.up /\ call.cmd \in Welcome /\ ctl.resp = "2" => net.user
    /\ pc = "got" /\ call.cmd = "PASS" /\ call.ok => ctl.resp = "2"
    /\ pc = "idle" /\ ret = [op |-> "FtpLogin", val |-> TRUE] => net.user \/ ~net.up

Confirmed == ~conn.moving /\ conn.final = "2"
CloseInv ==
    /\ pc = "got" /\ call.cmd = "close" /\ call.op = "FtpClose" /\ call.ok => Confirmed
    /\ pc = "idle" /\ ret = [op |-> "FtpClose", val |-> TRUE] => Confirmed

\* Which commands belong to which call, and that a closed connection is silent.
CallInv ==
    /\ call.cmd \notin {"final", "bye"}
    /\ call.op = "FtpLogin" => call.cmd \in Welcome /\ pc \in {"send", "read", "got"}
    /\ call.op = "FtpClose" => call.cmd \in {"none", "close"} /\ pc \in {"close", "read", "got"}
    /\ pc = "read" => call.cmd # "none"
    /\ pc = "send" => call.cmd \notin {"none", "close", "accept"}
DownInv == ctl.st # "open" => ~net.up /\ net.cmds = <<>> /\ net.lines = <<>>

Sync == LinesInv /\ OwedInv /\ RespInv /\ AloneInv /\ LoginInv /\ CloseInv
ReplyInv == CallInv /\ DownInv /\ PortInv /\ (InStep => Sync)

(***************************************************************************)
(* A step that neither the server nor the lines take part in.              *)
(***************************************************************************)
QuietMove ==
    /\ ~Asked /\ ~Asked' /\ net' = net
    /\ conn'.moving => conn.moving
    /\ net.up => conn'.moving = conn.moving
    /\ conn'.final = conn.final \/ ~FinalLine
    /\ Transferring => Transferring'
    /\ net.up /\ Transferring' => Transferring
-----------------------------------------------------------------------------
\* CallInv, DownInv and PortInv hold whether the client is in step or not.
LEMMA CallStep == ASSUME Shapes, StagesInv, CallInv, [Next]_vars PROVE CallInv'
<1>shape. call \in CallRec
  BY DEF Shapes
<1>1. CASE FtpConnect
  BY <1>1, Nothing DEF FtpConnect, CallInv, CallRec
<1>2. CASE FtpOptions
  BY <1>2 DEF FtpOptions, Rejects, CallInv
<1>3. CASE FtpLogin
  <2>1. CASE Rejects("FtpLogin")
    BY <2>1 DEF Rejects, CallInv, Welcome
  <2>2. CASE ~Rejects("FtpLogin")
    <3>1. /\ Begin("send", [NoCall EXCEPT !.op = "FtpLogin", !.cmd = "USER"])
          /\ UNCHANGED <<ctl, data, own, net>>
      BY <1>3, <2>2 DEF FtpLogin
    <3>2. QED
      BY <3>1 DEF Begin, CallInv, Welcome
  <2>3. QED
    BY <2>1, <2>2
<1>4. CASE FtpQuit
  BY <1>4 DEF FtpQuit, Begin, CallInv
<1>5. CASE SimpleCall
  <2>1. PICK c \in DOMAIN Calls, len \in Lengths \cup {0} :
           \/ UNCHANGED <<pc, call, ctl, data, net, conn, slips>> /\
                   ret' = [op |-> Calls[c], val |-> FALSE]
           \/ /\ Begin("send", [NoCall EXCEPT !.op = Calls[c], !.cmd = c, !.len = len])
              /\ UNCHANGED <<ctl, data, net>>
    BY <1>5 DEF SimpleCall, Rejects
  <2>2. c \in Plain \cup {"RNFR", "TYPE"} /\ Calls[c] \notin {"FtpLogin", "FtpClose"}
    BY CommandsAssumption DEF Calls, Plain
  <2>3. QED
    BY <2>1, <2>2, <1>shape, Nothing DEF Begin, CallInv, CallRec, Plain
<1>6. CASE NoPathOrFile
  BY <1>6 DEF NoPathOrFile, CallInv
<1>7. CASE FtpAccess
  BY <1>7 DEF FtpAccess, Access, Begin, CallInv
<1>8. CASE FtpXfer
  <2>1. PICK f \in Fds \cup {NoFd} : Access("FtpXfer", f)
    BY <1>8 DEF FtpXfer
  <2>2. PICK typ \in Types, len \in Lengths :
          /\ Begin("send", [NoCall EXCEPT !.op = "FtpXfer", !.cmd = "TYPE", !.typ = typ,
                  !.len = len, !.file = f])
    BY <2>1 DEF Access
  <2>3. call'.cmd = "TYPE" /\ call'.op = "FtpXfer" /\ pc' = "send" /\ UNCHANGED ctl
    BY <1>8, <2>2, Nothing, OtherNames DEF Begin, CallRec, FtpXfer
  <2>4. QED
    BY <2>3 DEF CallInv
<1>9. CASE FtpReadWrite
  BY <1>9 DEF FtpReadWrite, Begin, CallInv, StagesInv
<1>10. CASE FtpClose
  BY <1>10 DEF FtpClose, Begin, NoCall, CallInv
<1>11. CASE FtpCloseControl
  BY <1>11 DEF FtpCloseControl, Begin, NoCall, CallInv
<1>12. CASE CloseDangling
  BY <1>12 DEF CloseDangling, CallInv
<1>13. CASE FtpSendCmd
  BY <1>13, <1>shape DEF FtpSendCmd, Got, CallInv, CallRec
<1>14. CASE ReadResp
  BY <1>14, <1>shape DEF ReadResp, Got, CallInv, CallRec
<1>15. CASE ReadFails
  BY <1>15 DEF ReadFails, Got, CallInv
<1>16. CASE AfterConnect
  BY <1>16 DEF AfterConnect, Return, NoCall, CallInv
<1>17. CASE AfterUser
  BY <1>17, <1>shape DEF AfterUser, Send, Return, NoCall, CallInv, Welcome, CallRec
<1>18. CASE AfterQuit
  BY <1>18 DEF AfterQuit, Return, NoCall, CallInv
<1>19. CASE SecondCommand
  BY <1>19, <1>shape DEF SecondCommand, Send, CallInv, Welcome, CallRec
<1>20. CASE AfterCommand
  BY <1>20 DEF AfterCommand, Return, NoCall, CallInv
<1>21. CASE AfterType
  BY <1>21, <1>shape DEF AfterType, AccessFails, Return, NoCall, Send, CallInv, Welcome, CallRec
<1>22. CASE AfterPasv
  BY <1>22 DEF AfterPasv, AccessFails, Return, NoCall, CallInv, Welcome
<1>23. CASE AfterPort
  BY <1>23, <1>shape
    DEF AfterPort, AccessFails, Return, NoCall, MakeData, Send, CallInv, Welcome, StagesInv,
        Before, CallRec, Transfers
<1>24. CASE AfterTransfer
  BY <1>24 DEF AfterTransfer, Opened, Return, NoCall, CallInv, Welcome, Transfers
<1>25. CASE AfterAccept
  BY <1>25 DEF AfterAccept, CallInv, Welcome
<1>26. CASE AfterClose
  BY <1>26 DEF AfterClose, Return, NoCall, CallInv
<1>27. CASE OpenFails
  BY <1>27 DEF OpenFails, AccessFails, Return, NoCall, CallInv
<1>28. CASE OpenPort
  <2>1. PICK f \in Fds :
          /\ pc' = "send"
          /\ \/ /\ ctl.cmode = "passive" /\ call' = [call EXCEPT !.cmd = call.typ]
                /\ ctl' = [ctl EXCEPT !.data = TRUE]
             \/ /\ call' = [call EXCEPT !.cmd = "PORT", !.fd = f]
                /\ conn' = [NoConn EXCEPT !.st = "listening", !.typ = call.typ]
    BY <1>28 DEF OpenPort, MakeData, Send
  <2>2. pc = "open" /\ call.typ \in Transfers /\ call.op \notin {"FtpLogin", "FtpClose"}
    BY <1>28 DEF OpenPort, StagesInv, Before, CallInv
  <2>3. CASE ctl.cmode = "passive" /\ call' = [call EXCEPT !.cmd = call.typ] /\
                 ctl' = [ctl EXCEPT !.data = TRUE]
    BY <1>shape, <2>1, <2>2, <2>3 DEF CallInv, CallRec, CtlRec, Transfers
  <2>4. CASE /\ call' = [call EXCEPT !.cmd = "PORT", !.fd = f]
             /\ conn' = [NoConn EXCEPT !.st = "listening", !.typ = call.typ]
    BY <1>shape, <2>1, <2>2, <2>4, Nothing DEF CallInv, CallRec, ConnRec, NoConn, Transfers
  <2>5. QED
    BY <2>1, <2>3, <2>4
<1>29. CASE Accept
  BY <1>29 DEF Accept, Opened, Return, NoCall, CallInv
<1>30. CASE AcceptFails
  BY <1>30 DEF AcceptFails, CallInv
<1>31. CASE AcceptRefused
  BY <1>31 DEF AcceptRefused, CallInv
<1>32. CASE FtpRead
  BY <1>32, <1>shape, Nothing DEF FtpRead, AfterRead, LoopEnds, Return, CallInv, CallRec
<1>33. CASE FtpWrite
  BY <1>33, <1>shape, Nothing DEF FtpWrite, AfterWrite, LoopEnds, Return, CallInv, CallRec
<1>34. CASE SourceEnds
  BY <1>34 DEF SourceEnds, LoopEnds, CallInv
<1>35. CASE CloseData
  BY <1>35 DEF CloseData, CloseDataAnd, CallInv
<1>36. CASE Answer
  BY <1>36 DEF Answer, CallInv
<1>37. CASE ConnectBack
  BY <1>37 DEF ConnectBack, CallInv
<1>38. CASE Serve
  BY <1>38 DEF Serve, CallInv
<1>39. CASE Drop
  BY <1>39 DEF Drop, CallInv
<1>40. CASE UNCHANGED vars
  BY <1>40 DEF vars, CallInv
<1>41. QED
  BY <1>1, <1>2, <1>3, <1>4, <1>5, <1>6, <1>7, <1>8, <1>9, <1>10, <1>11, <1>12, <1>13, <1>14,
     <1>15, <1>16, <1>17, <1>18, <1>19, <1>20, <1>21, <1>22, <1>23, <1>24, <1>25, <1>26, <1>27,
     <1>28, <1>29, <1>30, <1>31, <1>32, <1>33, <1>34, <1>35, <1>36, <1>37, <1>38, <1>39, <1>40
    DEF Next, UserCalls, Stages, Returns, DataSteps, Server

\* The server of a closed connection neither speaks nor owes anything.
LEMMA DownStep == ASSUME Shapes, StagesInv, DownInv, [Next]_vars PROVE DownInv'
<1>shape. ctl \in CtlRec /\ net \in NetRec /\ call \in CallRec
  BY DEF Shapes
<1>1. CASE FtpConnect
  BY <1>1, Nothing DEF FtpConnect, DownInv, CtlRec
<1>2. CASE FtpOptions
  <2>1. CASE Rejects("FtpOptions")
    BY <2>1 DEF Rejects, DownInv
  <2>2. CASE ~Rejects("FtpOptions")
    <3>1. /\ \E o \in Options : ctl' = [ctl EXCEPT !.cmode = o[1], !.cb = o[2]]
          /\ ret' = [op |-> "FtpOptions", val |-> TRUE]
          /\ UNCHANGED <<pc, call, data, own, net, conn, slips>>
      BY <1>2, <2>2 DEF FtpOptions
    <3>2. QED
      BY <3>1 DEF DownInv
  <2>3. QED
    BY <2>1, <2>2
<1>3. CASE FtpLogin
  BY <1>3 DEF FtpLogin, Rejects, DownInv
<1>4. CASE FtpQuit
  BY <1>4 DEF FtpQuit, DownInv
<1>5. CASE SimpleCall
  <2>1. PICK c \in DOMAIN Calls, len \in Lengths \cup {0} :
           \/ UNCHANGED <<pc, call, ctl, data, net, conn, slips>> /\
                   ret' = [op |-> Calls[c], val |-> FALSE]
           \/ /\ Begin("send", [NoCall EXCEPT !.op = Calls[c], !.cmd = c, !.len = len])
              /\ UNCHANGED <<ctl, data, net>>
    BY <1>5 DEF SimpleCall, Rejects
  <2>2. QED
    BY <2>1 DEF Begin, DownInv
<1>6. CASE NoPathOrFile
  BY <1>6 DEF NoPathOrFile, DownInv
<1>7. CASE FtpAccess
  BY <1>7 DEF FtpAccess, DownInv
<1>8. CASE FtpXfer
  BY <1>8 DEF FtpXfer, DownInv
<1>9. CASE FtpReadWrite
  BY <1>9 DEF FtpReadWrite, DownInv
<1>10. CASE FtpClose
  BY <1>10 DEF FtpClose, DownInv
<1>11. CASE FtpCloseControl
  BY <1>11, <1>shape DEF FtpCloseControl, ReleaseControl, DownInv, NetRec, Severed
<1>12. CASE CloseDangling
  BY <1>12 DEF CloseDangling, DownInv
<1>13. CASE FtpSendCmd
  BY <1>13 DEF FtpSendCmd, DownInv
<1>14. CASE ReadResp
  BY <1>14, <1>shape DEF ReadResp, ReadLine, DownInv, CtlRec
<1>15. CASE ReadFails
  BY <1>15 DEF ReadFails, DownInv
<1>16. CASE AfterConnect
  BY <1>16, <1>shape DEF AfterConnect, ReleaseControl, DownInv, NetRec, Severed
<1>17. CASE AfterUser
  BY <1>17 DEF AfterUser, DownInv
<1>18. CASE AfterQuit
  BY <1>18 DEF AfterQuit, ReleaseControl, DownInv, Severed
<1>19. CASE SecondCommand
  BY <1>19 DEF SecondCommand, DownInv
<1>20. CASE AfterCommand
  BY <1>20 DEF AfterCommand, DownInv
<1>21. CASE AfterType
  BY <1>21 DEF AfterType, DownInv
<1>22. CASE AfterPasv
  BY <1>22 DEF AfterPasv, DownInv
<1>23. CASE AfterPort
  BY <1>23, <1>shape DEF AfterPort, MakeData, DownInv, CtlRec
<1>24. CASE AfterTransfer
  BY <1>24 DEF AfterTransfer, DownInv
<1>25. CASE AfterAccept
  BY <1>25 DEF AfterAccept, DownInv
<1>26. CASE AfterClose
  BY <1>26, <1>shape DEF AfterClose, ReleaseControl, DownInv, NetRec, Severed
<1>27. CASE OpenFails
  BY <1>27 DEF OpenFails, DownInv
<1>28. CASE OpenPort
  BY <1>28, <1>shape DEF OpenPort, MakeData, DownInv, CtlRec
<1>29. CASE Accept
  BY <1>29 DEF Accept, DownInv
<1>30. CASE AcceptFails
  BY <1>30 DEF AcceptFails, DownInv
<1>31. CASE AcceptRefused
  BY <1>31 DEF AcceptRefused, DownInv
<1>32. CASE FtpRead
  BY <1>32, <1>shape DEF FtpRead, DownInv, CtlRec
<1>33. CASE FtpWrite
  BY <1>33 DEF FtpWrite, DownInv
<1>34. CASE SourceEnds
  BY <1>34 DEF SourceEnds, DownInv
<1>35. CASE CloseData
  BY <1>35 DEF CloseData, CloseDataAnd, DownInv
<1>36. CASE Answer
  BY <1>36 DEF Answer, DownInv
<1>37. CASE ConnectBack
  BY <1>37, <1>shape DEF ConnectBack, FinalReply, Say, DownInv, NetRec
<1>38. CASE Serve
  BY <1>38, <1>shape DEF Serve, FinalReply, Say, DownInv, NetRec
<1>39. CASE Drop
  BY <1>39 DEF Drop, DownInv
<1>40. CASE UNCHANGED vars
  BY <1>40 DEF vars, DownInv
<1>41. QED
  BY <1>1, <1>2, <1>3, <1>4, <1>5, <1>6, <1>7, <1>8, <1>9, <1>10, <1>11, <1>12, <1>13, <1>14,
     <1>15, <1>16, <1>17, <1>18, <1>19, <1>20, <1>21, <1>22, <1>23, <1>24, <1>25, <1>26, <1>27,
     <1>28, <1>29, <1>30, <1>31, <1>32, <1>33, <1>34, <1>35, <1>36, <1>37, <1>38, <1>39, <1>40
    DEF Next, UserCalls, Stages, Returns, DataSteps, Server

\* In the port mode the server has not finished before it has connected.
LEMMA PortStep == ASSUME Shapes, StagesInv, CallInv, PortInv, [Next]_vars PROVE PortInv'
<1>shape. ctl \in CtlRec /\ conn \in ConnRec /\ call \in CallRec
  BY DEF Shapes
<1>1. CASE FtpConnect
  BY <1>1, <1>shape DEF FtpConnect, PortInv, InPort, StagesInv, CallRec, Transfers
<1>2. CASE FtpOptions
  BY <1>2 DEF FtpOptions, Rejects, PortInv, InPort
<1>3. CASE FtpLogin
  <2>1. CASE Rejects("FtpLogin")
    BY <2>1 DEF Rejects, PortInv, InPort, Transfers
  <2>2. CASE ~Rejects("FtpLogin")
    <3>1. /\ Begin("send", [NoCall EXCEPT !.op = "FtpLogin", !.cmd = "USER"])
          /\ UNCHANGED <<ctl, data, own, net>>
      BY <1>3, <2>2 DEF FtpLogin
    <3>2. QED
      BY <3>1 DEF Begin, PortInv, InPort, Transfers
  <2>3. QED
    BY <2>1, <2>2
<1>4. CASE FtpQuit
  BY <1>4 DEF FtpQuit, Begin, PortInv, InPort, Transfers
<1>5. CASE SimpleCall
  <2>1. PICK c \in DOMAIN Calls, len \in Lengths \cup {0} :
           \/ UNCHANGED <<pc, call, ctl, data, net, conn, slips>> /\
                   ret' = [op |-> Calls[c], val |-> FALSE]
           \/ /\ Begin("send", [NoCall EXCEPT !.op = Calls[c], !.cmd = c, !.len = len])
              /\ UNCHANGED <<ctl, data, net>>
    BY <1>5 DEF SimpleCall, Rejects
  <2>2. c \in Plain \cup {"RNFR", "TYPE"}
    BY CommandsAssumption DEF Calls, Plain
  <2>3. CASE UNCHANGED <<pc, call, ctl, data, net, conn, slips>>
    BY <2>3 DEF PortInv, InPort
  <2>4. CASE Begin("send", [NoCall EXCEPT !.op = Calls[c], !.cmd = c, !.len = len])
    BY <2>2, <2>4, Nothing DEF Begin, PortInv, InPort, CallRec, Plain, Transfers
  <2>5. QED
    BY <2>1, <2>3, <2>4
<1>6. CASE NoPathOrFile
  BY <1>6 DEF NoPathOrFile, PortInv, InPort
<1>7. CASE FtpAccess
  BY <1>7 DEF FtpAccess, Access, Begin, PortInv, InPort, Transfers
<1>8. CASE FtpXfer
  <2>1. PICK f \in Fds \cup {NoFd} : Access("FtpXfer", f)
    BY <1>8 DEF FtpXfer
  <2>2. PICK typ \in Types, len \in Lengths :
          /\ Begin("send", [NoCall EXCEPT !.op = "FtpXfer", !.cmd = "TYPE", !.typ = typ,
                  !.len = len, !.file = f])
    BY <2>1 DEF Access
  <2>3. call'.cmd = "TYPE" /\ call'.op = "FtpXfer" /\ pc' = "send" /\ UNCHANGED ctl
    BY <1>8, <2>2, Nothing, OtherNames DEF Begin, CallRec, FtpXfer
  <2>4. QED
    BY <2>3 DEF PortInv, InPort, Transfers
<1>9. CASE FtpReadWrite
  BY <1>9 DEF FtpReadWrite, Begin, PortInv, InPort, StagesInv
<1>10. CASE FtpClose
  BY <1>10 DEF FtpClose, Begin, PortInv, InPort, StagesInv
<1>11. CASE FtpCloseControl
  BY <1>11 DEF FtpCloseControl, Begin, NoCall, PortInv, InPort
<1>12. CASE CloseDangling
  BY <1>12 DEF CloseDangling, PortInv, InPort
<1>13. CASE FtpSendCmd
  BY <1>13, <1>shape DEF FtpSendCmd, Got, PortInv, InPort, CallRec
<1>14. CASE ReadResp
  BY <1>14, <1>shape DEF ReadResp, ReadLine, Got, PortInv, InPort, CtlRec, CallRec
<1>15. CASE ReadFails
  BY <1>15 DEF ReadFails, Got, PortInv, InPort
<1>16. CASE AfterConnect
  BY <1>16 DEF AfterConnect, Return, NoCall, PortInv, InPort
<1>17. CASE AfterUser
  BY <1>17, <1>shape DEF AfterUser, Send, Return, NoCall, PortInv, InPort, CallRec, Transfers
<1>18. CASE AfterQuit
  BY <1>18 DEF AfterQuit, Return, NoCall, PortInv, InPort
<1>19. CASE SecondCommand
  BY <1>19, <1>shape, Nothing, CommandsAssumption
    DEF SecondCommand, Send, PortInv, InPort, StagesInv, Before, CtlRec, ConnRec, CallRec,
        Transfers
<1>20. CASE AfterCommand
  BY <1>20 DEF AfterCommand, Return, NoCall, PortInv, InPort
<1>21. CASE AfterType
  BY <1>21, <1>shape DEF AfterType, AccessFails, Return, NoCall, Send, PortInv, InPort, CallRec
<1>22. CASE AfterPasv
  BY <1>22 DEF AfterPasv, AccessFails, Return, NoCall, PortInv, InPort
<1>23. CASE AfterPort
  BY <1>23 DEF AfterPort, NoConn, PortInv, InPort
<1>24. CASE AfterTransfer
  BY <1>24 DEF AfterTransfer, Opened, Return, NoCall, PortInv, InPort
<1>25. CASE AfterAccept
  BY <1>25 DEF AfterAccept, PortInv, InPort
<1>26. CASE AfterClose
  BY <1>26 DEF AfterClose, Return, NoCall, PortInv, InPort
<1>27. CASE OpenFails
  BY <1>27 DEF OpenFails, AccessFails, Return, NoCall, PortInv, InPort
<1>28. CASE OpenPort
  <2>1. PICK f \in Fds :
          /\ pc' = "send"
          /\ \/ /\ ctl.cmode = "passive" /\ call' = [call EXCEPT !.cmd = call.typ]
                /\ ctl' = [ctl EXCEPT !.data = TRUE]
             \/ /\ call' = [call EXCEPT !.cmd = "PORT", !.fd = f]
                /\ conn' = [NoConn EXCEPT !.st = "listening", !.typ = call.typ]
    BY <1>28 DEF OpenPort, MakeData, Send
  <2>2. pc = "open" /\ call.typ \in Transfers /\ call.op \notin {"FtpLogin", "FtpClose"}
    BY <1>28 DEF OpenPort, StagesInv, Before, CallInv
  <2>3. CASE ctl.cmode = "passive" /\ call' = [call EXCEPT !.cmd = call.typ] /\
                 ctl' = [ctl EXCEPT !.data = TRUE]
    BY <1>shape, <2>1, <2>2, <2>3 DEF PortInv, InPort, CallRec, CtlRec, Transfers
  <2>4. CASE /\ call' = [call EXCEPT !.cmd = "PORT", !.fd = f]
             /\ conn' = [NoConn EXCEPT !.st = "listening", !.typ = call.typ]
    BY <1>shape, <2>1, <2>2, <2>4, Nothing DEF PortInv, InPort, CallRec, ConnRec, NoConn, Transfers
  <2>5. QED
    BY <2>1, <2>3, <2>4
<1>29. CASE Accept
  BY <1>29 DEF Accept, Opened, Return, NoCall, PortInv, InPort, StagesInv, Transfers
<1>30. CASE AcceptFails
  BY <1>30 DEF AcceptFails, PortInv, InPort
<1>31. CASE AcceptRefused
  BY <1>31 DEF AcceptRefused, PortInv, InPort
<1>32. CASE FtpRead
  BY <1>32, <1>shape, Nothing, CommandsAssumption
    DEF FtpRead, AfterRead, LoopEnds, Return, NoCall, PortInv, InPort, StagesInv, Before,
        CallRec, Transfers
<1>33. CASE FtpWrite
  BY <1>33, <1>shape, Nothing, CommandsAssumption
    DEF FtpWrite, AfterWrite, LoopEnds, Return, PortInv, InPort, StagesInv, CallRec, Transfers
<1>34. CASE SourceEnds
  BY <1>34 DEF SourceEnds, LoopEnds, PortInv, InPort
<1>35. CASE CloseData
  BY <1>35 DEF CloseData, CloseDataAnd, PortInv, InPort, Transfers
<1>36. CASE Answer
  BY <1>36, <1>shape DEF Answer, PortInv, InPort, ConnRec
<1>37. CASE ConnectBack
  BY <1>37, <1>shape DEF ConnectBack, FinalReply, PortInv, ConnRec
<1>38. CASE Serve
  BY <1>38, <1>shape DEF Serve, FinalReply, PortInv, InPort, ConnRec
<1>39. CASE Drop
  BY <1>39, <1>shape DEF Drop, PortInv, InPort, ConnRec
<1>40. CASE UNCHANGED vars
  BY <1>40 DEF vars, PortInv, InPort
<1>41. QED
  BY <1>1, <1>2, <1>3, <1>4, <1>5, <1>6, <1>7, <1>8, <1>9, <1>10, <1>11, <1>12, <1>13, <1>14,
     <1>15, <1>16, <1>17, <1>18, <1>19, <1>20, <1>21, <1>22, <1>23, <1>24, <1>25, <1>26, <1>27,
     <1>28, <1>29, <1>30, <1>31, <1>32, <1>33, <1>34, <1>35, <1>36, <1>37, <1>38, <1>39, <1>40
    DEF Next, UserCalls, Stages, Returns, DataSteps, Server

\* A slip is not forgotten before the next connection.
LEMMA SlipsGrow ==
    ASSUME [Next]_vars, ~FtpConnect, InStep'
    PROVE  InStep
<1>1. slips \subseteq slips'
  BY DEF Next, UserCalls, Stages, Returns, DataSteps, Server, vars, FtpOptions, Rejects, FtpLogin,
        FtpQuit, SimpleCall, NoPathOrFile, FtpAccess, FtpXfer, Access,
        FtpReadWrite, FtpClose, FtpCloseControl, CloseDangling, Begin, FtpSendCmd, ReadResp,
        ReadLine, ReadFails, AfterConnect, AfterUser, AfterQuit, SecondCommand, AfterCommand,
        AfterType, AfterPasv, AfterPort, AfterTransfer, AfterAccept, AfterClose, OpenFails,
        OpenPort, Accept, AcceptFails, AcceptRefused, FtpRead, FtpWrite, SourceEnds, CloseData,
        CloseDataAnd, Answer, ConnectBack, Serve, Drop
<1>2. QED
  BY <1>1 DEF InStep

\* A step that the server and the lines have no part in keeps what is known of them,
LEMMA Quiet ==
    ASSUME CallInv, LinesInv, OwedInv, QuietMove
    PROVE  LinesInv' /\ OwedInv'
<1>1. net' = net /\ ~Asked /\ ~Asked'
  BY DEF QuietMove
<1>2. RestLines
  BY <1>1 DEF LinesInv
<1>3. RestLines'
  <2>1. ASSUME NEW i \in DOMAIN net.lines PROVE Ended(net.lines[i])'
    BY <1>1, <1>2, <2>1 DEF RestLines, Ended, QuietMove, FinalLine
  <2>2. QED
    BY <1>1, <1>2, <2>1 DEF RestLines
<1>4. LinesInv'
  BY <1>1, <1>3 DEF LinesInv
<1>5. FinalLine' = FinalLine
  BY <1>1 DEF FinalLine
<1>6. OwedInv'
  BY <1>1, <1>5 DEF OwedInv, QuietMove, FinalOwed
<1>7. QED
  BY <1>4, <1>6

\* and most steps of a call are of that kind.
LEMMA QuietSteps ==
    ASSUME Shapes, StagesInv, CallInv, LinesInv, OwedInv, RespInv, AloneInv, InStep, InStep',
           FtpOptions \/ FtpLogin \/ FtpQuit \/ SimpleCall \/ NoPathOrFile \/ FtpAccess \/
           FtpXfer \/ FtpReadWrite \/ FtpClose \/ CloseDangling \/ AfterUser \/ SecondCommand
           \/ AfterCommand \/ AfterType \/ AfterPasv \/ AfterPort \/ AfterTransfer \/
           AfterAccept \/ OpenFails \/ OpenPort \/ Accept \/ AcceptFails \/ AcceptRefused \/
           FtpRead \/ FtpWrite \/ SourceEnds
    PROVE  QuietMove
<1>shape. ctl \in CtlRec /\ conn \in ConnRec /\ call \in CallRec /\ data \in DataRec
  BY DEF Shapes
<1>owes. ~Asked /\ ~Transferring => ~FinalLine /\ (net.up => ~conn.moving)
  BY DEF OwedInv, FinalOwed
<1>begin. ASSUME NEW c, Begin("send", c), UNCHANGED <<data, net>> PROVE QuietMove
  <2>1. pc = "idle" /\ pc' = "send"
    BY <1>begin DEF Begin
  <2>2. data.st # "open"
    BY <1>begin, "mixed" \notin {"leak"} DEF Begin, InStep
  <2>3. conn' = conn \/ (conn.moving = FALSE /\ conn' = NoConn)
    BY <1>shape, <1>begin DEF Begin, ConnRec
  <2>4. NoConn.moving = FALSE
    BY DEF NoConn
  <2>5. QED
    BY <1>owes, <1>begin, <2>1, <2>2, <2>3, <2>4 DEF QuietMove, Asked, Transferring
<1>1. CASE FtpOptions
  BY <1>1 DEF FtpOptions, Rejects, QuietMove, Asked, Transferring
<1>2. CASE FtpLogin
  <2>1. CASE Rejects("FtpLogin")
    BY <2>1, <1>shape, <1>owes DEF Rejects, NoConn, QuietMove, Asked, Transferring, InStep, ConnRec
  <2>2. CASE ~Rejects("FtpLogin")
    <3>1. /\ Begin("send", [NoCall EXCEPT !.op = "FtpLogin", !.cmd = "USER"])
          /\ UNCHANGED <<ctl, data, own, net>>
      BY <1>2, <2>2 DEF FtpLogin
    <3>2. QED
      BY <3>1, <1>shape, <1>owes DEF Begin, NoConn, QuietMove, Asked, Transferring, InStep, ConnRec
  <2>3. QED
    BY <2>1, <2>2
<1>3. CASE FtpQuit
  BY <1>3, <1>shape, <1>owes
    DEF FtpQuit, Begin, NoConn, QuietMove, Asked, Transferring, InStep, ConnRec
<1>4. CASE SimpleCall
  <2>1. PICK c \in DOMAIN Calls, len \in Lengths \cup {0} :
           \/ UNCHANGED <<pc, call, ctl, data, net, conn, slips>> /\
                   ret' = [op |-> Calls[c], val |-> FALSE]
           \/ /\ Begin("send", [NoCall EXCEPT !.op = Calls[c], !.cmd = c, !.len = len])
              /\ UNCHANGED <<ctl, data, net>>
    BY <1>4 DEF SimpleCall, Rejects
  <2>2. CASE UNCHANGED <<pc, call, ctl, data, net, conn, slips>>
    <3>1. Transferring' = Transferring
      BY <2>2 DEF Transferring
    <3>2. pc = "idle"
      BY <1>4 DEF SimpleCall, Begin, Rejects
    <3>3. QED
      BY <2>2, <3>1, <3>2 DEF QuietMove, Asked
  <2>3. CASE Begin("send", [NoCall EXCEPT !.op = Calls[c], !.cmd = c, !.len = len]) /\
                 UNCHANGED <<ctl, data, net>>
    BY <1>begin, <2>3
  <2>4. QED
    BY <2>1, <2>2, <2>3
<1>5. CASE NoPathOrFile
  BY <1>5 DEF NoPathOrFile, QuietMove, Asked, Transferring
<1>6. CASE FtpAccess
  BY <1>6, <1>begin DEF FtpAccess, Access
<1>7. CASE FtpXfer
  BY <1>7, <1>begin DEF FtpXfer, Access
<1>8. CASE FtpReadWrite
  BY <1>8 DEF FtpReadWrite, Begin, QuietMove, Asked, Transferring
<1>9. CASE FtpClose
  BY <1>9 DEF FtpClose, Begin, QuietMove, Asked, Transferring, RespInv
<1>10. CASE CloseDangling
  BY <1>10 DEF CloseDangling, QuietMove, Asked, Transferring
<1>11. CASE AfterUser
  BY <1>11 DEF AfterUser, Send, Return, QuietMove, Asked, Transferring, AloneInv, Transfers
<1>12. CASE SecondCommand
  BY <1>12 DEF SecondCommand, Send, QuietMove, Asked, Transferring, Transfers
<1>13. CASE AfterCommand
  BY <1>13, <1>shape, <1>owes, CommandsAssumption
    DEF AfterCommand, Return, QuietMove, Asked, Transferring, AloneInv, Transfers, Plain
<1>14. CASE AfterType
  BY <1>14
    DEF AfterType, AccessFails, Return, Send, QuietMove, Asked, Transferring, AloneInv,
        Transfers
<1>15. CASE AfterPasv
  BY <1>15 DEF AfterPasv, AccessFails, Return, QuietMove, Asked, Transferring, AloneInv, Transfers
<1>16. CASE AfterPort
  BY <1>16, <1>shape, <1>owes, Nothing
    DEF AfterPort, AccessFails, Return, MakeData, Send, NoConn, NoConn, QuietMove, Asked,
        Transferring, AloneInv, ConnRec, Transfers
<1>17. CASE AfterTransfer
  BY <1>17
    DEF AfterTransfer, Opened, Return, QuietMove, Asked, Transferring, StagesInv, Behind,
        RespInv
<1>18. CASE AfterAccept
  BY <1>18 DEF AfterAccept, QuietMove, Asked, Transferring, RespInv, Transfers
<1>19. CASE OpenFails
  BY <1>19 DEF OpenFails, AccessFails, Return, QuietMove, Asked, Transferring, StagesInv, Before
<1>20. CASE OpenPort
  BY <1>20, <1>shape, <1>owes, Nothing, CommandsAssumption
    DEF OpenPort, MakeData, Send, NoConn, NoConn, QuietMove, Asked, Transferring, StagesInv,
        Before, Behind, CallInv, RespInv, AloneInv, ConnRec
<1>21. CASE Accept
  BY <1>21 DEF Accept, Opened, Return, QuietMove, Asked, Transferring
<1>22. CASE AcceptFails
  BY <1>22 DEF AcceptFails, QuietMove, Asked, Transferring, StagesInv, Behind, Errors
<1>23. CASE AcceptRefused
  BY <1>23 DEF AcceptRefused, QuietMove, Asked, Transferring, StagesInv, Behind
<1>24. CASE FtpRead
  <2>1. pc = "xfer" /\ data.st = "open" /\ UNCHANGED <<data, net>>
    BY <1>24 DEF FtpRead, StagesInv, Behind
  <2>2. conn'.moving = conn.moving /\ conn'.final = conn.final
    BY <1>24, <1>shape DEF FtpRead, ConnRec
  <2>3. pc' \in {"idle", "xfer", "close"}
    BY <1>24 DEF FtpRead, AfterRead, LoopEnds, Return
  <2>4. ctl'.resp \notin Errors
    BY <1>24, <1>shape, <2>1 DEF FtpRead, RespInv, CtlRec, Errors
  <2>5. QED
    BY <2>1, <2>2, <2>3, <2>4 DEF QuietMove, Asked, Transferring
<1>25. CASE FtpWrite
  BY <1>25, <1>shape
    DEF FtpWrite, WriteBlock, AfterWrite, LoopEnds, Return, QuietMove, Asked, Transferring,
        StagesInv, Behind, RespInv, ConnRec, Errors, Transfers
<1>26. CASE SourceEnds
  BY <1>26 DEF SourceEnds, LoopEnds, QuietMove, Asked, Transferring, StagesInv, Behind, RespInv
<1>27. QED
  BY <1>1, <1>2, <1>3, <1>4, <1>5, <1>6, <1>7, <1>8, <1>9, <1>10, <1>11, <1>12, <1>13, <1>14,
     <1>15, <1>16, <1>17, <1>18, <1>19, <1>20, <1>21, <1>22, <1>23, <1>24, <1>25, <1>26

\* What a call in step reads: a line of the reply it waits for, or the end of what
\* the server owed.
LEMMA Reading ==
    ASSUME Shapes, LinesInv, InStep', ReadResp
    PROVE  LET l == Head(net.lines) IN
           /\ pc = "read" /\ net.lines # <<>> /\ l \in LineRec /\ ~l.long
           /\ l = net.lines[1] /\ 1 \in DOMAIN net.lines
           /\ Asked => Reply(l) \/ (l.of = "bye" /\ Ended(l) /\ ~net.up)
           /\ ~Asked => Ended(l)
           /\ ctl' = [ctl EXCEPT !.resp = l.code] /\ ctl'.resp = l.code
           /\ net' = [net EXCEPT !.lines = Tail(net.lines)]
           /\ IF l.more THEN UNCHANGED <<pc, call, ret>>
                        ELSE /\ pc' = "got" /\ UNCHANGED ret
                             /\ call' = [call EXCEPT !.ok = (l.code = Expected(call.cmd))]
           /\ UNCHANGED <<data, conn>>
<1> DEFINE l == Head(net.lines)
<1>1. pc = "read" /\ net.lines # <<>> /\ ReadLine(l)
  BY DEF ReadResp
<1>2. net.lines \in Seq(LineRec) /\ net.lines # <<>>
  BY <1>1, NetParts
<1>3. l = net.lines[1] /\ 1 \in DOMAIN net.lines /\ l \in LineRec
  BY <1>2
<1>4. ~l.long
  <2>1. "long" \notin slips'
    BY DEF InStep
  <2>2. l.long => slips' = slips \cup {"long"}
    BY <1>1 DEF ReadLine
  <2>3. QED
    BY <2>1, <2>2
<1>5. ~Asked => Ended(l)
  BY <1>3 DEF LinesInv, RestLines
<1>asked. ASSUME Asked PROVE Reply(l) \/ (l.of = "bye" /\ Ended(l) /\ ~net.up)
  <2>1. DOMAIN net.lines \subseteq Nat \ {0}
    BY <1>2
  <2>2. l.of # "final"
    BY <1>3, <1>asked, <2>1 DEF LinesInv, AskedLines
  <2>3. Ended(l) \/ Reply(l)
    BY <1>3, <1>asked DEF LinesInv, AskedLines
  <2>4. QED
    BY <2>2, <2>3 DEF Ended
<1>6. ctl' = [ctl EXCEPT !.resp = l.code] /\ net' = [net EXCEPT !.lines = Tail(net.lines)]
  <2> HIDE DEF l
  <2> QED BY <1>1, <1>4 DEF ReadLine
<1>7. QED
  BY <1>1, <1>3, <1>4, <1>5, <1>asked, <1>6 DEF ReadResp, Got

\* The lines of an answer.
LEMMA OneOrTwo ==
    ASSUME NEW S, NEW m \in S, NEW r \in S
    PROVE  Append(<<>>, m) \o <<r>> = <<m, r>> /\ <<>> \o <<r>> = <<r>>
<1>1. <<>> \in Seq(S) /\ <<m>> \in Seq(S)
  OBVIOUS
<1>2. Append(<<>>, m) = <<m>> /\ Append(<<>>, r) = <<r>>
  OBVIOUS
<1>3. Append(<<m>>, r) = <<m, r>>
  <2>1. Len(<<m>>) = 1 /\ <<m>>[1] = m
    OBVIOUS
  <2>2. Append(<<m>>, r) = [i \in 1 .. 2 |-> IF i = 1 THEN m ELSE r]
    BY <1>1, <2>1, SMT
  <2>3. <<m, r>> = [i \in 1 .. 2 |-> IF i = 1 THEN m ELSE r]
    OBVIOUS
  <2>4. QED
    BY <2>2, <2>3
<1>4. Append(<<m>>, r) = <<m>> \o <<r>> /\ Append(<<>>, r) = <<>> \o <<r>>
  BY <1>1, AppendIsConcat
<1>5. QED
  BY ONLY <1>2, <1>3, <1>4

\* A command is answered only while the call waits for it.
LEMMA Answering ==
    ASSUME Shapes, OwedInv, Answer
    PROVE  /\ net.up /\ Asked /\ Unanswered
           /\ \E code \in Codes(call.cmd), more, long \in BOOLEAN :
                LET r == Line(call.cmd, code, FALSE, long)
                    m == Line(call.cmd, code, TRUE, FALSE) IN
                /\ net'.up = net.up /\ net'.cmds = <<>>
                /\ net'.lines = IF more THEN <<m, r>> ELSE <<r>>
                /\ net'.user = (net.user \/ (call.cmd \in {"USER", "PASS"} /\ code = "2"))
                /\ conn'.final = conn.final
                /\ IF call.cmd \in Transfers /\ code = "1" THEN conn'.moving ELSE conn' = conn
           /\ UNCHANGED <<pc, call, ret, ctl, data>>
<1>1. net.cmds # <<>>
  BY DEF Answer
<1>2. net.up /\ Asked /\ Unanswered
  BY <1>1 DEF OwedInv, Answered
<1>3. net.cmds = <<call.cmd>> /\ net.lines = <<>> /\ Head(net.cmds) = call.cmd /\
        Tail(net.cmds) = <<>>
  BY <1>2 DEF Unanswered
<1>4. PICK code \in Codes(call.cmd), more \in BOOLEAN, long \in BOOLEAN, blocks \in 0 .. MaxBlocks :
         /\ net' = [net EXCEPT
              !.cmds = Tail(@),
              !.lines = (IF more THEN Append(@, Line(call.cmd, code, TRUE, FALSE)) ELSE @)
                        \o <<Line(call.cmd, code, FALSE, long)>>,
              !.user = @ \/ (call.cmd \in {"USER", "PASS"} /\ code = "2")]
         /\ IF call.cmd \in Transfers /\ code = "1"
            THEN conn' = [conn EXCEPT !.moving = TRUE, !.left = blocks]
            ELSE UNCHANGED conn
  <2>1. PICK code \in Codes(Head(net.cmds)), more \in BOOLEAN, long \in BOOLEAN,
          blocks \in 0 .. MaxBlocks :
         /\ net' = [net EXCEPT
              !.cmds = Tail(@),
              !.lines = (IF more THEN Append(@, Line(Head(net.cmds), code, TRUE, FALSE)) ELSE @)
                        \o <<Line(Head(net.cmds), code, FALSE, long)>>,
              !.user = @ \/ (Head(net.cmds) \in {"USER", "PASS"} /\ code = "2")]
         /\ IF Head(net.cmds) \in Transfers /\ code = "1"
            THEN conn' = [conn EXCEPT !.moving = TRUE, !.left = blocks]
            ELSE blocks = 0 /\ UNCHANGED conn
    BY DEF Answer
  <2>2. QED
    BY <1>3, <2>1
<1> DEFINE r == Line(call.cmd, code, FALSE, long)
           m == Line(call.cmd, code, TRUE, FALSE)
<1>5. net'.lines = (IF more THEN Append(<<>>, m) ELSE <<>>) \o <<r>>
      /\ net'.up = net.up /\ net'.cmds = <<>>
      /\ net'.user = (net.user \/ (call.cmd \in {"USER", "PASS"} /\ code = "2"))
  <2> HIDE DEF r, m
  <2>1. net' = [net EXCEPT !.cmds = Tail(@),
                           !.lines = (IF more THEN Append(@, m) ELSE @) \o <<r>>,
                           !.user = @ \/ (call.cmd \in {"USER", "PASS"} /\ code = "2")]
    BY <1>4 DEF r, m
  <2>2. QED
    BY <1>3, <2>1 DEF Shapes, NetRec
<1>6. net'.lines = IF more THEN <<m, r>> ELSE <<r>>
  <2> HIDE DEF r, m
  <2>1. Append(<<>>, m) \o <<r>> = <<m, r>> /\ <<>> \o <<r>> = <<r>>
    <3>1. m \in {m, r} /\ r \in {m, r}
      OBVIOUS
    <3>2. QED
      BY <3>1, OneOrTwo
  <2>2. QED
    BY <1>5, <2>1
<1>7. /\ conn'.final = conn.final
      /\ IF call.cmd \in Transfers /\ code = "1" THEN conn'.moving ELSE conn' = conn
  BY <1>4 DEF Shapes, ConnRec
<1>8. QED
  BY <1>2, <1>5, <1>6, <1>7 DEF Answer

\* What FinalReply does, while the connection is up and after that.
LEMMA Finishing ==
    ASSUME Shapes, NEW code \in {"2", "4"}, FinalReply(code)
    PROVE  LET l == Line("final", code, FALSE, FALSE) IN
           /\ net'.up = net.up /\ net'.cmds = net.cmds /\ net'.user = net.user
           /\ ~net.up => net'.lines = net.lines
           /\ net.up => /\ DOMAIN net'.lines = 1 .. Len(net.lines) + 1
                        /\ Len(net.lines) \in Nat /\ DOMAIN net.lines = 1 .. Len(net.lines)
                        /\ \A i \in DOMAIN net.lines : net'.lines[i] = net.lines[i]
                        /\ net'.lines[Len(net.lines) + 1] = l
           /\ conn'.moving = FALSE /\ conn'.final = code
<1> DEFINE l == Line("final", code, FALSE, FALSE)
<1>1. net.lines \in Seq(LineRec)
  BY NetParts
<1>2. net' = [net EXCEPT !.lines = IF net.up THEN net.lines \o <<l>> ELSE net.lines]
  BY DEF FinalReply, Say
<1>3. conn'.moving = FALSE /\ conn'.final = code
  BY DEF FinalReply, Shapes, ConnRec
<1>4. /\ net'.up = net.up /\ net'.cmds = net.cmds /\ net'.user = net.user
      /\ net'.lines = IF net.up THEN net.lines \o <<l>> ELSE net.lines
  <2> HIDE DEF l
  <2> QED BY <1>2 DEF Shapes, NetRec
<1>5. /\ DOMAIN (net.lines \o <<l>>) = 1 .. Len(net.lines) + 1
      /\ Len(net.lines) \in Nat /\ DOMAIN net.lines = 1 .. Len(net.lines)
      /\ \A i \in DOMAIN net.lines : (net.lines \o <<l>>)[i] = net.lines[i]
      /\ (net.lines \o <<l>>)[Len(net.lines) + 1] = l
  <2> HIDE DEF l
  <2> QED BY <1>1
<1>6. QED
  <2> HIDE DEF l
  <2>1. \/ ~net.up /\ net'.lines = net.lines
        \/ net.up /\ net'.lines = net.lines \o <<l>>
    BY <1>4
  <2>2. QED
    BY <1>3, <1>4, <1>5, <2>1 DEF l

\* What is left of the lines when the connection breaks: the first k, and perhaps a
\* farewell.
LEMMA Dropping ==
    ASSUME Shapes, Drop
    PROVE  /\ net.up /\ net'.up = FALSE /\ net'.cmds = <<>> /\ net'.user = net.user
           /\ conn'.moving = FALSE /\ conn'.final = conn.final
           /\ UNCHANGED <<pc, call, ret, ctl, data>>
           /\ \A i \in DOMAIN net'.lines : i \in Nat
           /\ \E k \in Nat : \A i \in DOMAIN net'.lines :
                 IF i <= k THEN /\ i \in DOMAIN net.lines /\ net'.lines[i] = net.lines[i]
                                /\ \A j \in DOMAIN net.lines : j <= i => j \in DOMAIN net'.lines
                           ELSE i = k + 1 /\ net'.lines[i] = Line("bye", "4", FALSE, FALSE)
<1>1. net.lines \in Seq(LineRec) /\ net \in NetRec /\ conn \in ConnRec
  BY NetParts DEF Shapes
<1>2. PICK k \in 0 .. Len(net.lines), bye \in {<<>>, <<Line("bye", "4", FALSE, FALSE)>>} :
         net' = [net EXCEPT !.up = FALSE, !.cmds = <<>>, !.lines = SubSeq(@, 1, k) \o bye]
  BY DEF Drop
<1>3. /\ net'.up = FALSE /\ net'.cmds = <<>> /\ net'.user = net.user
      /\ net'.lines = SubSeq(net.lines, 1, k) \o bye
  BY <1>1, <1>2 DEF NetRec
<1>4. conn'.moving = FALSE /\ conn'.final = conn.final
  BY <1>1 DEF Drop, ConnRec
<1> DEFINE s == SubSeq(net.lines, 1, k)
           l == Line("bye", "4", FALSE, FALSE)
<1>5. /\ k \in Nat /\ s \in Seq(LineRec) /\ Len(s) = k /\ DOMAIN s = 1 .. k
      /\ \A i \in 1 .. k : i \in DOMAIN net.lines /\ s[i] = net.lines[i]
      /\ \A i \in DOMAIN net.lines : i \in Nat \ {0}
  BY <1>1
<1>6. /\ \A i \in DOMAIN net'.lines : i \in Nat
      /\ \A i \in DOMAIN net'.lines :
                 IF i <= k THEN /\ i \in DOMAIN net.lines /\ net'.lines[i] = net.lines[i]
                                /\ \A j \in DOMAIN net.lines : j <= i => j \in DOMAIN net'.lines
                           ELSE i = k + 1 /\ net'.lines[i] = l
  <2>1. CASE bye = <<>>
    <3>1. net'.lines = s
      <4>1. s \o <<>> = s
        <5> HIDE DEF s
        <5> QED BY <1>5
      <4>2. QED
        BY <4>1, <1>3, <2>1
    <3>2. QED
      <4> HIDE DEF s, l
      <4> QED BY <1>5, <3>1
  <2>2. CASE bye = <<l>>
    <3>1. net'.lines = s \o <<l>>
      BY <1>3, <2>2
    <3>2. /\ DOMAIN (s \o <<l>>) = 1 .. k + 1
          /\ \A i \in 1 .. k : (s \o <<l>>)[i] = s[i]
          /\ (s \o <<l>>)[k + 1] = l
      <4> HIDE DEF s, l
      <4> QED BY <1>5
    <3>3. QED
      <4> HIDE DEF s, l
      <4> QED BY <1>5, <3>1, <3>2
  <2>3. QED
    BY <2>1, <2>2
<1>7. QED
  BY <1>3, <1>4, <1>5, <1>6 DEF Drop

\* The lines after the first.
LEMMA Popping ==
    ASSUME NEW ls \in Seq(LineRec), ls # <<>>
    PROVE  /\ DOMAIN ls = 1 .. Len(ls) /\ Len(ls) \in Nat \ {0}
           /\ DOMAIN Tail(ls) = 1 .. Len(ls) - 1
           /\ \A i \in DOMAIN Tail(ls) : Tail(ls)[i] = ls[i + 1]
OBVIOUS

\* A call that begins to send while there is a data connection is out of step.
LEMMA AloneStep ==
    ASSUME Shapes, StagesInv, CallInv, DownInv, PortInv,
           InStep, Sync, InStep', [Next]_vars, ~FtpConnect
    PROVE  AloneInv'
<1>shape. ctl \in CtlRec /\ conn \in ConnRec /\ call \in CallRec /\ data \in DataRec /\
        net \in NetRec
  BY DEF Shapes
<1>sync. LinesInv /\ OwedInv /\ RespInv /\ AloneInv /\ LoginInv /\ CloseInv
  BY DEF Sync
<1>begin. ASSUME NEW c, Begin("send", c), UNCHANGED data PROVE AloneInv'
  <2>1. data.st # "open"
    BY <1>begin, "mixed" \notin {"leak"} DEF Begin, InStep
  <2>2. QED
    BY <1>shape, <1>begin, <2>1 DEF AloneInv, DataRec, DataSt
<1>1. CASE FtpOptions
  BY <1>1 DEF FtpOptions, Rejects, AloneInv
<1>2. CASE FtpLogin
  <2>1. CASE Rejects("FtpLogin")
    BY <2>1, <1>sync DEF Rejects, AloneInv
  <2>2. CASE ~Rejects("FtpLogin")
    <3>1. /\ Begin("send", [NoCall EXCEPT !.op = "FtpLogin", !.cmd = "USER"])
          /\ UNCHANGED <<ctl, data, own, net>>
      BY <1>2, <2>2 DEF FtpLogin
    <3>2. QED
      BY <3>1, <1>begin
  <2>3. QED
    BY <2>1, <2>2
<1>3. CASE FtpQuit
  BY <1>3, <1>begin DEF FtpQuit
<1>4. CASE SimpleCall
  <2>1. PICK c \in DOMAIN Calls, len \in Lengths \cup {0} :
           \/ UNCHANGED <<pc, call, ctl, data, net, conn, slips>> /\
                   ret' = [op |-> Calls[c], val |-> FALSE]
           \/ /\ Begin("send", [NoCall EXCEPT !.op = Calls[c], !.cmd = c, !.len = len])
              /\ UNCHANGED <<ctl, data, net>>
    BY <1>4 DEF SimpleCall, Rejects
  <2>2. CASE UNCHANGED <<pc, call, ctl, data, net, conn, slips>>
    BY <2>2, <1>sync DEF AloneInv
  <2>3. CASE Begin("send", [NoCall EXCEPT !.op = Calls[c], !.cmd = c, !.len = len]) /\
                 UNCHANGED <<ctl, data, net>>
    BY <1>begin, <2>3
  <2>4. QED
    BY <2>1, <2>2, <2>3
<1>5. CASE NoPathOrFile
  BY <1>5 DEF NoPathOrFile, AloneInv
<1>6. CASE FtpAccess
  BY <1>6, <1>begin DEF FtpAccess, Access
<1>7. CASE FtpXfer
  BY <1>7, <1>begin DEF FtpXfer, Access
<1>8. CASE FtpReadWrite
  BY <1>8 DEF FtpReadWrite, Begin, AloneInv
<1>9. CASE FtpClose
  BY <1>9 DEF FtpClose, Begin, AloneInv
<1>10. CASE FtpCloseControl
  BY <1>10 DEF FtpCloseControl, Begin, AloneInv
<1>11. CASE CloseDangling
  BY <1>11 DEF CloseDangling, AloneInv
<1>12. CASE FtpSendCmd
  BY <1>12, <1>shape, <1>sync DEF FtpSendCmd, Got, AloneInv, CallRec
<1>13. CASE ReadResp
  <2> DEFINE l == Head(net.lines)
  <2>1. /\ pc = "read" /\ ctl'.resp = l.code /\ UNCHANGED <<data, conn>>
        /\ IF l.more THEN UNCHANGED <<pc, call, ret>>
                     ELSE /\ pc' = "got" /\ UNCHANGED ret
                          /\ call' = [call EXCEPT !.ok = (l.code = Expected(call.cmd))]
        /\ net' = [net EXCEPT !.lines = Tail(net.lines)]
        /\ (Asked => Reply(l) \/ (l.of = "bye" /\ Ended(l) /\ ~net.up)) /\ (~Asked => Ended(l))
        /\ l = net.lines[1] /\ 1 \in DOMAIN net.lines
    BY <1>13, <1>sync, Reading
  <2>2. /\ call'.cmd = call.cmd /\ call'.op = call.op /\ call'.typ = call.typ
        /\ ~l.more => call'.ok = (l.code = Expected(call.cmd))
        /\ net'.up = net.up /\ net'.user = net.user /\ net'.lines = Tail(net.lines)
    <3> HIDE DEF l
    <3> QED BY <2>1, <1>shape DEF CallRec, NetRec
  <2> HIDE DEF l
  <2>3. QED
    BY <2>1, <2>2, <1>sync DEF AloneInv
<1>14. CASE ReadFails
  BY <1>14, <1>sync DEF ReadFails, Got, AloneInv
<1>15. CASE AfterConnect
  BY <1>15 DEF AfterConnect, Return, AloneInv
<1>16. CASE AfterUser
  BY <1>16, <1>sync DEF AfterUser, AloneInv, Transfers
<1>17. CASE AfterQuit
  BY <1>17 DEF AfterQuit, Return, AloneInv
<1>18. CASE SecondCommand
  BY <1>18, <1>sync DEF SecondCommand, AloneInv, Transfers
<1>19. CASE AfterCommand
  BY <1>19 DEF AfterCommand, Return, AloneInv
<1>20. CASE AfterType
  BY <1>20 DEF AfterType, AloneInv, StagesInv, Before
<1>21. CASE AfterPasv
  BY <1>21 DEF AfterPasv, AloneInv, StagesInv, Before
<1>22. CASE AfterPort
  BY <1>22, <1>shape DEF AfterPort, MakeData, Send, AloneInv, StagesInv, Before, CallRec
<1>23. CASE AfterTransfer
  BY <1>23 DEF AfterTransfer, Opened, Return, AloneInv
<1>24. CASE AfterAccept
  BY <1>24 DEF AfterAccept, AloneInv
<1>25. CASE AfterClose
  BY <1>25 DEF AfterClose, Return, AloneInv
<1>26. CASE OpenFails
  BY <1>26 DEF OpenFails, AloneInv, StagesInv, Before
<1>27. CASE OpenPort
  BY <1>27, <1>shape DEF OpenPort, MakeData, Send, AloneInv, StagesInv, Before, CallRec
<1>28. CASE Accept
  BY <1>28 DEF Accept, Opened, Return, AloneInv
<1>29. CASE AcceptFails
  BY <1>29 DEF AcceptFails, AloneInv
<1>30. CASE AcceptRefused
  BY <1>30 DEF AcceptRefused, AloneInv
<1>31. CASE FtpRead
  BY <1>31 DEF FtpRead, AfterRead, LoopEnds, Return, AloneInv
<1>32. CASE FtpWrite
  BY <1>32 DEF FtpWrite, AfterWrite, LoopEnds, Return, AloneInv
<1>33. CASE SourceEnds
  BY <1>33 DEF SourceEnds, LoopEnds, AloneInv
<1>34. CASE CloseData
  BY <1>34 DEF CloseData, CloseDataAnd, NoData, AloneInv
<1>35. CASE Answer
  BY <1>35, <1>sync DEF Answer, AloneInv
<1>36. CASE ConnectBack
  BY <1>36, <1>sync DEF ConnectBack, AloneInv
<1>37. CASE Serve
  BY <1>37, <1>sync DEF Serve, AloneInv
<1>38. CASE Drop
  BY <1>38, <1>sync DEF Drop, AloneInv
<1>39. CASE UNCHANGED vars
  BY <1>39, <1>sync DEF vars, AloneInv
<1>40. QED
  BY <1>1, <1>2, <1>3, <1>4, <1>5, <1>6, <1>7, <1>8, <1>9, <1>10, <1>11, <1>12, <1>13, <1>14,
     <1>15, <1>16, <1>17, <1>18, <1>19, <1>20, <1>21, <1>22, <1>23, <1>24, <1>25, <1>26, <1>27,
     <1>28, <1>29, <1>30, <1>31, <1>32, <1>33, <1>34, <1>35, <1>36, <1>37, <1>38, <1>39
    DEF Next, UserCalls, Stages, Returns, DataSteps, Server

\* The response of the last line read says whether a final reply is to come.
LEMMA RespStep ==
    ASSUME Shapes, StagesInv, CallInv, DownInv, PortInv,
           InStep, Sync, InStep', [Next]_vars, ~FtpConnect
    PROVE  RespInv'
<1>shape. ctl \in CtlRec /\ conn \in ConnRec /\ call \in CallRec /\ data \in DataRec /\
        net \in NetRec
  BY DEF Shapes
<1>sync. LinesInv /\ OwedInv /\ RespInv /\ AloneInv /\ LoginInv /\ CloseInv
  BY DEF Sync
<1>1. CASE FtpOptions
  <2>1. CASE Rejects("FtpOptions")
    BY <2>1, <1>sync DEF Rejects, RespInv
  <2>2. CASE ~Rejects("FtpOptions")
    <3>1. /\ \E o \in Options : ctl' = [ctl EXCEPT !.cmode = o[1], !.cb = o[2]]
          /\ ret' = [op |-> "FtpOptions", val |-> TRUE]
          /\ UNCHANGED <<pc, call, data, own, net, conn, slips>>
      BY <1>1, <2>2 DEF FtpOptions
    <3>2. pc' = pc /\ call' = call /\ net' = net /\ data' = data /\ conn' = conn
      BY <3>1
    <3>3. ctl'.resp = ctl.resp /\ ret'.op = "FtpOptions"
      BY <3>1, <1>shape DEF CtlRec
    <3>4. QED
      BY <3>2, <3>3, <1>sync DEF RespInv
  <2>3. QED
    BY <2>1, <2>2
<1>2. CASE FtpLogin
  <2>1. CASE Rejects("FtpLogin")
    BY <2>1, <1>sync DEF Rejects, RespInv
  <2>2. CASE ~Rejects("FtpLogin")
    <3>1. /\ Begin("send", [NoCall EXCEPT !.op = "FtpLogin", !.cmd = "USER"])
          /\ UNCHANGED <<ctl, data, own, net>>
      BY <1>2, <2>2 DEF FtpLogin
    <3>2. QED
      BY <3>1 DEF Begin, RespInv
  <2>3. QED
    BY <2>1, <2>2
<1>3. CASE FtpQuit
  BY <1>3 DEF FtpQuit, Begin, RespInv
<1>4. CASE SimpleCall
  <2>1. PICK c \in DOMAIN Calls, len \in Lengths \cup {0} :
           \/ UNCHANGED <<pc, call, ctl, data, net, conn, slips>> /\
                   ret' = [op |-> Calls[c], val |-> FALSE]
           \/ /\ Begin("send", [NoCall EXCEPT !.op = Calls[c], !.cmd = c, !.len = len])
              /\ UNCHANGED <<ctl, data, net>>
    BY <1>4 DEF SimpleCall, Rejects
  <2>2. CASE UNCHANGED <<pc, call, ctl, data, net, conn, slips>>
    BY <2>2, <1>sync, <2>1 DEF RespInv
  <2>3. CASE Begin("send", [NoCall EXCEPT !.op = Calls[c], !.cmd = c, !.len = len]) /\
                 UNCHANGED <<ctl, data, net>>
    BY <2>3, <1>sync DEF Begin, RespInv
  <2>4. QED
    BY <2>1, <2>2, <2>3
<1>5. CASE NoPathOrFile
  BY <1>5 DEF NoPathOrFile, RespInv, Errors
<1>6. CASE FtpAccess
  BY <1>6 DEF FtpAccess, Access, Begin, RespInv
<1>7. CASE FtpXfer
  BY <1>7 DEF FtpXfer, Access, Begin, RespInv
<1>8. CASE FtpReadWrite
  BY <1>8, <1>sync DEF FtpReadWrite, Begin, RespInv
<1>9. CASE FtpClose
  BY <1>9, <1>sync DEF FtpClose, Begin, RespInv
<1>10. CASE FtpCloseControl
  BY <1>10 DEF FtpCloseControl, Begin, NoCall, RespInv, StagesInv
<1>11. CASE CloseDangling
  BY <1>11 DEF CloseDangling, RespInv
<1>12. CASE FtpSendCmd
  <2>1. pc = "send" /\ call.cmd # "accept" /\ UNCHANGED <<ctl, data, conn>>
    BY <1>12 DEF FtpSendCmd, CallInv
  <2>2. CASE pc' = "read" /\ UNCHANGED call
    BY <2>1, <2>2 DEF RespInv
  <2>3. CASE Got(FALSE) /\ net' = net
    <3>1. ASSUME net.up, call.cmd \in Transfers PROVE FALSE
      <4>1. slips' = slips \cup {"length"}
        BY <1>12, <2>3, <3>1 DEF FtpSendCmd, Got
      <4>2. QED
        BY <4>1, "length" \notin {"leak"} DEF InStep
    <3>2. pc' = "got" /\ call'.cmd = call.cmd /\ call'.ok = FALSE
      BY <1>shape, <2>3 DEF Got, CallRec
    <3>3. QED
      BY <2>1, <2>3, <3>1, <3>2 DEF RespInv
  <2>4. QED
    BY <1>12, <2>2, <2>3 DEF FtpSendCmd
<1>13. CASE ReadResp
  <2> DEFINE l == Head(net.lines)
  <2>1. /\ pc = "read" /\ ctl'.resp = l.code /\ UNCHANGED <<data, conn>>
        /\ IF l.more THEN UNCHANGED <<pc, call, ret>>
                     ELSE /\ pc' = "got" /\ UNCHANGED ret
                          /\ call' = [call EXCEPT !.ok = (l.code = Expected(call.cmd))]
        /\ net' = [net EXCEPT !.lines = Tail(net.lines)]
        /\ (Asked => Reply(l) \/ (l.of = "bye" /\ Ended(l) /\ ~net.up)) /\ (~Asked => Ended(l))
        /\ l = net.lines[1] /\ 1 \in DOMAIN net.lines
    BY <1>13, <1>sync, Reading
  <2>2. /\ call'.cmd = call.cmd /\ call'.op = call.op /\ call'.typ = call.typ
        /\ ~l.more => call'.ok = (l.code = Expected(call.cmd))
        /\ net'.up = net.up /\ net'.user = net.user /\ net'.lines = Tail(net.lines)
    <3> HIDE DEF l
    <3> QED BY <2>1, <1>shape DEF CallRec, NetRec
  <2> HIDE DEF l
  <2>3. CASE l.more
    BY <2>1, <2>2, <2>3, <1>sync DEF RespInv
  <2>4. CASE ~l.more
    <3>1. net.up /\ call.cmd = "accept" => l.code = "4"
      BY <2>1, <1>sync DEF Asked, RespInv, Ended
    <3>2. ASSUME net.up, call.cmd \in Transfers PROVE l.code \in {"1", "4", "5"}
      <4>1. Asked
        BY <2>1, <3>2 DEF Asked, Transfers
      <4>2. Codes(call.cmd) = {"1", "4", "5"}
        BY <3>2 DEF Codes, Transfers
      <4>3. QED
        BY <2>1, <3>2, <4>1, <4>2 DEF Reply
    <3>3. call.cmd \in Transfers => Expected(call.cmd) = "1"
      BY DEF Expected, Transfers
    <3>4. QED
      BY <2>1, <2>2, <2>4, <3>1, <3>2, <3>3 DEF RespInv, Errors
  <2>5. QED
    BY <2>3, <2>4
<1>14. CASE ReadFails
  BY <1>14 DEF ReadFails, Got, RespInv
<1>15. CASE AfterConnect
  BY <1>15, <1>sync DEF AfterConnect, Return, RespInv, AloneInv, Transfers
<1>16. CASE AfterUser
  BY <1>16, <1>sync DEF AfterUser, Send, Return, RespInv, AloneInv, Transfers
<1>17. CASE AfterQuit
  BY <1>17, <1>sync DEF AfterQuit, Return, RespInv, AloneInv, Transfers
<1>18. CASE SecondCommand
  BY <1>18 DEF SecondCommand, Send, RespInv
<1>19. CASE AfterCommand
  <2>1. pc' = "idle" /\ pc = "got" /\ UNCHANGED data
        /\ call.cmd \in Commands \cup {"PASS", "RNTO", "SIZE", "RNFR", "TYPE"}
    BY <1>19 DEF AfterCommand, Return
  <2>2. call.cmd \notin Transfers \cup {"accept"}
    BY <2>1, CommandsAssumption DEF Plain, Transfers
  <2>3. QED
    BY <1>sync, <2>1, <2>2 DEF AloneInv, RespInv
<1>20. CASE AfterType
  BY <1>20 DEF AfterType, AccessFails, Return, Send, RespInv, StagesInv, Before
<1>21. CASE AfterPasv
  BY <1>21 DEF AfterPasv, AccessFails, Return, RespInv, StagesInv, Before
<1>22. CASE AfterPort
  BY <1>22 DEF AfterPort, AccessFails, Return, MakeData, Send, RespInv, StagesInv, Before
<1>23. CASE AfterTransfer
  BY <1>23, <1>sync DEF AfterTransfer, Opened, Return, RespInv, CallInv, Errors, Transfers
<1>24. CASE AfterAccept
  BY <1>24 DEF AfterAccept, RespInv, CallInv
<1>25. CASE AfterClose
  BY <1>25, <1>sync DEF AfterClose, Return, RespInv, AloneInv, Transfers
<1>26. CASE OpenFails
  BY <1>26 DEF OpenFails, AccessFails, Return, RespInv, StagesInv, Before
<1>27. CASE OpenPort
  BY <1>27 DEF OpenPort, MakeData, Send, RespInv
<1>28. CASE Accept
  BY <1>28, <1>sync DEF Accept, Opened, Return, RespInv
<1>29. CASE AcceptFails
  BY <1>29 DEF AcceptFails, RespInv, Errors
<1>30. CASE AcceptRefused
  <2>1. pc = "accept" /\ pc' = "read" /\ call'.cmd = "accept" /\ UNCHANGED <<ctl, net, conn>>
    BY <1>30, <1>shape DEF AcceptRefused, CallRec
  <2>2. ASSUME net.up PROVE ~conn.moving /\ conn.final = "4"
    <3>1. net.lines # <<>> /\ conn.st \in {"none", "listening"} /\ conn.final # "2"
      BY <1>30, <2>1, <2>2 DEF AcceptRefused, PortInv, InPort
    <3>2. net.lines[1] \in LineRec /\ 1 \in DOMAIN net.lines
      <4>1. net.lines \in Seq(LineRec)
        BY NetParts
      <4>2. QED
        BY <3>1, <4>1
    <3>3. Ended(net.lines[1])
      BY <1>sync, <2>1, <3>2 DEF LinesInv, Asked, RestLines
    <3>4. net.lines[1].code = conn.final /\ ~conn.moving
      BY <2>2, <3>3 DEF Ended
    <3>5. QED
      BY <1>shape, <3>1, <3>2, <3>4 DEF LineRec, ConnRec, Code, Final
  <2>3. QED
    BY <2>1, <2>2 DEF RespInv
<1>31. CASE FtpRead
  BY <1>31, <1>shape, <1>sync
    DEF FtpRead, AfterRead, LoopEnds, Return, RespInv, CallRec, CtlRec, Errors
<1>32. CASE FtpWrite
  BY <1>32, <1>sync DEF FtpWrite, AfterWrite, LoopEnds, Return, RespInv, StagesInv, Behind
<1>33. CASE SourceEnds
  BY <1>33 DEF SourceEnds, LoopEnds, RespInv, CallInv
<1>34. CASE CloseData
  BY <1>34 DEF CloseData, CloseDataAnd, RespInv, Transfers
<1>35. CASE Answer
  <2>1. /\ Asked /\ UNCHANGED <<pc, call, ret, ctl, data>> /\ net'.up = net.up
    BY <1>35, <1>sync, Answering
  <2>2. QED
    BY <1>sync, <2>1 DEF Asked, RespInv
<1>36. CASE ConnectBack
  <2>1. conn.moving /\ UNCHANGED <<pc, call, ctl, data>> /\ net'.up = net.up
    BY <1>36, <1>shape DEF ConnectBack, FinalReply, NetRec
  <2>2. QED
    BY <1>sync, <2>1 DEF RespInv
<1>37. CASE Serve
  <2>1. conn.moving /\ UNCHANGED <<pc, call, ctl, data>> /\ net'.up = net.up
    BY <1>37, <1>shape DEF Serve, FinalReply, NetRec
  <2>2. QED
    BY <1>sync, <2>1 DEF RespInv
<1>38. CASE Drop
  BY <1>38, <1>sync DEF Drop, RespInv
<1>39. CASE UNCHANGED vars
  BY <1>39, <1>sync DEF vars, RespInv
<1>40. QED
  BY <1>1, <1>2, <1>3, <1>4, <1>5, <1>6, <1>7, <1>8, <1>9, <1>10, <1>11, <1>12, <1>13, <1>14,
     <1>15, <1>16, <1>17, <1>18, <1>19, <1>20, <1>21, <1>22, <1>23, <1>24, <1>25, <1>26, <1>27,
     <1>28, <1>29, <1>30, <1>31, <1>32, <1>33, <1>34, <1>35, <1>36, <1>37, <1>38, <1>39
    DEF Next, UserCalls, Stages, Returns, DataSteps, Server

\* A '2' to USER or PASS is said, read and kept only with the user let in.
LEMMA LoginStep ==
    ASSUME Shapes, StagesInv, CallInv, DownInv, PortInv,
           InStep, Sync, InStep', [Next]_vars, ~FtpConnect
    PROVE  LoginInv'
<1>shape. ctl \in CtlRec /\ conn \in ConnRec /\ call \in CallRec /\ data \in DataRec /\
        net \in NetRec
  BY DEF Shapes
<1>sync. LinesInv /\ OwedInv /\ RespInv /\ AloneInv /\ LoginInv /\ CloseInv
  BY DEF Sync
<1> DEFINE Told == \A i \in DOMAIN net.lines :
                     net.lines[i].of \in Welcome /\ net.lines[i].code = "2" => net.user
<1>same. net' = net => Told' /\ net'.user = net.user /\ net'.up = net.up
  BY <1>sync DEF LoginInv, Told
<1>cut. net' = Severed => Told' /\ ~net'.up
  BY <1>shape DEF Severed, NetRec
<1>login. call.op # "FtpLogin" \/ call.cmd \in Welcome
  BY DEF CallInv
<1>final. ASSUME NEW code \in {"2", "4"}, FinalReply(code)
      PROVE  Told' /\ net'.user = net.user /\ net'.up = net.up
  <2>1. /\ net'.user = net.user /\ net'.up = net.up
        /\ \A i \in DOMAIN net'.lines :
              \/ i \in DOMAIN net.lines /\ net'.lines[i] = net.lines[i]
              \/ net'.lines[i] = Line("final", code, FALSE, FALSE)
    <3>1. CASE net.up
      <4>1. DOMAIN net'.lines = 1 .. Len(net.lines) + 1 /\ Len(net.lines) \in Nat
            /\ DOMAIN net.lines = 1 .. Len(net.lines)
        BY <1>final, <3>1, Finishing
      <4>2. \A i \in DOMAIN net'.lines : i \in DOMAIN net.lines \/ i = Len(net.lines) + 1
        BY <4>1
      <4>3. QED
        BY <1>final, <3>1, <4>2, Finishing
    <3>2. CASE ~net.up
      BY <1>final, <3>2, Finishing
    <3>3. QED
      BY <3>1, <3>2
  <2>2. QED
    BY <1>sync, <2>1, "final" \notin Welcome DEF LoginInv, Line, Welcome, Told
<1> HIDE DEF Told
<1>1. CASE FtpOptions
  <2>1. CASE Rejects("FtpOptions")
    BY <2>1, <1>same DEF Rejects, LoginInv, Told
  <2>2. CASE ~Rejects("FtpOptions")
    <3>1. /\ \E o \in Options : ctl' = [ctl EXCEPT !.cmode = o[1], !.cb = o[2]]
          /\ ret' = [op |-> "FtpOptions", val |-> TRUE]
          /\ UNCHANGED <<pc, call, data, own, net, conn, slips>>
      BY <1>1, <2>2 DEF FtpOptions
    <3>2. pc' = pc /\ call' = call /\ net' = net /\ data' = data /\ conn' = conn
      BY <3>1
    <3>3. ctl'.resp = ctl.resp /\ ret'.op = "FtpOptions"
      BY <3>1, <1>shape DEF CtlRec
    <3>4. QED
      BY <3>2, <3>3, <1>same, <1>sync DEF LoginInv, Told
  <2>3. QED
    BY <2>1, <2>2
<1>2. CASE FtpLogin
  BY <1>2, <1>same DEF FtpLogin, Rejects, Begin, LoginInv, Told
<1>3. CASE FtpQuit
  BY <1>3, <1>same DEF FtpQuit, Begin, LoginInv, Told
<1>4. CASE SimpleCall
  <2>1. PICK c \in DOMAIN Calls, len \in Lengths \cup {0} :
           \/ UNCHANGED <<pc, call, ctl, data, net, conn, slips>> /\
                   ret' = [op |-> Calls[c], val |-> FALSE]
           \/ /\ Begin("send", [NoCall EXCEPT !.op = Calls[c], !.cmd = c, !.len = len])
              /\ UNCHANGED <<ctl, data, net>>
    BY <1>4 DEF SimpleCall, Rejects
  <2>2. CASE UNCHANGED <<pc, call, ctl, data, net, conn, slips>> /\
                 ret' = [op |-> Calls[c], val |-> FALSE]
    BY <2>2, <1>sync, <2>1 DEF LoginInv, Told
  <2>3. CASE Begin("send", [NoCall EXCEPT !.op = Calls[c], !.cmd = c, !.len = len]) /\
                 UNCHANGED <<ctl, data, net>>
    BY <2>3, <1>same DEF Begin, LoginInv, Told
  <2>4. QED
    BY <2>1, <2>2, <2>3
<1>5. CASE NoPathOrFile
  BY <1>5, <1>same DEF NoPathOrFile, LoginInv, Told
<1>6. CASE FtpAccess
  BY <1>6, <1>same DEF FtpAccess, Access, Begin, LoginInv, Told
<1>7. CASE FtpXfer
  BY <1>7, <1>same DEF FtpXfer, Access, Begin, LoginInv, Told
<1>8. CASE FtpReadWrite
  BY <1>8, <1>same DEF FtpReadWrite, Begin, LoginInv, Told
<1>9. CASE FtpClose
  BY <1>9, <1>same DEF FtpClose, Begin, LoginInv, Told
<1>10. CASE FtpCloseControl
  <2>1. CASE Begin("close", [NoCall EXCEPT !.op = "FtpCloseControl"]) /\ UNCHANGED net
    BY <2>1, <1>same DEF Begin, LoginInv, Told
  <2>2. CASE pc' = "idle" /\ ret'.op = "FtpCloseControl" /\ net' = Severed
    BY <2>2, <1>cut DEF LoginInv, Told
  <2>3. QED
    BY <1>10, <2>1, <2>2 DEF FtpCloseControl, ReleaseControl
<1>11. CASE CloseDangling
  BY <1>11, <1>same DEF CloseDangling, LoginInv, Told
<1>12. CASE FtpSendCmd
  <2>1. /\ pc' \in {"read", "got"} /\ Told' /\ UNCHANGED ctl /\ call'.cmd = call.cmd
        /\ pc' = "got" => ~call'.ok /\ net'.up = net.up
    <3>1. net'.lines = net.lines /\ net'.user = net.user
      BY <1>12, <1>shape DEF FtpSendCmd, NetRec
    <3>2. QED
      BY <1>12, <1>shape, <1>sync, <3>1 DEF FtpSendCmd, Got, CallRec, LoginInv, Told
  <2>3. pc' = "got" /\ call.cmd \in Welcome => ~net.up
    <3>1. call.cmd \in Welcome => ~(CmdLen(call.cmd, call.len) + 3 > TMP_BUFSIZ)
      BY DEF Welcome, CmdLen, VerbLen, WithPath, Plain, Transfers, TMP_BUFSIZ
    <3>2. QED
      BY <1>12, <3>1 DEF FtpSendCmd
  <2>4. QED
    BY <2>1, <2>3 DEF LoginInv, Told
<1>13. CASE ReadResp
  <2> DEFINE l == Head(net.lines)
  <2>1. /\ pc = "read" /\ ctl'.resp = l.code /\ UNCHANGED <<data, conn>>
        /\ IF l.more THEN UNCHANGED <<pc, call, ret>>
                     ELSE /\ pc' = "got" /\ UNCHANGED ret
                          /\ call' = [call EXCEPT !.ok = (l.code = Expected(call.cmd))]
        /\ net' = [net EXCEPT !.lines = Tail(net.lines)]
        /\ (Asked => Reply(l) \/ (l.of = "bye" /\ Ended(l) /\ ~net.up)) /\ (~Asked => Ended(l))
        /\ l = net.lines[1] /\ 1 \in DOMAIN net.lines
    BY <1>13, <1>sync, Reading
  <2>2. /\ call'.cmd = call.cmd /\ call'.op = call.op /\ call'.typ = call.typ
        /\ ~l.more => call'.ok = (l.code = Expected(call.cmd))
        /\ net'.up = net.up /\ net'.user = net.user /\ net'.lines = Tail(net.lines)
    <3> HIDE DEF l
    <3> QED BY <2>1, <1>shape DEF CallRec, NetRec
  <2> HIDE DEF l
  <2>3. Told'
    <3>1. net.lines \in Seq(LineRec) /\ net.lines # <<>>
      BY <1>13, NetParts DEF ReadResp
    <3>2. DOMAIN Tail(net.lines) = 1 .. Len(net.lines) - 1 /\ DOMAIN net.lines = 1 .. Len(net.lines)
          /\ Len(net.lines) \in Nat
          /\ \A i \in DOMAIN Tail(net.lines) : Tail(net.lines)[i] = net.lines[i + 1]
      BY <3>1, Popping
    <3>3. \A i \in DOMAIN Tail(net.lines) : i + 1 \in DOMAIN net.lines
      BY <3>2
    <3>4. QED
      BY <1>sync, <2>2, <3>2, <3>3 DEF LoginInv, Told
  <2>4. CASE l.more
    BY <2>1, <2>2, <2>3, <2>4, <1>sync DEF LoginInv, Told
  <2>5. CASE ~l.more
    <3>1. net.up /\ call.cmd \in Welcome /\ l.code = "2" => net.user
      <4>1. call.cmd \in Welcome => Asked
        BY <2>1 DEF Asked, Welcome
      <4>2. net.up /\ call.cmd \in Welcome => l.of = call.cmd
        BY <2>1, <4>1 DEF Reply
      <4>3. QED
        BY <1>sync, <2>1, <4>2 DEF LoginInv, Told
    <3>2. Expected("PASS") = "2"
      BY DEF Expected, Transfers
    <3>3. QED
      BY <2>1, <2>2, <2>3, <2>5, <3>1, <3>2 DEF LoginInv, Told
  <2>6. QED
    BY <2>4, <2>5
<1>14. CASE ReadFails
  BY <1>14 DEF ReadFails, Got, LoginInv
<1>15. CASE AfterConnect
  <2>1. pc' = "idle" /\ ret'.op # "FtpLogin" /\ net' \in {net, Severed}
    BY <1>15, <1>login DEF AfterConnect, Return, ReleaseControl, Welcome
  <2>2. QED
    BY <2>1, <1>same, <1>cut DEF LoginInv, Told
<1>16. CASE AfterUser
  BY <1>16, <1>sync, Nothing DEF AfterUser, Send, Return, LoginInv, CallInv, CtlRec
<1>17. CASE AfterQuit
  <2>1. pc' = "idle" /\ ret'.op # "FtpLogin" /\ net' = Severed
    BY <1>17, <1>login DEF AfterQuit, Return, ReleaseControl, Welcome
  <2>2. QED
    BY <2>1, <1>cut DEF LoginInv, Told
<1>18. CASE SecondCommand
  BY <1>18, <1>same DEF SecondCommand, Send, LoginInv, Told
<1>19. CASE AfterCommand
  <2>1. /\ pc' = "idle" /\ pc = "got" /\ UNCHANGED <<ctl, net>> /\ ret'.op = call.op
        /\ ret'.val => call.ok /\ call.cmd \in Commands \cup {"PASS", "RNTO", "SIZE"}
    <3>1. PICK parsed \in BOOLEAN : Return(call.ok /\ parsed)
      BY <1>19 DEF AfterCommand
    <3>2. pc' = "idle" /\ pc = "got" /\ UNCHANGED <<ctl, net>> /\ ret'.op = call.op
      BY <1>19, <3>1 DEF AfterCommand, Return
    <3>3. ret'.val = (call.ok /\ parsed)
      BY <3>1 DEF Return
    <3>4. call.ok => call.cmd \in Commands \cup {"PASS", "RNTO", "SIZE"}
      BY <1>19 DEF AfterCommand
    <3>5. QED
      BY <3>2, <3>3, <3>4
  <2>2. call.op = "FtpLogin" => call.cmd \notin Commands \cup {"RNTO", "SIZE"}
    BY <1>login, CommandsAssumption DEF Welcome, Plain
  <2>3. call.op = "FtpLogin" /\ ret'.val => call.cmd = "PASS" /\ call.ok
    BY <2>1, <2>2
  <2>4. ret' = [op |-> "FtpLogin", val |-> TRUE] => net.user \/ ~net.up
    BY <1>sync, <2>1, <2>3 DEF LoginInv, Welcome, Told
  <2>5. QED
    BY <2>1, <2>4, <1>same DEF LoginInv, Told
<1>20. CASE AfterType
  BY <1>20, <1>same DEF AfterType, AccessFails, Return, Send, LoginInv, Told
<1>21. CASE AfterPasv
  BY <1>21, <1>same DEF AfterPasv, AccessFails, Return, LoginInv, Told
<1>22. CASE AfterPort
  BY <1>22, <1>same DEF AfterPort, AccessFails, Return, MakeData, Send, LoginInv, Told
<1>23. CASE AfterTransfer
  BY <1>23, <1>same DEF AfterTransfer, Opened, Return, LoginInv, Told
<1>24. CASE AfterAccept
  BY <1>24, <1>same DEF AfterAccept, LoginInv, Told
<1>25. CASE AfterClose
  <2>1. pc' = "idle" /\ ret'.op # "FtpLogin" /\ net' \in {net, Severed}
    BY <1>25, <1>login DEF AfterClose, Return, ReleaseControl, Welcome
  <2>2. QED
    BY <2>1, <1>same, <1>cut DEF LoginInv, Told
<1>26. CASE OpenFails
  BY <1>26, <1>same DEF OpenFails, AccessFails, Return, LoginInv, Told
<1>27. CASE OpenPort
  BY <1>27, <1>same DEF OpenPort, MakeData, Send, LoginInv, Told
<1>28. CASE Accept
  BY <1>28, <1>same DEF Accept, Opened, Return, LoginInv, Told
<1>29. CASE AcceptFails
  BY <1>29, <1>same DEF AcceptFails, LoginInv, Told
<1>30. CASE AcceptRefused
  BY <1>30, <1>same DEF AcceptRefused, LoginInv, Told
<1>31. CASE FtpRead
  BY <1>31, <1>same DEF FtpRead, AfterRead, LoopEnds, Return, LoginInv, Told
<1>32. CASE FtpWrite
  BY <1>32, <1>same DEF FtpWrite, AfterWrite, LoopEnds, Return, LoginInv, Told
<1>33. CASE SourceEnds
  BY <1>33, <1>same DEF SourceEnds, LoopEnds, LoginInv, Told
<1>34. CASE CloseData
  <2>1. pc' \in {"read", "got"} /\ call'.cmd = "close" /\ net' \in {net, Severed}
    BY <1>34, <1>shape DEF CloseData, CloseDataAnd, NetAfter, CallRec
  <2>2. QED
    BY <2>1, <1>same, <1>cut DEF LoginInv, Welcome, Told
<1>35. CASE Answer
  <2>1. PICK code \in Codes(call.cmd), more \in BOOLEAN, long \in BOOLEAN :
          /\ net'.lines = IF more
                  THEN <<Line(call.cmd, code, TRUE, FALSE), Line(call.cmd, code, FALSE, long)>>
                                  ELSE <<Line(call.cmd, code, FALSE, long)>>
          /\ net'.user = (net.user \/ (call.cmd \in {"USER", "PASS"} /\ code = "2"))
    BY <1>35, <1>sync, Answering
  <2>2. pc = "read" /\ UNCHANGED <<pc, call, ret, ctl>>
    BY <1>35, <1>sync, Answering DEF Asked
  <2>3. Told'
    <3>1. ASSUME NEW i \in DOMAIN net'.lines
          PROVE  net'.lines[i].of = call.cmd /\ net'.lines[i].code = code
      BY <2>1 DEF Line
    <3>2. QED
      BY <2>1, <3>1 DEF Welcome, Told
  <2>4. QED
    BY <2>2, <2>3 DEF LoginInv, Told
<1>36. CASE ConnectBack
  <2>1. UNCHANGED <<pc, call, ret, ctl>>
    BY <1>36 DEF ConnectBack
  <2>2. CASE net' = net
    BY <1>sync, <1>same, <2>1, <2>2 DEF LoginInv, Told
  <2>3. CASE FinalReply("4")
    BY <1>sync, <1>final, <2>1, <2>3 DEF LoginInv, Told
  <2>4. QED
    BY <1>36, <2>2, <2>3 DEF ConnectBack
<1>37. CASE Serve
  <2>1. UNCHANGED <<pc, call, ret, ctl>>
    BY <1>37 DEF Serve
  <2>2. CASE net' = net
    BY <1>sync, <1>same, <2>1, <2>2 DEF LoginInv, Told
  <2>3. CASE FinalReply("4") \/ FinalReply("2")
    BY <1>sync, <1>final, <2>1, <2>3 DEF LoginInv, Told
  <2>4. QED
    BY <1>37, <2>2, <2>3 DEF Serve
<1>38. CASE Drop
  <2>1. net'.up = FALSE /\ net'.user = net.user /\ UNCHANGED <<pc, call, ret, ctl>>
    BY <1>38, Dropping
  <2>2. ASSUME NEW i \in DOMAIN net'.lines
        PROVE  \/ i \in DOMAIN net.lines /\ net'.lines[i] = net.lines[i]
               \/ net'.lines[i] = Line("bye", "4", FALSE, FALSE)
    BY <1>38, Dropping
  <2>3. Told'
    BY <1>sync, <2>1, <2>2 DEF LoginInv, Line, Told
  <2>4. QED
    BY <1>sync, <2>1, <2>3 DEF LoginInv, Told
<1>39. CASE UNCHANGED vars
  BY <1>39, <1>sync DEF vars, LoginInv
<1>40. QED
  BY <1>1, <1>2, <1>3, <1>4, <1>5, <1>6, <1>7, <1>8, <1>9, <1>10, <1>11, <1>12, <1>13, <1>14,
     <1>15, <1>16, <1>17, <1>18, <1>19, <1>20, <1>21, <1>22, <1>23, <1>24, <1>25, <1>26, <1>27,
     <1>28, <1>29, <1>30, <1>31, <1>32, <1>33, <1>34, <1>35, <1>36, <1>37, <1>38, <1>39
    DEF Next, UserCalls, Stages, Returns, DataSteps, Server

\* The final reply that FtpClose reads is what the transfer ended with.
LEMMA CloseStep ==
    ASSUME Shapes, StagesInv, CallInv, DownInv, PortInv,
           InStep, Sync, InStep', [Next]_vars, ~FtpConnect
    PROVE  CloseInv'
<1>shape. ctl \in CtlRec /\ conn \in ConnRec /\ call \in CallRec /\ data \in DataRec /\
        net \in NetRec
  BY DEF Shapes
<1>sync. LinesInv /\ OwedInv /\ RespInv /\ AloneInv /\ LoginInv /\ CloseInv
  BY DEF Sync
<1>1. CASE FtpOptions
  <2>1. CASE Rejects("FtpOptions")
    BY <2>1 DEF Rejects, CloseInv
  <2>2. CASE ~Rejects("FtpOptions")
    <3>1. /\ \E o \in Options : ctl' = [ctl EXCEPT !.cmode = o[1], !.cb = o[2]]
          /\ ret' = [op |-> "FtpOptions", val |-> TRUE]
          /\ UNCHANGED <<pc, call, data, own, net, conn, slips>>
      BY <1>1, <2>2 DEF FtpOptions
    <3>2. pc' = pc /\ call' = call /\ conn' = conn
      BY <3>1
    <3>3. ret' # [op |-> "FtpClose", val |-> TRUE]
      BY <3>1
    <3>4. QED
      BY <3>2, <3>3, <1>sync DEF CloseInv, Confirmed
  <2>3. QED
    BY <2>1, <2>2
<1>2. CASE FtpLogin
  BY <1>2 DEF FtpLogin, Rejects, Begin, CloseInv
<1>3. CASE FtpQuit
  BY <1>3 DEF FtpQuit, Begin, CloseInv
<1>4. CASE SimpleCall
  <2>1. PICK c \in DOMAIN Calls, len \in Lengths \cup {0} :
           \/ UNCHANGED <<pc, call, ctl, data, net, conn, slips>> /\
                   ret' = [op |-> Calls[c], val |-> FALSE]
           \/ /\ Begin("send", [NoCall EXCEPT !.op = Calls[c], !.cmd = c, !.len = len])
              /\ UNCHANGED <<ctl, data, net>>
    BY <1>4 DEF SimpleCall, Rejects
  <2>2. CASE UNCHANGED <<pc, call, ctl, data, net, conn, slips>> /\
                 ret' = [op |-> Calls[c], val |-> FALSE]
    BY <2>2, <1>sync, <2>1 DEF CloseInv, Confirmed
  <2>3. CASE Begin("send", [NoCall EXCEPT !.op = Calls[c], !.cmd = c, !.len = len]) /\
                 UNCHANGED <<ctl, data, net>>
    BY <2>3 DEF Begin, CloseInv
  <2>4. QED
    BY <2>1, <2>2, <2>3
<1>5. CASE NoPathOrFile
  BY <1>5 DEF NoPathOrFile, CloseInv
<1>6. CASE FtpAccess
  BY <1>6 DEF FtpAccess, Access, Begin, CloseInv
<1>7. CASE FtpXfer
  BY <1>7 DEF FtpXfer, Access, Begin, CloseInv
<1>8. CASE FtpReadWrite
  BY <1>8 DEF FtpReadWrite, Begin, CloseInv
<1>9. CASE FtpClose
  BY <1>9 DEF FtpClose, Begin, CloseInv
<1>10. CASE FtpCloseControl
  BY <1>10 DEF FtpCloseControl, Begin, CloseInv
<1>11. CASE CloseDangling
  BY <1>11 DEF CloseDangling, CloseInv
<1>12. CASE FtpSendCmd
  BY <1>12, <1>shape DEF FtpSendCmd, Got, CloseInv, CallRec
<1>13. CASE ReadResp
  <2> DEFINE l == Head(net.lines)
  <2>1. /\ pc = "read" /\ ctl'.resp = l.code /\ UNCHANGED <<data, conn>>
        /\ IF l.more THEN UNCHANGED <<pc, call, ret>>
                     ELSE /\ pc' = "got" /\ UNCHANGED ret
                          /\ call' = [call EXCEPT !.ok = (l.code = Expected(call.cmd))]
        /\ net' = [net EXCEPT !.lines = Tail(net.lines)]
        /\ (Asked => Reply(l) \/ (l.of = "bye" /\ Ended(l) /\ ~net.up)) /\ (~Asked => Ended(l))
        /\ l = net.lines[1] /\ 1 \in DOMAIN net.lines
    BY <1>13, <1>sync, Reading
  <2>2. /\ call'.cmd = call.cmd /\ call'.op = call.op /\ call'.typ = call.typ
        /\ ~l.more => call'.ok = (l.code = Expected(call.cmd))
        /\ net'.up = net.up /\ net'.user = net.user /\ net'.lines = Tail(net.lines)
    <3> HIDE DEF l
    <3> QED BY <2>1, <1>shape DEF CallRec, NetRec
  <2> HIDE DEF l
  <2>3. ASSUME ~l.more, call.cmd = "close", l.code = Expected("close") PROVE Confirmed
    <3>1. Expected("close") = "2"
      BY DEF Expected, Transfers
    <3>2. Ended(l)
      BY <2>1, <2>3 DEF Asked
    <3>3. QED
      BY <2>3, <3>1, <3>2 DEF Ended, Confirmed
  <2>4. Confirmed' = Confirmed
    BY <2>1 DEF Confirmed
  <2>5. QED
    BY <1>sync, <2>1, <2>2, <2>3, <2>4 DEF CloseInv
<1>14. CASE ReadFails
  BY <1>14 DEF ReadFails, Got, CloseInv
<1>15. CASE AfterConnect
  BY <1>15 DEF AfterConnect, Return, CloseInv, CallInv
<1>16. CASE AfterUser
  BY <1>16 DEF AfterUser, Send, Return, CloseInv, CallInv
<1>17. CASE AfterQuit
  BY <1>17 DEF AfterQuit, Return, CloseInv, CallInv
<1>18. CASE SecondCommand
  BY <1>18 DEF SecondCommand, Send, CloseInv
<1>19. CASE AfterCommand
  <2>1. pc' = "idle" /\ pc = "got" /\ UNCHANGED conn /\ ret'.op = call.op
        /\ call.cmd \in Commands \cup {"PASS", "RNTO", "SIZE", "RNFR", "TYPE"}
    BY <1>19 DEF AfterCommand, Return
  <2>2. call.op # "FtpClose"
    BY <2>1, CommandsAssumption DEF CallInv, Plain
  <2>3. QED
    BY <2>1, <2>2 DEF CloseInv
<1>20. CASE AfterType
  BY <1>20 DEF AfterType, AccessFails, Return, Send, CloseInv
<1>21. CASE AfterPasv
  BY <1>21 DEF AfterPasv, AccessFails, Return, CloseInv
<1>22. CASE AfterPort
  BY <1>22 DEF AfterPort, AccessFails, Return, MakeData, Send, CloseInv
<1>23. CASE AfterTransfer
  BY <1>23 DEF AfterTransfer, Opened, Return, CloseInv
<1>24. CASE AfterAccept
  BY <1>24 DEF AfterAccept, CloseInv
<1>25. CASE AfterClose
  BY <1>25, <1>sync DEF AfterClose, Return, CloseInv, Confirmed
<1>26. CASE OpenFails
  BY <1>26 DEF OpenFails, AccessFails, Return, CloseInv
<1>27. CASE OpenPort
  BY <1>27 DEF OpenPort, MakeData, Send, CloseInv
<1>28. CASE Accept
  BY <1>28 DEF Accept, Opened, Return, CloseInv
<1>29. CASE AcceptFails
  BY <1>29 DEF AcceptFails, CloseInv
<1>30. CASE AcceptRefused
  BY <1>30 DEF AcceptRefused, CloseInv
<1>31. CASE FtpRead
  BY <1>31 DEF FtpRead, AfterRead, LoopEnds, Return, CloseInv
<1>32. CASE FtpWrite
  BY <1>32 DEF FtpWrite, AfterWrite, LoopEnds, Return, CloseInv
<1>33. CASE SourceEnds
  BY <1>33 DEF SourceEnds, LoopEnds, CloseInv
<1>34. CASE CloseData
  <2>1. /\ pc = "close" /\ pc' = IF ctl.resp \notin Errors THEN "read" ELSE "got"
        /\ call'.op = call.op
    BY <1>34, <1>shape DEF CloseData, CloseDataAnd, CallRec
  <2>2. QED
    BY <1>sync, <2>1 DEF CloseInv, RespInv
<1>35. CASE Answer
  <2>1. pc = "read" /\ UNCHANGED <<pc, call, ret>>
    BY <1>35, <1>sync, Answering DEF Asked
  <2>2. QED
    BY <2>1 DEF CloseInv
<1>36. CASE ConnectBack
  BY <1>36, <1>sync DEF ConnectBack, CloseInv, Confirmed
<1>37. CASE Serve
  BY <1>37, <1>sync DEF Serve, CloseInv, Confirmed
<1>38. CASE Drop
  BY <1>38, <1>sync DEF Drop, CloseInv, Confirmed
<1>39. CASE UNCHANGED vars
  BY <1>39, <1>sync DEF vars, CloseInv, Confirmed
<1>40. QED
  BY <1>1, <1>2, <1>3, <1>4, <1>5, <1>6, <1>7, <1>8, <1>9, <1>10, <1>11, <1>12, <1>13, <1>14,
     <1>15, <1>16, <1>17, <1>18, <1>19, <1>20, <1>21, <1>22, <1>23, <1>24, <1>25, <1>26, <1>27,
     <1>28, <1>29, <1>30, <1>31, <1>32, <1>33, <1>34, <1>35, <1>36, <1>37, <1>38, <1>39
    DEF Next, UserCalls, Stages, Returns, DataSteps, Server

\* While a transfer goes on no final reply was said.
LEMMA CallFinal == ASSUME CallInv, LinesInv, conn.moving PROVE ~FinalLine
<1>1. SUFFICES ASSUME NEW i \in DOMAIN net.lines, net.lines[i].of = "final" PROVE FALSE
  BY DEF FinalLine
<1>2. Ended(net.lines[i])
  BY <1>1 DEF LinesInv, AskedLines, RestLines, Reply, CallInv
<1>3. QED
  BY <1>1, <1>2 DEF Ended

\* The lines and debts when a command is answered, ...
LEMMA AnswerLines ==
    ASSUME Shapes, CallInv, OwedInv, Answer
    PROVE  LinesInv' /\ OwedInv'
<1>1. net.up /\ Asked /\ Unanswered /\ UNCHANGED <<pc, call, data, ctl>>
  BY Answering
<1>2. PICK code \in Codes(call.cmd), more \in BOOLEAN, long \in BOOLEAN :
        /\ net'.up = net.up /\ net'.cmds = <<>>
        /\ net'.lines = IF more
                THEN <<Line(call.cmd, code, TRUE, FALSE), Line(call.cmd, code, FALSE, long)>>
                                ELSE <<Line(call.cmd, code, FALSE, long)>>
        /\ conn'.final = conn.final
        /\ IF call.cmd \in Transfers /\ code = "1" THEN conn'.moving ELSE conn' = conn
  BY Answering
<1>3. PICK n \in {1, 2} :
        /\ DOMAIN net'.lines = 1 .. n /\ net'.lines[n] = Line(call.cmd, code, FALSE, long)
        /\ \A i \in DOMAIN net'.lines :
              i # n => net'.lines[i] = Line(call.cmd, code, TRUE, FALSE)
  <2>1. CASE more
    <3>1. net'.lines = <<Line(call.cmd, code, TRUE, FALSE), Line(call.cmd, code, FALSE, long)>>
      BY <1>2, <2>1
    <3>2. DOMAIN net'.lines = 1 .. 2 /\ net'.lines[2] = Line(call.cmd, code, FALSE, long)
          /\ net'.lines[1] = Line(call.cmd, code, TRUE, FALSE)
      BY <3>1
    <3>3. \A i \in 1 .. 2 : i # 2 => i = 1
      OBVIOUS
    <3>4. QED
      BY <3>2, <3>3
  <2>2. CASE ~more
    <3>1. net'.lines = <<Line(call.cmd, code, FALSE, long)>>
      BY <1>2, <2>2
    <3>2. DOMAIN net'.lines = 1 .. 1 /\ net'.lines[1] = Line(call.cmd, code, FALSE, long)
      BY <3>1
    <3>3. \A i \in 1 .. 1 : i = 1
      OBVIOUS
    <3>4. QED
      BY <3>2, <3>3
  <2>3. QED
    BY <2>1, <2>2
<1>4. ASSUME NEW i \in DOMAIN net'.lines
      PROVE  /\ net'.lines[i].of = call.cmd /\ net'.lines[i].code = code
             /\ net'.lines[i].more <=> i # n
  BY <1>3 DEF Line
<1>5. Asked' /\ call'.cmd = call.cmd /\ call.cmd \notin {"final", "bye"}
  BY <1>1 DEF Asked, CallInv
<1>6. ASSUME NEW i \in DOMAIN net'.lines PROVE Reply(net.lines[i])'
  BY <1>1, <1>4 DEF Reply
<1>7. ASSUME NEW i \in DOMAIN net'.lines, NEW j \in DOMAIN net'.lines, i < j
      PROVE  Follows(net.lines[i], net.lines[j])'
  <2>1. i # n
    BY <1>3, <1>7
  <2>2. QED
    BY <1>4, <1>6, <2>1 DEF Follows
<1>8. LinesInv'
  BY <1>4, <1>5, <1>6, <1>7 DEF LinesInv, AskedLines
<1>9. ~FinalLine'
  BY <1>4, <1>5 DEF FinalLine
<1>10. conn'.moving <=> code = "1"
  <2>1. call.cmd \notin Transfers => code # "1"
    BY DEF Codes
  <2>3. QED
    BY <1>1, <1>2, <2>1 DEF Unanswered
<1>11. Answered'
  <2>1. n \in DOMAIN net'.lines
    BY <1>3
  <2>2. ~net'.lines[n].more /\ net'.lines[n].code = code
    BY <1>4, <2>1
  <2>3. QED
    BY <1>2, <1>6, <1>9, <1>10, <2>1, <2>2 DEF Answered, FinalOwed
<1>12. QED
  BY <1>1, <1>2, <1>5, <1>8, <1>11 DEF OwedInv

\* ... when a transfer ends, ...
LEMMA FinalLines ==
    ASSUME Shapes, CallInv, LinesInv, OwedInv, conn.moving, UNCHANGED <<pc, call, ctl, data>>,
           NEW code \in {"2", "4"}, FinalReply(code)
    PROVE  LinesInv' /\ OwedInv'
<1> DEFINE n == Len(net.lines)
           l == Line("final", code, FALSE, FALSE)
<1>1. /\ net'.up = net.up /\ net'.cmds = net.cmds
      /\ ~net.up => net'.lines = net.lines
      /\ net.up => /\ DOMAIN net'.lines = 1 .. n + 1
                   /\ n \in Nat /\ DOMAIN net.lines = 1 .. n
                   /\ \A i \in DOMAIN net.lines : net'.lines[i] = net.lines[i]
                   /\ net'.lines[n + 1] = l
      /\ conn'.moving = FALSE /\ conn'.final = code
  BY Finishing
<1>2. Asked' = Asked /\ Transferring' = Transferring
  BY DEF Asked, Transferring
<1>3. \A i \in DOMAIN net.lines : Ended(net.lines[i]) => ~net.up /\ net.lines[i].of = "bye"
  BY DEF Ended
<1>4. ~FinalLine
  BY CallFinal, <1>3
<1>5. CASE ~net.up
  <2>1. ~FinalLine'
    BY <1>1, <1>4, <1>5 DEF FinalLine
  <2>2. OwedInv'
    BY <1>1, <1>2, <1>5, <2>1 DEF OwedInv
  <2>3. \A i \in DOMAIN net.lines : Ended(net.lines[i]) => Ended(net.lines[i])'
    BY <1>1, <1>3, <1>5 DEF Ended
  <2>4. LinesInv'
    BY <1>1, <1>2, <1>5, <2>3 DEF LinesInv, AskedLines, RestLines, Reply, Follows
  <2>5. QED
    BY <2>2, <2>4
<1>6. CASE net.up /\ ~Asked
  <2>1. Transferring /\ net.cmds = <<>>
    BY <1>6 DEF OwedInv, FinalOwed
  <2>2. DOMAIN net.lines = {}
    BY <1>3, <1>6 DEF LinesInv, RestLines
  <2>3. n = 0 /\ DOMAIN net'.lines = {1} /\ net'.lines[1] = l
    <3>1. n \in Nat /\ 1 .. n = {} /\ DOMAIN net'.lines = 1 .. n + 1 /\ net'.lines[n + 1] = l
      BY <1>1, <1>6, <2>2
    <3> HIDE DEF n, l
    <3>2. n = 0
      <4>1. n # 0 => 1 \in 1 .. n
        BY <3>1
      <4>2. QED
        BY <3>1, <4>1
    <3>3. 1 .. 0 + 1 = {1} /\ 0 + 1 = 1
      OBVIOUS
    <3>4. QED
      BY <3>1, <3>2, <3>3
  <2>4. Ended(l)'
    BY <1>1 DEF Ended, Line
  <2>5. l.of = "final"
    BY DEF Line
  <2>6. LinesInv'
    <3>1. \A i \in DOMAIN net'.lines : i = 1 /\ Ended(net.lines[i])'
      BY <2>3, <2>4
    <3>2. \A i, j \in DOMAIN net'.lines : ~(i < j)
      BY <3>1
    <3>3. QED
      BY <1>2, <1>6, <3>1, <3>2 DEF LinesInv, RestLines
  <2>7. FinalLine'
    BY <2>3, <2>5 DEF FinalLine
  <2>8. QED
    BY <1>1, <1>2, <1>6, <2>1, <2>6, <2>7 DEF OwedInv, FinalOwed
<1>7. CASE net.up /\ Asked
  <2>1. Answered
    BY <1>7 DEF OwedInv, Unanswered
  <2>2. PICK k \in DOMAIN net.lines :
          Reply(net.lines[k]) /\ ~net.lines[k].more /\ net.lines[k].code = "1"
    BY <2>1 DEF Answered, FinalOwed
  <2>3. ASSUME NEW i \in DOMAIN net.lines PROVE Reply(net.lines[i]) /\ net.lines[i].of # "bye"
    BY <1>3, <1>7 DEF LinesInv, AskedLines, Reply, CallInv
  <2>4. ASSUME NEW i \in DOMAIN net.lines PROVE net.lines[i].more \/ net.lines[i].code = "1"
    <3>1. i \in Int /\ k \in Int
      BY <1>1, <1>7, <2>2
    <3>2. CASE i = k
      BY <2>2, <3>2
    <3>3. CASE i < k
      <4>1. Follows(net.lines[i], net.lines[k])
        BY <1>7, <2>2, <3>3 DEF LinesInv, AskedLines
      <4>2. QED
        BY <2>2, <2>3, <4>1 DEF Follows, Reply, CallInv
    <3>4. CASE k < i
      <4>1. Follows(net.lines[k], net.lines[i])
        BY <1>7, <2>2, <3>4 DEF LinesInv, AskedLines
      <4>2. QED
        BY <2>2, <2>3, <4>1 DEF Follows, Reply, CallInv
    <3>5. QED
      BY <3>1, <3>2, <3>3, <3>4
  <2>5. DOMAIN net'.lines = DOMAIN net.lines \cup {n + 1} /\ n \in Nat /\ DOMAIN net.lines = 1 .. n
        /\ \A i \in DOMAIN net.lines : net'.lines[i] = net.lines[i] /\ i # n + 1 /\ i < n + 1
    BY <1>1, <1>7
  <2>6. net'.lines[n + 1] = l /\ l.of = "final" /\ ~l.more /\ Ended(l)'
    BY <1>1, <1>7 DEF Line, Ended
  <2> HIDE DEF n, l
  <2>7. ASSUME NEW i \in DOMAIN net.lines PROVE Reply(net.lines[i])'
    BY <2>3, <2>5, <2>7 DEF Reply
  <2>8. ASSUME NEW i \in DOMAIN net'.lines, NEW j \in DOMAIN net'.lines, i < j
        PROVE  Follows(net.lines[i], net.lines[j])'
    <3>1. i \in DOMAIN net.lines
      BY <2>5, <2>8
    <3>2. CASE j = n + 1
      BY <2>4, <2>5, <2>6, <2>7, <3>1, <3>2 DEF Follows
    <3>3. CASE j \in DOMAIN net.lines
      <4>1. Follows(net.lines[i], net.lines[j])
        BY <1>7, <2>8, <3>1, <3>3 DEF LinesInv, AskedLines
      <4>2. QED
        BY <2>5, <3>1, <3>3, <4>1 DEF Follows, Reply
    <3>4. QED
      BY <2>5, <2>8, <3>2, <3>3
  <2>9. k \in DOMAIN net'.lines /\ k < n + 1 /\ net'.lines[k] = net.lines[k]
    BY <2>2, <2>5
  <2>10. ASSUME NEW j \in DOMAIN net'.lines, net'.lines[j].of = "final" PROVE j = n + 1
    BY <2>3, <2>5, <2>10 DEF Reply, CallInv
  <2>11. LinesInv'
    BY <1>2, <1>7, <2>2, <2>5, <2>6, <2>7, <2>8, <2>9, <2>10 DEF LinesInv, AskedLines
  <2>12. FinalLine'
    BY <2>5, <2>6 DEF FinalLine
  <2>13. Answered'
    BY <1>1, <2>1, <2>2, <2>7, <2>9, <2>12 DEF Answered, FinalOwed
  <2>14. QED
    BY <1>1, <1>2, <1>7, <2>11, <2>13 DEF OwedInv
<1>8. QED
  BY <1>5, <1>6, <1>7

\* ... when the connection breaks, ...
LEMMA DropLines ==
    ASSUME Shapes, LinesInv, OwedInv, Drop
    PROVE  LinesInv' /\ OwedInv'
<1>1. /\ net.up /\ net'.up = FALSE /\ net'.cmds = <<>>
      /\ conn'.moving = FALSE /\ conn'.final = conn.final
      /\ UNCHANGED <<pc, call, ret, ctl, data>>
  BY Dropping
<1> DEFINE l == Line("bye", "4", FALSE, FALSE)
<1>2. PICK k \in Nat : \A i \in DOMAIN net'.lines :
         /\ i \in Nat
         /\ IF i <= k THEN /\ i \in DOMAIN net.lines /\ net'.lines[i] = net.lines[i]
                           /\ \A j \in DOMAIN net.lines : j <= i => j \in DOMAIN net'.lines
                      ELSE i = k + 1 /\ net'.lines[i] = l
  BY Dropping
<1>3. l.of = "bye" /\ Ended(l)'
  BY <1>1 DEF Line, Ended
<1> HIDE DEF l
<1>4. Asked' = Asked /\ Transferring' = Transferring
  BY <1>1 DEF Asked, Transferring
<1>5. ASSUME NEW i \in DOMAIN net'.lines, ~(i <= k)
      PROVE  net'.lines[i].of = "bye" /\ Ended(net.lines[i])'
  BY <1>2, <1>3, <1>5
<1>6. ASSUME NEW x, Ended(x) PROVE Ended(x)'
  BY <1>1, <1>6 DEF Ended
<1>7. \A x : Reply(x)' <=> Reply(x)
  BY <1>1 DEF Reply
<1>8. \A x, y : Follows(x, y)' <=> Follows(x, y)
  BY <1>7 DEF Follows
<1>9. ASSUME NEW i \in DOMAIN net'.lines, NEW j \in DOMAIN net'.lines, i < j
      PROVE  i <= k
  BY <1>2, <1>9
<1>10. CASE Asked
  <2>1. ASSUME NEW i \in DOMAIN net'.lines PROVE Ended(net.lines[i])' \/ Reply(net.lines[i])'
    BY <1>2, <1>5, <1>6, <1>7, <1>10 DEF LinesInv, AskedLines
  <2>2. ASSUME NEW i \in DOMAIN net'.lines, NEW j \in DOMAIN net'.lines, i < j
        PROVE  Follows(net.lines[i], net.lines[j])'
    <3>1. CASE j <= k
      BY <1>2, <1>8, <1>9, <1>10, <2>2, <3>1 DEF LinesInv, AskedLines
    <3>2. CASE ~(j <= k)
      BY <1>5, <3>2 DEF Follows
    <3>3. QED
      BY <3>1, <3>2
  <2>3. ASSUME NEW j \in DOMAIN net'.lines, net'.lines[j].of = "final"
        PROVE  \E i \in DOMAIN net'.lines : i < j /\ Reply(net.lines[i])' /\ ~net'.lines[i].more
    <3>1. j <= k
      BY <1>5, <2>3
    <3>2. j \in DOMAIN net.lines /\ net'.lines[j] = net.lines[j] /\ j \in Nat
      BY <1>2, <3>1
    <3>3. PICK i \in DOMAIN net.lines : i < j /\ Reply(net.lines[i]) /\ ~net.lines[i].more
      BY <1>10, <2>3, <3>2 DEF LinesInv, AskedLines
    <3>4. i \in Nat
      BY NetParts
    <3>5. i \in DOMAIN net'.lines /\ i <= k
      BY <1>2, <3>1, <3>2, <3>3, <3>4
    <3>6. QED
      BY <1>2, <1>7, <3>3, <3>5
  <2>4. LinesInv'
    BY <1>4, <1>10, <2>1, <2>2, <2>3 DEF LinesInv, AskedLines
  <2>5. QED
    BY <1>1, <1>4, <1>10, <2>4 DEF OwedInv
<1>11. CASE ~Asked
  <2>1. ASSUME NEW i \in DOMAIN net'.lines PROVE Ended(net.lines[i])'
    BY <1>2, <1>5, <1>6, <1>11 DEF LinesInv, RestLines
  <2>2. ASSUME NEW i \in DOMAIN net'.lines, NEW j \in DOMAIN net'.lines, i < j
        PROVE  net'.lines[j].of = "bye"
    <3>1. CASE j <= k
      BY <1>2, <1>9, <1>11, <2>2, <3>1 DEF LinesInv, RestLines
    <3>2. QED
      BY <1>5, <3>1
  <2>3. LinesInv'
    BY <1>4, <1>11, <2>1, <2>2 DEF LinesInv, RestLines
  <2>4. FinalLine' => FinalLine
    BY <1>2, <1>5 DEF FinalLine
  <2>5. QED
    BY <1>1, <1>4, <1>11, <2>3, <2>4 DEF OwedInv, FinalOwed
<1>12. QED
  BY <1>10, <1>11

\* ... and when a line is read: of the reply to a command, ...
LEMMA AskedRead ==
    ASSUME Shapes, CallInv, LinesInv, OwedInv, Asked, InStep', ReadResp
    PROVE  LinesInv' /\ OwedInv'
<1> DEFINE l == Head(net.lines)
           ls == Tail(net.lines)
<1>1. /\ pc = "read" /\ net.lines # <<>> /\ l = net.lines[1] /\ 1 \in DOMAIN net.lines
      /\ Reply(l) \/ (l.of = "bye" /\ Ended(l) /\ ~net.up)
      /\ net' = [net EXCEPT !.lines = Tail(net.lines)]
      /\ IF l.more THEN UNCHANGED <<pc, call, ret>>
                   ELSE /\ pc' = "got" /\ UNCHANGED ret
                        /\ call' = [call EXCEPT !.ok = (l.code = Expected(call.cmd))]
      /\ UNCHANGED <<data, conn>>
  BY Reading
<1>2. /\ \A i \in DOMAIN ls : /\ i \in Nat /\ i + 1 \in DOMAIN net.lines /\ ls[i] = net.lines[i + 1]
                              /\ 1 < i + 1
      /\ \A i \in DOMAIN net.lines : i # 1 => i - 1 \in DOMAIN ls /\ ls[i - 1] = net.lines[i]
      /\ \A i \in DOMAIN net.lines : i \in Nat
  <2>1. net.lines \in Seq(LineRec) /\ net.lines # <<>>
    BY <1>1, NetParts
  <2>2. /\ DOMAIN net.lines = 1 .. Len(net.lines) /\ Len(net.lines) \in Nat \ {0}
        /\ DOMAIN ls = 1 .. Len(net.lines) - 1
        /\ \A i \in DOMAIN ls : ls[i] = net.lines[i + 1]
    BY <2>1, Popping
  <2> HIDE DEF ls
  <2>3. \A i \in DOMAIN net.lines : i # 1 => i - 1 \in DOMAIN ls /\ (i - 1) + 1 = i
    BY <2>2
  <2>4. QED
    BY <2>2, <2>3
<1>3. net'.lines = ls /\ net'.cmds = net.cmds /\ net'.up = net.up /\ call'.cmd = call.cmd
      /\ (~l.more => call'.ok = (l.code = Expected(call.cmd)))
  <2>shape. net \in NetRec /\ call \in CallRec
    BY DEF Shapes
  <2> HIDE DEF l, ls
  <2>1. call'.cmd = call.cmd /\ (~l.more => call'.ok = (l.code = Expected(call.cmd)))
    BY <1>1, <2>shape DEF CallRec
  <2>2. net'.cmds = net.cmds /\ net'.up = net.up /\ net'.lines = Tail(net.lines)
    BY <1>1, <2>shape DEF NetRec
  <2>3. QED
    BY <2>1, <2>2 DEF ls
<1> HIDE DEF l, ls
<1>4. l.of # "final" /\ call.cmd \notin {"final", "bye"} /\ AskedLines
  BY <1>1 DEF Reply, CallInv, LinesInv
<1>5. (\A x : Ended(x)' <=> Ended(x)) /\ (\A x : Reply(x)' <=> Reply(x))
      /\ (\A x, y : Follows(x, y)' <=> Follows(x, y))
  BY <1>1, <1>3 DEF Ended, Reply, Follows
<1>6. FinalLine' <=> FinalLine
  <2>1. FinalLine' => FinalLine
    BY <1>2, <1>3 DEF FinalLine
  <2>2. FinalLine => FinalLine'
    <3>1. ASSUME NEW i \in DOMAIN net.lines, net.lines[i].of = "final" PROVE FinalLine'
      <4>1. i # 1
        BY <1>1, <1>4, <3>1
      <4>2. QED
        BY <1>2, <1>3, <3>1, <4>1 DEF FinalLine
    <3>2. QED
      BY <3>1 DEF FinalLine
  <2>3. QED
    BY <2>1, <2>2
<1>7. ASSUME NEW i \in DOMAIN ls PROVE (Ended(ls[i]) \/ Reply(ls[i])) /\ Follows(l, ls[i])
  BY <1>1, <1>2, <1>4 DEF AskedLines
<1>8. ASSUME NEW i \in DOMAIN ls, NEW j \in DOMAIN ls, i < j PROVE Follows(ls[i], ls[j])
  <2>1. i + 1 < j + 1
    BY <1>2, <1>8
  <2>2. QED
    BY <1>2, <1>4, <2>1 DEF AskedLines
<1>9. net.cmds = <<>> /\ (net.up => Answered)
  BY <1>1 DEF OwedInv, Unanswered, Answered
<1>10. CASE l.more
  <2>1. Asked' /\ Reply(l)
    BY <1>1, <1>3, <1>10 DEF Asked, Ended
  <2>2. ASSUME NEW j \in DOMAIN ls, ls[j].of = "final"
        PROVE  \E i \in DOMAIN ls : i < j /\ Reply(ls[i]) /\ ~ls[i].more
    <3>1. PICK i \in DOMAIN net.lines : i < j + 1 /\ Reply(net.lines[i]) /\ ~net.lines[i].more
      BY <1>2, <1>4, <2>2 DEF AskedLines
    <3>2. i # 1
      BY <1>1, <1>10, <3>1
    <3>3. i - 1 < j /\ i - 1 \in DOMAIN ls /\ ls[i - 1] = net.lines[i]
      BY <1>2, <3>1, <3>2
    <3>4. QED
      BY <3>1, <3>3
  <2>3. LinesInv'
    BY <1>3, <1>5, <1>7, <1>8, <2>1, <2>2 DEF LinesInv, AskedLines
  <2>4. net.up => Answered'
    <3>1. ASSUME NEW i \in DOMAIN net.lines, ~net.lines[i].more
          PROVE  i - 1 \in DOMAIN ls /\ ls[i - 1] = net.lines[i]
      BY <1>1, <1>2, <1>10, <3>1
    <3>2. FinalOwed' <=> FinalOwed
      BY <1>1, <1>6 DEF FinalOwed
    <3>3. QED
      BY <1>3, <1>5, <1>9, <3>1, <3>2 DEF Answered
  <2>5. QED
    BY <1>3, <1>9, <2>1, <2>3, <2>4 DEF OwedInv
<1>11. CASE ~l.more
  <2>1. ~Asked' /\ pc' = "got"
    BY <1>1, <1>11 DEF Asked
  <2>2. ASSUME NEW i \in DOMAIN ls
        PROVE  /\ ls[i].of \in {"bye", "final"} /\ Ended(ls[i])
               /\ ls[i].of = "final" => Reply(l) /\ l.code = "1"
    BY <1>4, <1>7, <1>11 DEF Follows, Reply
  <2>3. ASSUME NEW i \in DOMAIN ls, NEW j \in DOMAIN ls, i < j PROVE ls[j].of = "bye"
    BY <1>4, <1>8, <2>2, <2>3 DEF Follows, Reply
  <2>4. LinesInv'
    BY <1>3, <1>5, <2>1, <2>2, <2>3 DEF LinesInv, RestLines
  <2>5. Transferring' <=> call.cmd \in Transfers /\ l.code = Expected(call.cmd)
    BY <1>3, <1>11, <2>1 DEF Transferring
  <2>6. Reply(l) => (Transferring' <=> l.code = "1")
    <3>1. call.cmd \in Transfers => Expected(call.cmd) = "1"
      BY DEF Expected, Transfers
    <3>2. call.cmd \notin Transfers => "1" \notin Codes(call.cmd)
      BY DEF Codes
    <3>3. QED
      BY <2>5, <3>1, <3>2 DEF Reply
  <2>7. ~net.up => (FinalLine' => Transferring')
    BY <1>3, <2>2, <2>6 DEF FinalLine
  <2>8. net.up => (FinalOwed' <=> Transferring')
    <3>1. SUFFICES ASSUME net.up PROVE FinalOwed' <=> Transferring'
      OBVIOUS
    <3>2. PICK i \in DOMAIN net.lines :
            Reply(net.lines[i]) /\ ~net.lines[i].more /\ (FinalOwed <=> net.lines[i].code = "1")
      BY <1>9, <3>1 DEF Answered
    <3>3. i = 1
      BY <1>2, <1>4, <2>2, <3>2 DEF Reply
    <3>4. FinalOwed' <=> FinalOwed
      BY <1>1, <1>6 DEF FinalOwed
    <3>5. QED
      BY <1>1, <2>6, <3>2, <3>3, <3>4
  <2>9. QED
    BY <1>3, <1>9, <2>1, <2>4, <2>7, <2>8 DEF OwedInv
<1>12. QED
  BY <1>10, <1>11

\* ... or the final one of a transfer.
LEMMA FinalRead ==
    ASSUME Shapes, LinesInv, OwedInv, ~Asked, InStep', ReadResp
    PROVE  LinesInv' /\ OwedInv'
<1> DEFINE l == Head(net.lines)
           ls == Tail(net.lines)
<1>1. /\ pc = "read" /\ net.lines # <<>> /\ l = net.lines[1] /\ 1 \in DOMAIN net.lines
      /\ Ended(l) /\ net' = [net EXCEPT !.lines = Tail(net.lines)]
      /\ IF l.more THEN UNCHANGED <<pc, call, ret>>
                   ELSE /\ pc' = "got" /\ UNCHANGED ret
                        /\ call' = [call EXCEPT !.ok = (l.code = Expected(call.cmd))]
      /\ UNCHANGED <<data, conn>>
  BY Reading
<1>2. \A i \in DOMAIN ls : i + 1 \in DOMAIN net.lines /\ ls[i] = net.lines[i + 1] /\ 1 < i + 1
  <2>1. net.lines \in Seq(LineRec) /\ net.lines # <<>>
    BY <1>1, NetParts
  <2>2. /\ DOMAIN net.lines = 1 .. Len(net.lines) /\ Len(net.lines) \in Nat \ {0}
        /\ DOMAIN ls = 1 .. Len(net.lines) - 1
        /\ \A i \in DOMAIN ls : ls[i] = net.lines[i + 1]
    BY <2>1, Popping
  <2> HIDE DEF ls
  <2>3. QED
    BY <2>2
<1>3. ~l.more /\ pc' = "got"
  BY <1>1 DEF Ended
<1>4. net'.lines = ls /\ net'.cmds = net.cmds /\ net'.up = net.up /\ call'.cmd = call.cmd
  <2>shape. net \in NetRec /\ call \in CallRec
    BY DEF Shapes
  <2> HIDE DEF l
  <2>1. call'.cmd = call.cmd
    BY <1>1, <1>3, <2>shape DEF CallRec
  <2>2. QED
    BY <1>1, <2>shape, <2>1 DEF NetRec
<1> HIDE DEF l, ls
<1>5. ASSUME NEW i \in DOMAIN ls PROVE ls[i].of = "bye" /\ Ended(ls[i])
  BY <1>1, <1>2, <1>5 DEF LinesInv, RestLines
<1>6. \A x : Ended(x)' <=> Ended(x)
  BY <1>1, <1>4 DEF Ended
<1>7. ~Asked' /\ ~FinalLine' /\ ~Transferring'
  <2>1. call.cmd \in {"close", "accept"}
    BY <1>1 DEF Asked
  <2>2. QED
    BY <1>3, <1>4, <1>5, <2>1 DEF Asked, FinalLine, Transferring, Transfers
<1>8. LinesInv'
  BY <1>4, <1>5, <1>6, <1>7 DEF LinesInv, RestLines
<1>9. net.up => ~conn'.moving
  BY <1>1 DEF Ended
<1>10. QED
  BY <1>4, <1>7, <1>8, <1>9 DEF OwedInv, FinalOwed

\* All steps together: but for the connect, which starts anew.
LEMMA SyncStep ==
    ASSUME Shapes, StagesInv, CallInv, DownInv, PortInv,
           InStep, Sync, InStep', [Next]_vars, ~FtpConnect
    PROVE  LinesInv' /\ OwedInv'
<1>shape. ctl \in CtlRec /\ conn \in ConnRec /\ call \in CallRec /\ data \in DataRec /\
        net \in NetRec
  BY DEF Shapes
<1>sync. LinesInv /\ OwedInv /\ RespInv /\ AloneInv /\ LoginInv /\ CloseInv
  BY DEF Sync
<1>quiet. ASSUME FtpOptions \/ FtpLogin \/ FtpQuit \/ SimpleCall \/ NoPathOrFile \/
        FtpAccess \/ FtpXfer \/ FtpReadWrite \/ FtpClose \/ CloseDangling \/ AfterUser \/
        SecondCommand \/ AfterCommand \/ AfterType \/ AfterPasv \/ AfterPort \/
        AfterTransfer \/ AfterAccept \/ OpenFails \/ OpenPort \/ Accept \/ AcceptFails \/
        AcceptRefused \/ FtpRead \/ FtpWrite \/ SourceEnds
      PROVE LinesInv' /\ OwedInv'
  BY <1>quiet, <1>sync, QuietSteps, Quiet
<1>cut. ASSUME net' = Severed, ~Asked' PROVE LinesInv' /\ OwedInv'
  <2>1. net'.lines = <<>> /\ net'.cmds = <<>> /\ ~net'.up
    BY <1>shape, <1>cut DEF Severed, NetRec
  <2>2. ~FinalLine'
    BY <2>1 DEF FinalLine
  <2>3. QED
    BY <1>cut, <2>1, <2>2 DEF LinesInv, RestLines, OwedInv
<1>idle. pc' = "idle" => ~Asked'
  BY DEF Asked
<1>still. ASSUME UNCHANGED <<pc, call, ctl, data, net>>, conn'.moving = conn.moving,
        conn'.final = conn.final
      PROVE  LinesInv' /\ OwedInv'
  <2>1. Asked' = Asked /\ Transferring' = Transferring /\ FinalLine' = FinalLine /\
          FinalOwed' = FinalOwed
    BY <1>still DEF Asked, Transferring, FinalLine, FinalOwed
  <2>2. (\A x : Ended(x)' <=> Ended(x)) /\ (\A x : Reply(x)' <=> Reply(x))
        /\ (\A x, y : Follows(x, y)' <=> Follows(x, y))
    BY <1>still DEF Ended, Reply, Follows
  <2>3. LinesInv'
    BY <1>sync, <1>still, <2>1, <2>2 DEF LinesInv, AskedLines, RestLines
  <2>4. (Unanswered' <=> Unanswered) /\ (Answered' <=> Answered)
    BY <1>still, <2>1, <2>2 DEF Unanswered, Answered
  <2>5. QED
    BY <1>sync, <1>still, <2>1, <2>3, <2>4 DEF OwedInv
<1>1. CASE FtpOptions
  BY <1>1, <1>quiet
<1>2. CASE FtpLogin
  BY <1>2, <1>quiet
<1>3. CASE FtpQuit
  BY <1>3, <1>quiet
<1>4. CASE SimpleCall
  BY <1>4, <1>quiet
<1>5. CASE NoPathOrFile
  BY <1>5, <1>quiet
<1>6. CASE FtpAccess
  BY <1>6, <1>quiet
<1>7. CASE FtpXfer
  BY <1>7, <1>quiet
<1>8. CASE FtpReadWrite
  BY <1>8, <1>quiet
<1>9. CASE FtpClose
  BY <1>9, <1>quiet
<1>10. CASE FtpCloseControl
  <2>1. CASE pc' = "idle" /\ net' = Severed
    BY <2>1, <1>cut, <1>idle
  <2>2. CASE /\ Begin("close", [NoCall EXCEPT !.op = "FtpCloseControl"])
             /\ ctl.data /\ UNCHANGED <<ctl, net, data>>
    <3>1. data.st = "open" /\ pc = "idle" /\ pc' = "close"
      BY <2>2 DEF Begin, StagesInv
    <3>2. conn' = conn
      BY <2>2, <3>1 DEF Begin
    <3>3. ctl.resp \notin Errors
      BY <1>sync, <3>1 DEF RespInv
    <3>4. QuietMove
      BY <2>2, <3>1, <3>2, <3>3 DEF QuietMove, Asked, Transferring
    <3>5. QED
      BY <3>4, <1>sync, Quiet
  <2>3. QED
    BY <1>10, <2>1, <2>2 DEF FtpCloseControl, ReleaseControl
<1>11. CASE CloseDangling
  BY <1>11, <1>quiet
<1>12. CASE FtpSendCmd
  <2>1. pc = "send" /\ ~Asked /\ ~Transferring /\ UNCHANGED <<ctl, data, conn>>
    BY <1>12 DEF FtpSendCmd, Asked, Transferring
  <2>2. CASE Got(FALSE) /\ UNCHANGED net
    <3>1. pc' = "got" /\ call'.ok = FALSE
      BY <1>shape, <2>2 DEF Got, CallRec
    <3>2. QuietMove
      BY <2>1, <2>2, <3>1 DEF QuietMove, Asked, Transferring
    <3>3. QED
      BY <3>2, <1>sync, Quiet
  <2>3. CASE /\ net.up /\ pc' = "read" /\ UNCHANGED call
             /\ net' = [net EXCEPT !.cmds = Append(net.cmds, call.cmd)]
    <3>1. net.cmds = <<>> /\ ~conn.moving /\ ~FinalLine
      BY <1>sync, <2>1, <2>3 DEF OwedInv, FinalOwed
    <3>2. net.lines = <<>>
      <4>1. \A i \in DOMAIN net.lines : FALSE
        BY <1>sync, <2>1, <2>3, <3>1 DEF LinesInv, RestLines, Ended, FinalLine
      <4>2. net.lines # <<>> => 1 \in DOMAIN net.lines
        BY NetParts
      <4>3. QED
        BY <4>1, <4>2
    <3>3. net'.lines = <<>> /\ net'.up /\ net'.cmds = <<call.cmd>>
      BY <1>shape, <2>3, <3>1, <3>2 DEF NetRec
    <3>4. Asked'
      BY <2>1, <2>3 DEF Asked, CallInv
    <3>5. LinesInv'
      BY <3>3, <3>4 DEF LinesInv, AskedLines
    <3>6. OwedInv'
      BY <2>1, <2>3, <3>1, <3>3, <3>4 DEF OwedInv, Unanswered
    <3>7. QED
      BY <3>5, <3>6
  <2>4. QED
    BY <1>12, <2>2, <2>3 DEF FtpSendCmd
<1>13. CASE ReadResp
  <2>1. Asked => LinesInv' /\ OwedInv'
    BY <1>13, AskedRead, <1>sync
  <2>2. ~Asked => LinesInv' /\ OwedInv'
    BY <1>13, FinalRead, <1>sync
  <2>3. QED
    BY <2>1, <2>2
<1>14. CASE ReadFails
  <2>1. pc' = "got" /\ net' = net /\ net.lines = <<>> /\ ~net.up
    BY <1>14 DEF ReadFails, Got
  <2>2. ~Asked' /\ ~FinalLine'
    BY <2>1 DEF Asked, FinalLine
  <2>3. QED
    BY <1>sync, <2>1, <2>2 DEF LinesInv, RestLines, OwedInv
<1>15. CASE AfterConnect
  <2>1. pc' = "idle" /\ pc = "got" /\ call.cmd = "CONNECT" /\ UNCHANGED <<data, conn>>
    BY <1>15 DEF AfterConnect, Return
  <2>2. CASE net' = net
    <3>1. data.st = "none"
      BY <1>sync, <2>1 DEF AloneInv, Transfers
    <3>2. QuietMove
      BY <2>1, <2>2, <3>1 DEF QuietMove, Asked, Transferring, Transfers
    <3>3. QED
      BY <3>2, <1>sync, Quiet
  <2>3. CASE net' = Severed
    BY <2>1, <2>3, <1>cut, <1>idle
  <2>4. QED
    BY <1>15, <2>2, <2>3 DEF AfterConnect, ReleaseControl
<1>16. CASE AfterUser
  BY <1>16, <1>quiet
<1>17. CASE AfterQuit
  BY <1>17, <1>cut, <1>idle DEF AfterQuit, Return, ReleaseControl
<1>18. CASE SecondCommand
  BY <1>18, <1>quiet
<1>19. CASE AfterCommand
  BY <1>19, <1>quiet
<1>20. CASE AfterType
  BY <1>20, <1>quiet
<1>21. CASE AfterPasv
  BY <1>21, <1>quiet
<1>22. CASE AfterPort
  BY <1>22, <1>quiet
<1>23. CASE AfterTransfer
  BY <1>23, <1>quiet
<1>24. CASE AfterAccept
  BY <1>24, <1>quiet
<1>25. CASE AfterClose
  <2>1. pc' = "idle" /\ pc = "got" /\ call.cmd = "close" /\ UNCHANGED <<data, conn>>
    BY <1>25 DEF AfterClose, Return
  <2>2. CASE net' = net
    <3>1. data.st = "none"
      BY <1>sync, <2>1 DEF AloneInv, Transfers
    <3>2. QuietMove
      BY <2>1, <2>2, <3>1 DEF QuietMove, Asked, Transferring, Transfers
    <3>3. QED
      BY <3>2, <1>sync, Quiet
  <2>3. CASE net' = Severed
    BY <2>1, <2>3, <1>cut, <1>idle
  <2>4. QED
    BY <1>25, <2>2, <2>3 DEF AfterClose, ReleaseControl
<1>26. CASE OpenFails
  BY <1>26, <1>quiet
<1>27. CASE OpenPort
  BY <1>27, <1>quiet
<1>28. CASE Accept
  BY <1>28, <1>quiet
<1>29. CASE AcceptFails
  BY <1>29, <1>quiet
<1>30. CASE AcceptRefused
  BY <1>30, <1>quiet
<1>31. CASE FtpRead
  BY <1>31, <1>quiet
<1>32. CASE FtpWrite
  BY <1>32, <1>quiet
<1>33. CASE SourceEnds
  BY <1>33, <1>quiet
<1>34. CASE CloseData
  <2>1. /\ pc = "close" /\ pc' = IF ctl.resp \notin Errors THEN "read" ELSE "got"
        /\ call'.cmd = "close" /\ conn'.moving = conn.moving /\ conn'.final = conn.final
    BY <1>34, <1>shape DEF CloseData, CloseDataAnd, CallRec, ConnRec
  <2>2. ~Asked' /\ (Transferring' <=> Transferring)
    BY <2>1 DEF Asked, Transferring, Transfers
  <2>3. CASE net' = net
    <3>1. QuietMove
      BY <2>1, <2>2, <2>3 DEF QuietMove, Asked
    <3>2. QED
      BY <3>1, <1>sync, Quiet
  <2>4. CASE net' = Severed
    BY <2>2, <2>4, <1>cut, <1>idle
  <2>5. QED
    BY <1>34, <2>3, <2>4 DEF CloseData, CloseDataAnd, NetAfter
<1>35. CASE Answer
  BY <1>35, <1>sync, AnswerLines
<1>36. CASE ConnectBack
  <2>1. conn.moving /\ UNCHANGED <<pc, call, ret, ctl, data>>
    BY <1>36 DEF ConnectBack
  <2>2. CASE conn' = [conn EXCEPT !.st = "pending"] /\ UNCHANGED net
    BY <1>shape, <1>sync, <2>1, <2>2, <1>still DEF ConnRec
  <2>3. CASE FinalReply("4")
    BY <1>sync, <2>1, <2>3, FinalLines
  <2>4. QED
    BY <1>36, <2>2, <2>3 DEF ConnectBack
<1>37. CASE Serve
  <2>1. conn.moving /\ UNCHANGED <<pc, call, ret, ctl, data>>
    BY <1>37 DEF Serve
  <2>2. CASE conn' = [conn EXCEPT !.left = @ - 1, !.blocks = @ + 1] /\ UNCHANGED net
    BY <1>shape, <1>sync, <2>1, <2>2, <1>still DEF ConnRec
  <2>3. CASE FinalReply("4") \/ FinalReply("2")
    BY <1>sync, <2>1, <2>3, FinalLines
  <2>4. QED
    BY <1>37, <2>2, <2>3 DEF Serve
<1>38. CASE Drop
  BY <1>38, <1>sync, DropLines
<1>39. CASE UNCHANGED vars
  BY <1>39, <1>still DEF vars, Asked
<1>40. QED
  BY <1>1, <1>2, <1>3, <1>4, <1>5, <1>6, <1>7, <1>8, <1>9, <1>10, <1>11, <1>12, <1>13, <1>14,
     <1>15, <1>16, <1>17, <1>18, <1>19, <1>20, <1>21, <1>22, <1>23, <1>24, <1>25, <1>26, <1>27,
     <1>28, <1>29, <1>30, <1>31, <1>32, <1>33, <1>34, <1>35, <1>36, <1>37, <1>38, <1>39
    DEF Next, UserCalls, Stages, Returns, DataSteps, Server

\* FtpConnect starts in step, with the greeting that is owed (ftplib.c:439-567).
LEMMA ConnectSync == ASSUME Shapes, StagesInv, DownInv, FtpConnect PROVE Sync'
<1>1. data.st = "none" /\ data' = data /\ ~net.up /\ net.cmds = <<>> /\ net.lines = <<>>
  BY DEF FtpConnect, DownInv
<1>2. CASE pc = "idle" /\ ret' = [op |-> "FtpConnect", val |-> FALSE] /\
               UNCHANGED <<pc, call, ctl, net, conn>>
  <2>1. ~Asked' /\ ~FinalLine'
    BY <1>1, <1>2 DEF Asked, FinalLine
  <2>2. LinesInv' /\ OwedInv'
    BY <1>1, <1>2, <2>1 DEF LinesInv, RestLines, OwedInv
  <2>3. QED
    BY <1>1, <1>2, <2>2 DEF Sync, RespInv, AloneInv, LoginInv, CloseInv
<1>3. CASE /\ net' = [up |-> TRUE, cmds |-> <<"CONNECT">>, lines |-> <<>>, user |-> FALSE,
                  n |-> net.n + 1]
           /\ pc' = "read" /\ conn' = NoConn
           /\ call' = [NoCall EXCEPT !.op = "FtpConnect", !.cmd = "CONNECT"]
  <2>1. net'.up /\ net'.cmds = <<"CONNECT">> /\ net'.lines = <<>> /\ ~conn'.moving /\
          call'.cmd = "CONNECT"
    BY <1>3, Nothing DEF CallRec, NoConn
  <2>2. Asked'
    BY <1>3, <2>1 DEF Asked
  <2>3. LinesInv' /\ OwedInv'
    BY <2>1, <2>2 DEF LinesInv, AskedLines, OwedInv, Unanswered
  <2>4. QED
    BY <1>1, <1>3, <2>1, <2>3 DEF Sync, RespInv, AloneInv, LoginInv, CloseInv
<1>4. QED
  BY <1>2, <1>3 DEF FtpConnect

\* The invariant: all but Sync needs no client in step.
LEMMA InitReply == Init => ReplyInv
<1> SUFFICES ASSUME Init PROVE ReplyInv
  OBVIOUS
<1>1. /\ pc = "idle" /\ call.cmd = "none" /\ call.op = "none" /\ data.st = "none" /\ ret.op = "none"
      /\ ~net.up /\ net.cmds = <<>> /\ net.lines = <<>>
  BY DEF Init, NoCall, NoData, NoRet
<1>2. ~Asked /\ ~FinalLine
  BY <1>1 DEF Asked, FinalLine
<1>3. LinesInv /\ OwedInv
  BY <1>1, <1>2 DEF LinesInv, RestLines, OwedInv
<1>4. Sync
  BY <1>1, <1>3 DEF Sync, RespInv, AloneInv, LoginInv, CloseInv
<1>5. CallInv /\ DownInv /\ PortInv
  BY <1>1 DEF CallInv, DownInv, PortInv, InPort, Transfers
<1>6. QED
  BY <1>4, <1>5 DEF ReplyInv

\* Every step keeps what the theorems below need.
LEMMA ReplyStep == ASSUME Shapes, StagesInv, ReplyInv, [Next]_vars PROVE ReplyInv'
<1>1. CallInv' /\ DownInv' /\ PortInv'
  BY CallStep, DownStep, PortStep DEF ReplyInv
<1>2. CASE FtpConnect
  BY <1>1, <1>2, ConnectSync DEF ReplyInv
<1>3. ASSUME ~FtpConnect, InStep' PROVE Sync'
  <2>1. InStep /\ Sync /\ CallInv /\ DownInv /\ PortInv
    BY <1>3, SlipsGrow DEF ReplyInv
  <2>2. QED
    BY <1>3, <2>1, SyncStep, RespStep, AloneStep, LoginStep, CloseStep DEF Sync
<1>4. QED
  BY <1>1, <1>2, <1>3 DEF ReplyInv

\* The replies fit the calls from the beginning on.
LEMMA ReplyInductive == Spec => []ReplyInv
<1>1. IInv /\ ReplyInv /\ [Next]_vars => ReplyInv'
  BY ReplyStep DEF IInv
<1>2. QED
  BY <1>1, InitReply, Inductive, PTL DEF Spec

\* Replies stay in step with commands: a call reads the reply to its own command
\* (FtpSendCmd and readresp, ftplib.c:375-407, 635-652), FtpClose the final reply of its
\* transfer, and between calls nothing but that final reply is still to come.
THEOREM RepliesInStep == Spec => []RepliesMatch
<1>1. ASSUME IInv, ReplyInv, InStep PROVE RepliesMatch
  <2>1. Shapes /\ LinesInv /\ OwedInv
    BY <1>1 DEF IInv, ReplyInv, Sync
  <2>2. ASSUME pc = "read", net.lines # <<>>
        PROVE  Head(net.lines).of \in Replies(call.cmd) \cup {"bye"}
    <3>1. net.lines \in Seq(LineRec)
      BY <2>1, NetParts
    <3>2. 1 \in DOMAIN net.lines /\ Head(net.lines) = net.lines[1] /\
            \A i \in DOMAIN net.lines : ~(i < 1)
      BY <2>2, <3>1
    <3>3. CASE Asked
      <4>1. Ended(net.lines[1]) \/ Reply(net.lines[1])
        BY <2>1, <3>2, <3>3 DEF LinesInv, AskedLines
      <4>2. net.lines[1].of # "final"
        BY <2>1, <3>2, <3>3 DEF LinesInv, AskedLines
      <4>3. QED
        BY <3>2, <3>3, <4>1, <4>2 DEF Ended, Reply, Replies, Asked
    <3>4. CASE ~Asked
      BY <2>1, <2>2, <3>2, <3>4 DEF LinesInv, RestLines, Ended, Replies, Asked
    <3>5. QED
      BY <3>3, <3>4
  <2>3. ASSUME pc = "idle", net.up PROVE Pending = IF data.st = "open" THEN 1 ELSE 0
    <3>1. ~Asked /\ net.cmds = <<>> /\ (FinalOwed <=> data.st = "open") /\ RestLines
      BY <2>1, <2>3 DEF Asked, LinesInv, OwedInv, Transferring
    <3>2. \A i \in DOMAIN net.lines : net.lines[i].of = "final" /\ ~net.lines[i].more /\
            ~conn.moving
      BY <2>3, <3>1 DEF RestLines, Ended
    <3> DEFINE S == {i \in DOMAIN net.lines : ~net.lines[i].more}
    <3>3. S = {} \/ \E i \in DOMAIN net.lines : S = {i}
      <4>1. \A i, j \in DOMAIN net.lines : ~(i < j)
        BY <3>1, <3>2 DEF RestLines
      <4>2. \A i \in DOMAIN net.lines : i \in Nat
        BY <2>1, NetParts
      <4>3. \A i, j \in DOMAIN net.lines : i = j
        BY <4>1, <4>2
      <4>4. QED
        BY <4>3
    <3>4. Len(net.cmds) = 0
      BY <3>1
    <3>5. CASE S = {}
      <4>1. ~FinalLine
        BY <3>2, <3>5 DEF FinalLine
      <4>2. Cardinality(S) = 0
        BY <3>5, FS_EmptySet
      <4>3. QED
        BY <3>1, <3>4, <4>1, <4>2 DEF Pending, FinalOwed
    <3>6. ASSUME NEW i \in DOMAIN net.lines, S = {i} PROVE Pending = IF data.st = "open" THEN 1
            ELSE 0
      <4>1. FinalLine /\ ~conn.moving
        BY <3>2 DEF FinalLine
      <4>2. Cardinality(S) = 1
        BY <3>6, FS_Singleton
      <4>3. QED
        BY <3>1, <3>4, <4>1, <4>2 DEF Pending, FinalOwed
    <3>7. QED
      BY <3>3, <3>5, <3>6
  <2>4. QED
    BY <2>2, <2>3 DEF RepliesMatch
<1>2. IInv /\ ReplyInv => RepliesMatch
  BY <1>1 DEF RepliesMatch
<1>3. QED
  BY <1>2, Inductive, ReplyInductive, PTL

\* FtpLogin returns 1 only when the server let the user in or the connection is gone
\* (ftplib.c:659-676), whatever it answers to USER and to PASS.
THEOREM LoginTold == Spec => []LoginHonest
<1>1. ReplyInv => LoginHonest
  BY DEF ReplyInv, Sync, LoginInv, LoginHonest
<1>2. QED
  BY <1>1, ReplyInductive, PTL

\* FtpClose of a data connection returns 1 only when the server has confirmed the
\* transfer (ftplib.c:1043-1065): a reply read for it is never one of another command.
THEOREM CloseTold == Spec => []CloseHonest
<1>1. ReplyInv => CloseHonest
  BY DEF ReplyInv, Sync, CloseInv, Confirmed, CloseHonest
<1>2. QED
  BY <1>1, ReplyInductive, PTL

=============================================================================
