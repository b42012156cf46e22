-------------------------- MODULE FtpControlProofs --------------------------
(***************************************************************************)
(* Proofs about FtpControl, for any commands and lengths, any number of    *)
(* descriptors, blocks and connections and any server: type correctness,   *)
(* that the control connection knows its data connection (Linked), and     *)
(* that every netbuf holds a descriptor of its own (OwnDescriptors).       *)
(*                                                                         *)
(* The last two speak of the time between two calls.  What makes them      *)
(* inductive is StagesInv, which says at every stage of a call what is     *)
(* open by then, and Descriptors, which counts in what the call itself     *)
(* holds: its local file, and the listening socket of the port mode before *)
(* there is a netbuf for it.                                               *)
(***************************************************************************)
EXTENDS FtpControl, TLAPS

Fd == Fds \cup {NoFd}
Typ == Transfers \cup {"none"}
Mode == {"passive", "port"}
Owner == {"free", "stdin", "ctl", "data", "file", "lost"}
Code == {"1", "2", "3", "4", "5", "x"}
Resp == Code \cup {"", "text"}
Cmd == Plain \cup Transfers \cup
       {"none", "CONNECT", "USER", "PASS", "QUIT", "RNFR", "RNTO", "TYPE", "SIZE", "PASV", "PORT",
        "close", "accept", "final", "bye"}
Op == Plain \cup
      {"none", "FtpConnect", "FtpOptions", "FtpLogin", "FtpQuit", "FtpRename", "FtpSize",
       "FtpAccess", "FtpXfer", "FtpReadWrite", "FtpClose", "FtpCloseControl"}
CtlSt == {"none", "open", "freed"}
DataSt == {"none", "open"}
ConnSt == {"none", "listening", "pending", "open", "shut", "ended"}
Final == {"none", "2", "4"}
Slip == {"mixed", "long", "length", "leak"}

RetRec == [op : Op, val : BOOLEAN]
CallRec == [op : Op, cmd : Cmd, ok : BOOLEAN, rv : BOOLEAN, typ : Typ,
            len : Int, fd : Fd, file : Fd]
CtlRec == [st : CtlSt, fd : Fd, data : BOOLEAN, cmode : Mode, cb : BOOLEAN, resp : Resp]
DataRec == [st : DataSt, fd : Fd, typ : Typ, cb : BOOLEAN]
LineRec == [of : Cmd, code : Code, more : BOOLEAN, long : BOOLEAN]
NetRec == [up : BOOLEAN, cmds : Seq(Cmd), lines : Seq(LineRec), user : BOOLEAN, n : Int]
ConnRec == [st : ConnSt, typ : Typ, moving : BOOLEAN, blocks : Int, left : Int,
            final : Final, lost : BOOLEAN]
Pcs == {"idle", "send", "read", "got", "open", "accept", "xfer", "close", "undefined"}

\* TypeOK, and the shape of everything else.
Shapes ==
    /\ pc \in Pcs /\ call \in CallRec /\ ret \in RetRec
    /\ ctl \in CtlRec /\ data \in DataRec /\ own \in [Fds -> Owner]
    /\ net \in NetRec /\ conn \in ConnRec
    /\ slips \in SUBSET Slip

\* A call that has not made its data connection yet, and one that has.
Before ==
    \/ pc = "open" \/ call.cmd \in {"PASV", "PORT"}
    \/ call.cmd = "TYPE" /\ call.op # "FtpSize"
Behind == pc \in {"accept", "xfer", "close"} \/ call.cmd \in Transfers \cup {"accept"}

\* What is open at each stage.
StagesInv ==
    /\ pc \in {"idle", "undefined"} => call = NoCall
    /\ pc \notin {"idle", "undefined"} => ctl.st = "open"
    /\ ctl.st = "open" => (ctl.data <=> data.st = "open")
    /\ Before => data.st = "none" /\ call.typ \in Transfers
    /\ Behind => data.st = "open"
    /\ pc = "open" => call.cmd \in {"TYPE", "PASV"}
    /\ pc \in {"accept", "xfer"} => call.cmd \in Transfers \cup {"none"}
    /\ call.op = "FtpXfer" => Before \/ Behind \/ call.cmd = "close"
    /\ call.file # NoFd => call.op = "FtpXfer"

\* Of the descriptors o but 0, those in use are c, for the control connection,
\* d and p, for a data connection, and f, for a local file.
Holds(o, c, d, p, f) ==
    /\ c # NoFd => c \in Fds \ {0} /\ o[c] = "ctl"
    /\ d # NoFd => d \in Fds \ {0} /\ o[d] = "data"
    /\ p # NoFd => p \in Fds \ {0} /\ o[p] = "data"
    /\ f # NoFd => f \in Fds \ {0} /\ o[f] = "file"
    /\ \A g \in Fds \ {0} :
         \/ o[g] = "free"
         \/ o[g] = "ctl" /\ g = c
         \/ o[g] = "data" /\ g \in {d, p}
         \/ o[g] = "file" /\ g = f

CtlFd == IF ctl.st = "open" THEN ctl.fd ELSE NoFd
DataFd == IF data.st = "open" /\ data.fd # 0 THEN data.fd ELSE NoFd
PortFd == IF call.cmd = "PORT" THEN call.fd ELSE NoFd

\* What is open has a descriptor; that of a data connection is 0 only after a
\* failed accept, until it is closed.
Known ==
    /\ ctl.st = "open" => ctl.fd # NoFd
    /\ data.st = "open" => data.fd # NoFd
    /\ call.cmd = "PORT" => call.fd # NoFd
    /\ data.st = "open" /\ data.fd = 0 => pc = "close" \/ call.cmd = "accept"

\* Who holds which descriptor.
Accounts == Holds(own, CtlFd, DataFd, PortFd, call.file) /\ Known
Descriptors == own[0] = "stdin" /\ "leak" \notin slips => Accounts

IInv == Shapes /\ StagesInv /\ Descriptors

(***************************************************************************)
(* The provers are told which names and numbers belong to which of these   *)
(* sets, and need not open the sets themselves.                            *)
(***************************************************************************)
LEMMA CmdNames ==
    /\ "none" \in Cmd /\ "CONNECT" \in Cmd /\ "USER" \in Cmd /\ "PASS" \in Cmd
    /\ "QUIT" \in Cmd /\ "RNFR" \in Cmd /\ "RNTO" \in Cmd /\ "TYPE" \in Cmd
    /\ "SIZE" \in Cmd /\ "PASV" \in Cmd /\ "PORT" \in Cmd /\ "close" \in Cmd
    /\ "accept" \in Cmd /\ "final" \in Cmd /\ "bye" \in Cmd
    /\ \A c \in Commands : c \in Cmd
    /\ \A t \in Typ : t \in Cmd
BY CommandsAssumption DEF Cmd, Typ

LEMMA OpNames ==
    /\ "none" \in Op /\ "FtpConnect" \in Op /\ "FtpOptions" \in Op /\ "FtpLogin" \in Op
    /\ "FtpQuit" \in Op /\ "FtpRename" \in Op /\ "FtpSize" \in Op /\ "FtpAccess" \in Op
    /\ "FtpXfer" \in Op /\ "FtpReadWrite" \in Op /\ "FtpClose" \in Op
    /\ "FtpCloseControl" \in Op
    /\ \A c \in DOMAIN Calls : c \in Cmd /\ Calls[c] \in Op
BY CommandsAssumption DEF Op, Calls, Cmd

LEMMA OtherNames ==
    /\ \A t \in Types : t \in Typ /\ t \in Transfers
    /\ "none" \in Typ /\ \A t \in Transfers : t \in Typ
    /\ NoFd \in Fd /\ 0 \in Fd /\ \A f \in Fds : f \in Fd
    /\ "passive" \in Mode /\ "port" \in Mode
    /\ \A o \in Options : o[1] \in Mode /\ o[2] \in BOOLEAN
    /\ "" \in Resp /\ "text" \in Resp /\ \A c \in Code : c \in Resp
    /\ "2" \in Code /\ "3" \in Code /\ "4" \in Code /\ "5" \in Code /\ "1" \in Code /\ "x" \in Code
    /\ "none" \in CtlSt /\ "open" \in CtlSt /\ "freed" \in CtlSt
    /\ "none" \in DataSt /\ "open" \in DataSt
    /\ "none" \in ConnSt /\ "listening" \in ConnSt /\ "pending" \in ConnSt
    /\ "open" \in ConnSt /\ "shut" \in ConnSt /\ "ended" \in ConnSt
    /\ "none" \in Final /\ "2" \in Final /\ "4" \in Final
    /\ "free" \in Owner /\ "stdin" \in Owner /\ "ctl" \in Owner /\ "data" \in Owner
    /\ "file" \in Owner /\ "lost" \in Owner
    /\ \A l \in Lengths : l \in Int
BY CommandsAssumption, LengthsAssumption, OptionsAssumption, BoundsAssumption
   DEF Fds, Typ, Transfers, Fd, Mode, Code, Resp, CtlSt, DataSt, ConnSt, Final, Owner

\* A record that stands for nothing.
LEMMA Nothing ==
    /\ NoCall \in CallRec /\ NoRet \in RetRec /\ NoCtl \in CtlRec /\ NoData \in DataRec
    /\ NoConn \in ConnRec
    /\ NoCall.cmd = "none" /\ NoCall.op = "none" /\ NoCall.fd = NoFd /\ NoCall.file = NoFd
    /\ NoCtl.st = "none" /\ ~NoCtl.data /\ NoData.st = "none"
<1>0. /\ "none" \in Cmd /\ "none" \in Op /\ "none" \in Typ /\ "none" \in ConnSt
      /\ "none" \in Final /\ NoFd \in Fd
  BY CmdNames, OpNames, OtherNames
<1>1. NoCall \in CallRec /\ NoRet \in RetRec
  BY <1>0 DEF NoCall, CallRec, NoRet, RetRec
<1>2. NoCtl \in CtlRec /\ NoData \in DataRec
  BY OtherNames DEF NoCtl, CtlRec, NoData, DataRec
<1>3. NoConn \in ConnRec
  BY <1>0 DEF NoConn, ConnRec
<1>4. QED
  BY <1>1, <1>2, <1>3 DEF NoCall, NoCtl, NoData

\* Results, sequences of commands and lines, and a severed connection.
LEMMA RetOf ==
    \A o \in Op : [op |-> o, val |-> TRUE] \in RetRec /\ [op |-> o, val |-> FALSE] \in RetRec
BY DEF RetRec

LEMMA NetParts ==
    Shapes => /\ net.cmds \in Seq(Cmd) /\ net.lines \in Seq(LineRec) /\ net.user \in BOOLEAN
              /\ net.up \in BOOLEAN /\ net.n \in Int
BY DEF Shapes, NetRec

LEMMA NetWith ==
    ASSUME NEW n \in NetRec, NEW cs \in Seq(Cmd), NEW ls \in Seq(LineRec), NEW u \in BOOLEAN
    PROVE  /\ [n EXCEPT !.cmds = cs] \in NetRec /\ [n EXCEPT !.lines = ls] \in NetRec
           /\ [n EXCEPT !.cmds = cs, !.lines = ls, !.user = u] \in NetRec
           /\ [n EXCEPT !.up = FALSE, !.cmds = cs, !.lines = ls] \in NetRec
BY DEF NetRec

LEMMA SeveredRec == Shapes => Severed \in NetRec
<1>1. SUFFICES ASSUME net \in NetRec PROVE Severed \in NetRec
  BY DEF Shapes
<1>2. <<>> \in Seq(Cmd) /\ <<>> \in Seq(LineRec)
  OBVIOUS
<1>3. QED
  BY <1>1, <1>2 DEF Severed, NetRec

\* A process that starts has no call under way and nothing open.
LEMMA InitInv == Init => IInv
<1> SUFFICES ASSUME Init PROVE IInv
  OBVIOUS
<1>1. /\ pc = "idle" /\ call = NoCall /\ ret = NoRet /\ ctl = NoCtl /\ data = NoData
      /\ conn = NoConn /\ slips = {}
      /\ own = [f \in Fds |-> IF f = 0 THEN "stdin" ELSE "free"]
      /\ net = [up |-> FALSE, cmds |-> <<>>, lines |-> <<>>, user |-> FALSE, n |-> 0]
  BY DEF Init
<1>2. net \in NetRec
  BY <1>1 DEF NetRec
<1>3. own \in [Fds -> Owner] /\ \A f \in Fds \ {0} : own[f] = "free"
  BY <1>1, OtherNames
<1>4. Shapes
  BY <1>1, <1>2, <1>3, Nothing DEF Shapes, Pcs
<1>5. StagesInv
  BY <1>1, Nothing DEF StagesInv, Before, Behind, Transfers
<1>6. CtlFd = NoFd /\ DataFd = NoFd /\ PortFd = NoFd /\ call.file = NoFd
  BY <1>1, Nothing DEF CtlFd, DataFd, PortFd
<1>7. Descriptors
  BY <1>1, <1>3, <1>6, Nothing DEF Descriptors, Accounts, Holds, Known
<1>8. QED
  BY <1>4, <1>5, <1>7 DEF IInv

\* A final reply, and the end of the data connection on the server's side.
LEMMA FinalShapes ==
    ASSUME Shapes, NEW code \in {"2", "4"}, FinalReply(code)
    PROVE  net' \in NetRec /\ conn' \in ConnRec
<1> DEFINE l == Line("final", code, FALSE, FALSE)
           ls == Say(<<l>>)
           st == CASE conn.st \in {"open", "pending"} -> "ended"
                         [] conn.st = "shut" -> "none"
                         [] OTHER -> conn.st
<1>1. "final" \in Cmd /\ code \in Code /\ code \in Final /\ conn.st \in ConnSt
  BY CmdNames, OtherNames DEF Shapes, ConnRec
<1>2. l \in LineRec
  BY <1>1 DEF Line, LineRec
<1>3. ls \in Seq(LineRec)
  <2> HIDE DEF l
  <2> QED BY <1>2, NetParts DEF Say
<1>4. net' = [net EXCEPT !.lines = ls]
  BY DEF FinalReply
<1>5. net' \in NetRec
  <2> HIDE DEF ls
  <2> QED BY <1>3, <1>4 DEF Shapes, NetRec
<1>6. conn' = [conn EXCEPT !.moving = FALSE, !.final = code, !.st = st]
  BY DEF FinalReply
<1>7. st \in ConnSt
  BY <1>1, OtherNames
<1>8. conn' \in ConnRec
  <2> HIDE DEF st
  <2> QED BY <1>1, <1>6, <1>7 DEF Shapes, ConnRec
<1>9. QED
  BY <1>5, <1>8

(***************************************************************************)
(* Every step keeps the shapes: one step for each action, and under it one *)
(* for each variable that the action changes.                              *)
(***************************************************************************)
LEMMA ShapesStep == ASSUME Shapes, [Next]_vars PROVE Shapes'
<1>1. CASE FtpConnect
  <2>1. net' \in NetRec
    <3>1. net.n \in Int
      BY NetParts
    <3>2. <<"CONNECT">> \in Seq(Cmd) /\ <<>> \in Seq(LineRec)
      BY CmdNames
    <3>3. net' = net \/ net' = [up |-> TRUE, cmds |-> <<"CONNECT">>, lines |-> <<>>, user |-> FALSE, n |-> net.n + 1]
      BY <1>1 DEF FtpConnect
    <3>4. [up |-> TRUE, cmds |-> <<"CONNECT">>, lines |-> <<>>, user |-> FALSE, n |-> net.n + 1] \in NetRec
      BY <3>1, <3>2 DEF NetRec
    <3>5. QED
      BY <3>3, <3>4 DEF Shapes
  <2>2. ret' \in RetRec
    <3>1. ret' = NoRet \/ ret' = [op |-> "FtpConnect", val |-> FALSE]
      BY <1>1 DEF FtpConnect
    <3>2. QED
      BY <3>1, RetOf, OpNames, Nothing
  <2>3. call' \in CallRec
    BY <1>1, CmdNames, OpNames, OtherNames, Nothing DEF FtpConnect, NoRet, Shapes, CallRec
  <2>4. ctl' \in CtlRec
    BY <1>1, OtherNames, Nothing DEF FtpConnect, NoRet, Shapes, CtlRec
  <2>5. own' \in [Fds -> Owner]
    BY <1>1 DEF FtpConnect, NoRet, Shapes, Owner
  <2>6. conn' \in ConnRec
    BY <1>1, OtherNames, Nothing DEF FtpConnect, NoRet, Shapes, ConnRec, CallRec
  <2>7. QED
    BY <1>1, <2>1, <2>2, <2>3, <2>4, <2>5, <2>6 DEF FtpConnect, NoRet, Shapes, Pcs, Slip
<1>2. CASE FtpOptions
  <2>1. ctl' \in CtlRec
    BY <1>2, OtherNames, Nothing DEF FtpOptions, Rejects, Shapes, CtlRec
  <2>2. ret' \in RetRec
    <3>1. \E v \in BOOLEAN : ret' = [op |-> "FtpOptions", val |-> v]
      BY <1>2 DEF FtpOptions, Rejects
    <3>2. QED
      BY <3>1, RetOf, OpNames, Nothing
  <2>3. UNCHANGED <<pc, call, data, own, net, conn, slips>>
    BY <1>2 DEF FtpOptions, Rejects
  <2>4. QED
    BY <2>1, <2>2, <2>3 DEF Shapes
<1>3. CASE FtpLogin
  <2>1. call' \in CallRec
    BY <1>3, CmdNames, OpNames, OtherNames, Nothing
       DEF FtpLogin, Rejects, Begin, NoRet, Shapes, CallRec
  <2>2. ret' \in RetRec
    <3>1. ret' = NoRet \/ ret' = [op |-> "FtpLogin", val |-> FALSE]
      BY <1>3 DEF FtpLogin, Rejects, Begin
    <3>2. QED
      BY <3>1, RetOf, OpNames, Nothing
  <2>3. conn' \in ConnRec
    BY <1>3, OtherNames, Nothing DEF FtpLogin, Rejects, Begin, NoRet, Shapes, ConnRec, CallRec
  <2>4. CASE Rejects("FtpLogin")
    <3>1. UNCHANGED <<pc, call, ctl, data, own, net, conn, slips>>
      BY <2>4 DEF Rejects
    <3>2. QED
      BY <2>2, <3>1 DEF Shapes
  <2>5. CASE ~Rejects("FtpLogin")
    <3>1. /\ pc' = "send"
          /\ UNCHANGED <<ctl, data, own, net>>
          /\ slips' \in {slips, slips \cup {"mixed"}}
      BY <1>3, <2>5 DEF FtpLogin, Begin
    <3>2. QED
      BY <2>1, <2>2, <2>3, <3>1 DEF Shapes, Pcs, Slip
  <2>6. QED
    BY <2>4, <2>5
<1>4. CASE FtpQuit
  <2>1. call' \in CallRec
    BY <1>4, CmdNames, OpNames, OtherNames, Nothing DEF FtpQuit, Begin, NoRet, Shapes, CallRec
  <2>2. ret' \in RetRec
    BY <1>4, OpNames, Nothing DEF FtpQuit, Begin, NoRet, Shapes, CallRec, RetRec
  <2>3. conn' \in ConnRec
    BY <1>4, OtherNames, Nothing DEF FtpQuit, Begin, NoRet, Shapes, ConnRec, CallRec
  <2>4. QED
    BY <1>4, <2>1, <2>2, <2>3 DEF FtpQuit, Begin, NoRet, Shapes, Pcs, Slip
<1>5. CASE SimpleCall
  <2>1. call' \in CallRec /\ ret' \in RetRec
    <3>1. PICK c \in DOMAIN Calls, len \in Lengths \cup {0} :
             \/ call' = call /\ ret' = [op |-> Calls[c], val |-> FALSE]
             \/ call' = [NoCall EXCEPT !.op = Calls[c], !.cmd = c, !.len = len] /\ ret' = NoRet
      BY <1>5 DEF SimpleCall, Rejects, Begin
    <3>2. c \in Cmd /\ Calls[c] \in Op
      BY OpNames
    <3>2a. len \in Int
      BY LengthsAssumption
    <3>3. [NoCall EXCEPT !.op = Calls[c], !.cmd = c, !.len = len] \in CallRec
      BY <3>2, <3>2a, Nothing DEF CallRec
    <3>4. QED
      BY <3>1, <3>2, <3>3, RetOf, Nothing DEF Shapes
  <2>2. conn' \in ConnRec
    BY <1>5, OtherNames, Nothing
       DEF SimpleCall, Begin, NoRet, Rejects, Calls, PathCommand, Shapes, ConnRec, CallRec
  <2>3. QED
    BY <1>5, <2>1, <2>2
       DEF SimpleCall, Begin, NoRet, Rejects, Calls, PathCommand, Shapes, Pcs, Slip
<1>6. CASE NoPathOrFile
  <2>1. ctl' \in CtlRec
    BY <1>6, OtherNames, Nothing DEF NoPathOrFile, Shapes, CtlRec
  <2>2. ret' \in RetRec
    BY <1>6, OpNames, Nothing DEF NoPathOrFile, Shapes, CallRec, RetRec
  <2>3. QED
    BY <1>6, <2>1, <2>2 DEF NoPathOrFile, Shapes
<1>7. CASE FtpAccess
  <2>1. call' \in CallRec
    <3>1. PICK typ \in Types, len \in Lengths :
             call' = [NoCall EXCEPT !.op = "FtpAccess", !.cmd = "TYPE", !.typ = typ, !.len = len, !.file = NoFd]
      BY <1>7 DEF FtpAccess, Access, Begin
    <3>2. typ \in Typ /\ len \in Int /\ NoFd \in Fd /\ "FtpAccess" \in Op /\ "TYPE" \in Cmd
      BY OpNames, CmdNames, OtherNames
    <3>3. QED
      BY <3>1, <3>2, Nothing DEF CallRec
  <2>2. ret' \in RetRec
    BY <1>7, OpNames, Nothing DEF FtpAccess, Access, Begin, NoRet, Shapes, CallRec, RetRec
  <2>3. conn' \in ConnRec
    BY <1>7, OtherNames, Nothing DEF FtpAccess, Access, Begin, NoRet, Shapes, ConnRec, CallRec
  <2>4. QED
    BY <1>7, <2>1, <2>2, <2>3 DEF FtpAccess, Access, Begin, NoRet, Shapes, Pcs, Slip
<1>8. CASE FtpXfer
  <2>1. call' \in CallRec
    <3>1. PICK f \in Fd : Access("FtpXfer", f)
      BY <1>8, OtherNames DEF FtpXfer
    <3>1a. PICK typ \in Types, len \in Lengths :
             call' = [NoCall EXCEPT !.op = "FtpXfer", !.cmd = "TYPE", !.typ = typ, !.len = len, !.file = f]
      BY <3>1 DEF Access, Begin
    <3>2. typ \in Typ /\ len \in Int /\ NoFd \in Fd /\ "FtpXfer" \in Op /\ "TYPE" \in Cmd
      BY OpNames, CmdNames, OtherNames
    <3>3. QED
      BY <3>1a, <3>2, Nothing DEF CallRec
  <2>2. ret' \in RetRec
    BY <1>8, OpNames, Nothing DEF FtpXfer, Access, Begin, NoRet, Shapes, CallRec, RetRec
  <2>3. conn' \in ConnRec
    BY <1>8, OtherNames, Nothing DEF FtpXfer, Access, Begin, NoRet, Shapes, ConnRec, CallRec
  <2>4. own' \in [Fds -> Owner]
    BY <1>8 DEF FtpXfer, Access, Begin, NoRet, Shapes, Owner
  <2>5. QED
    BY <1>8, <2>1, <2>2, <2>3, <2>4 DEF FtpXfer, Access, Begin, NoRet, Shapes, Pcs, Slip
<1>9. CASE FtpReadWrite
  <2>1. call' \in CallRec
    BY <1>9, CmdNames, OpNames, OtherNames, Nothing
       DEF FtpReadWrite, Begin, NoRet, Shapes, CallRec
  <2>2. ret' \in RetRec
    BY <1>9, OpNames, Nothing DEF FtpReadWrite, Begin, NoRet, Shapes, CallRec, RetRec
  <2>3. conn' \in ConnRec
    BY <1>9, OtherNames, Nothing DEF FtpReadWrite, Begin, NoRet, Shapes, ConnRec, CallRec
  <2>4. QED
    BY <1>9, <2>1, <2>2, <2>3 DEF FtpReadWrite, Begin, NoRet, Shapes, Pcs, Slip
<1>10. CASE FtpClose
  <2>1. call' \in CallRec
    BY <1>10, CmdNames, OpNames, OtherNames, Nothing
       DEF FtpClose, Begin, NoRet, Shapes, CallRec
  <2>2. ret' \in RetRec
    BY <1>10, OpNames, Nothing DEF FtpClose, Begin, NoRet, Shapes, CallRec, RetRec
  <2>3. conn' \in ConnRec
    BY <1>10, OtherNames, Nothing DEF FtpClose, Begin, NoRet, Shapes, ConnRec, CallRec
  <2>4. QED
    BY <1>10, <2>1, <2>2, <2>3 DEF FtpClose, Begin, NoRet, Shapes, Pcs, Slip
<1>11. CASE FtpCloseControl
  <2>1. ret' \in RetRec
    <3>1. ret' = NoRet \/ ret' = [op |-> "FtpCloseControl", val |-> FALSE]
      BY <1>11 DEF FtpCloseControl, Begin
    <3>2. QED
      BY <3>1, RetOf, OpNames, Nothing
  <2>2. net' \in NetRec
    BY <1>11, SeveredRec DEF FtpCloseControl, ReleaseControl, Shapes
  <2>3. call' \in CallRec
    BY <1>11, CmdNames, OpNames, OtherNames, Nothing
       DEF FtpCloseControl, Begin, NoRet, ReleaseControl, Shapes, CallRec
  <2>4. conn' \in ConnRec
    BY <1>11, OtherNames, Nothing
       DEF FtpCloseControl, Begin, NoRet, ReleaseControl, Shapes, ConnRec, CallRec
  <2>5. ctl' \in CtlRec
    BY <1>11, OtherNames, Nothing
       DEF FtpCloseControl, Begin, NoRet, ReleaseControl, Shapes, CtlRec
  <2>6. own' \in [Fds -> Owner]
    BY <1>11 DEF FtpCloseControl, Begin, NoRet, ReleaseControl, Closed, Shapes, Owner
  <2>7. QED
    BY <1>11, <2>1, <2>2, <2>3, <2>4, <2>5, <2>6
       DEF FtpCloseControl, Begin, NoRet, ReleaseControl, Shapes, Pcs, Slip
<1>12. CASE CloseDangling
  <2>1. QED
    BY <1>12 DEF CloseDangling, Shapes, Pcs
<1>13. CASE FtpSendCmd
  <2>1. net' \in NetRec
    <3> DEFINE cs == Append(net.cmds, call.cmd)
    <3>1. net' = net \/ net' = [net EXCEPT !.cmds = cs]
      BY <1>13 DEF FtpSendCmd
    <3>2. call.cmd \in Cmd
      BY DEF Shapes, CallRec
    <3>3. cs \in Seq(Cmd)
      BY <3>2, NetParts
    <3> HIDE DEF cs
    <3>4. QED
      BY <3>1, <3>3 DEF Shapes, NetRec
  <2>2. call' \in CallRec
    BY <1>13, CmdNames, OpNames, OtherNames, Nothing DEF FtpSendCmd, Got, Shapes, CallRec
  <2>3. ret' \in RetRec
    BY <1>13, OpNames, Nothing DEF FtpSendCmd, Got, Shapes, CallRec, RetRec
  <2>4. QED
    BY <1>13, <2>1, <2>2, <2>3 DEF FtpSendCmd, Got, Shapes, Pcs, Slip
<1>14. CASE ReadResp
  <2>1. ctl' \in CtlRec /\ net' \in NetRec
    <3> DEFINE l == Head(net.lines)
    <3>1. /\ l \in LineRec /\ Tail(net.lines) \in Seq(LineRec)
      BY <1>14, NetParts DEF ReadResp
    <3>2. l.code \in Code
      BY <3>1 DEF LineRec
    <3>3. PICK rest \in {"2", "x"} : ReadLine(l) /\
            net' = [net EXCEPT !.lines =
                     IF l.long THEN <<[l EXCEPT !.code = rest, !.long = FALSE]>> \o Tail(@)
                               ELSE Tail(@)]
      BY <1>14 DEF ReadResp, ReadLine
    <3>4. [l EXCEPT !.code = rest, !.long = FALSE] \in LineRec
      <4> HIDE DEF l
      <4>1. rest \in Code
        BY OtherNames
      <4> QED BY <3>1, <4>1 DEF LineRec
    <3>5. <<[l EXCEPT !.code = rest, !.long = FALSE]>> \o Tail(net.lines) \in Seq(LineRec)
      BY <3>1, <3>4
    <3>6. net' \in NetRec
      <4> DEFINE ls == IF l.long THEN <<[l EXCEPT !.code = rest, !.long = FALSE]>> \o Tail(net.lines)
                                 ELSE Tail(net.lines)
      <4>1. ls \in Seq(LineRec)
        BY <3>1, <3>5
      <4>2. net' = [net EXCEPT !.lines = ls]
        BY <3>3
      <4> HIDE DEF ls
      <4>3. QED
        BY <4>1, <4>2 DEF Shapes, NetRec
    <3>7. PICK r \in Resp : ctl' = [ctl EXCEPT !.resp = r]
      BY <3>2, <3>3, OtherNames DEF ReadLine
    <3>8. ctl' \in CtlRec
      BY <3>7 DEF CtlRec, Shapes
    <3>9. QED
      BY <3>6, <3>8
  <2>2. call' \in CallRec
    BY <1>14, CmdNames, OpNames, OtherNames, Nothing DEF ReadResp, Got, Shapes, CallRec
  <2>3. ret' \in RetRec
    BY <1>14, OpNames, Nothing DEF ReadResp, Got, Shapes, CallRec, RetRec
  <2>4. QED
    BY <1>14, <2>1, <2>2, <2>3 DEF ReadResp, ReadLine, Got, Shapes, Pcs, Slip
<1>15. CASE ReadFails
  <2>1. call' \in CallRec
    BY <1>15, CmdNames, OpNames, OtherNames, Nothing DEF ReadFails, Got, Shapes, CallRec
  <2>2. ret' \in RetRec
    BY <1>15, OpNames, Nothing DEF ReadFails, Got, Shapes, CallRec, RetRec
  <2>3. QED
    BY <1>15, <2>1, <2>2 DEF ReadFails, Got, Shapes, Pcs
<1>16. CASE AfterConnect
  <2>1. call' \in CallRec
    BY <1>16, CmdNames, OpNames, OtherNames, Nothing
       DEF AfterConnect, Return, ReleaseControl, Shapes, CallRec
  <2>2. ret' \in RetRec
    <3>1. call.op \in Op /\ call.ok \in BOOLEAN /\ call.rv \in BOOLEAN /\ ret \in RetRec
      BY DEF Shapes, CallRec
    <3>2. \/ ret' = ret \/ ret' = [op |-> call.op, val |-> TRUE]
          \/ ret' = [op |-> call.op, val |-> FALSE]
      BY <1>16, <3>1 DEF AfterConnect, Return, ReleaseControl
    <3>3. QED
      BY <3>1, <3>2, RetOf
  <2>3. ctl' \in CtlRec
    BY <1>16, OtherNames, Nothing DEF AfterConnect, Return, ReleaseControl, Shapes, CtlRec
  <2>4. own' \in [Fds -> Owner]
    BY <1>16 DEF AfterConnect, Return, ReleaseControl, Closed, Shapes, Owner
  <2>5. net' \in NetRec
    BY <1>16, SeveredRec DEF AfterConnect, ReleaseControl, Shapes
  <2>6. QED
    BY <1>16, <2>1, <2>2, <2>3, <2>4, <2>5
       DEF AfterConnect, Return, ReleaseControl, Shapes, Pcs
<1>17. CASE AfterUser
  <2>1. call' \in CallRec
    BY <1>17, CmdNames, OpNames, OtherNames, Nothing
       DEF AfterUser, Send, Return, Shapes, CallRec
  <2>2. ret' \in RetRec
    <3>1. call.op \in Op /\ call.ok \in BOOLEAN /\ call.rv \in BOOLEAN /\ ret \in RetRec
      BY DEF Shapes, CallRec
    <3>2. \/ ret' = ret \/ ret' = [op |-> call.op, val |-> TRUE]
          \/ ret' = [op |-> call.op, val |-> FALSE]
      BY <1>17, <3>1 DEF AfterUser, Send, Return
    <3>3. QED
      BY <3>1, <3>2, RetOf
  <2>3. QED
    BY <1>17, <2>1, <2>2 DEF AfterUser, Send, Return, Shapes, Pcs
<1>18. CASE AfterQuit
  <2>1. call' \in CallRec
    BY <1>18, CmdNames, OpNames, OtherNames, Nothing
       DEF AfterQuit, Return, ReleaseControl, Shapes, CallRec
  <2>2. ret' \in RetRec
    <3>1. call.op \in Op /\ call.ok \in BOOLEAN /\ call.rv \in BOOLEAN /\ ret \in RetRec
      BY DEF Shapes, CallRec
    <3>2. \/ ret' = ret \/ ret' = [op |-> call.op, val |-> TRUE]
          \/ ret' = [op |-> call.op, val |-> FALSE]
      BY <1>18, <3>1 DEF AfterQuit, Return, ReleaseControl
    <3>3. QED
      BY <3>1, <3>2, RetOf
  <2>3. ctl' \in CtlRec
    BY <1>18, OtherNames, Nothing DEF AfterQuit, Return, ReleaseControl, Shapes, CtlRec
  <2>4. own' \in [Fds -> Owner]
    BY <1>18 DEF AfterQuit, Return, ReleaseControl, Closed, Shapes, Owner
  <2>5. net' \in NetRec
    BY <1>18, SeveredRec DEF AfterQuit, ReleaseControl, Shapes
  <2>6. QED
    BY <1>18, <2>1, <2>2, <2>3, <2>4, <2>5 DEF AfterQuit, Return, ReleaseControl, Shapes, Pcs
<1>19. CASE SecondCommand
  <2>1. call' \in CallRec
    BY <1>19, CmdNames, OpNames, OtherNames, Nothing DEF SecondCommand, Send, Shapes, CallRec
  <2>2. ret' \in RetRec
    BY <1>19, OpNames, Nothing DEF SecondCommand, Send, Shapes, CallRec, RetRec
  <2>3. QED
    BY <1>19, <2>1, <2>2 DEF SecondCommand, Send, Shapes, Pcs
<1>20. CASE AfterCommand
  <2>1. call' \in CallRec
    BY <1>20, CmdNames, OpNames, OtherNames, Nothing DEF AfterCommand, Return, Shapes, CallRec
  <2>2. ret' \in RetRec
    <3>1. call.op \in Op /\ call.ok \in BOOLEAN /\ call.rv \in BOOLEAN /\ ret \in RetRec
      BY DEF Shapes, CallRec
    <3>2. \/ ret' = ret \/ ret' = [op |-> call.op, val |-> TRUE]
          \/ ret' = [op |-> call.op, val |-> FALSE]
      BY <1>20, <3>1 DEF AfterCommand, Return
    <3>3. QED
      BY <3>1, <3>2, RetOf
  <2>3. QED
    BY <1>20, <2>1, <2>2 DEF AfterCommand, Return, Shapes, Pcs
<1>21. CASE AfterType
  <2>1. call' \in CallRec
    BY <1>21, CmdNames, OpNames, OtherNames, Nothing
       DEF AfterType, AccessFails, Return, Send, Shapes, CallRec
  <2>2. ret' \in RetRec
    <3>1. call.op \in Op /\ call.ok \in BOOLEAN /\ call.rv \in BOOLEAN /\ ret \in RetRec
      BY DEF Shapes, CallRec
    <3>2. \/ ret' = ret \/ ret' = [op |-> call.op, val |-> TRUE]
          \/ ret' = [op |-> call.op, val |-> FALSE]
      BY <1>21, <3>1 DEF AfterType, AccessFails, Return, Send
    <3>3. QED
      BY <3>1, <3>2, RetOf
  <2>3. own' \in [Fds -> Owner]
    BY <1>21 DEF AfterType, AccessFails, Return, Send, Shapes, Owner
  <2>4. QED
    BY <1>21, <2>1, <2>2, <2>3 DEF AfterType, AccessFails, Return, Send, Shapes, Pcs
<1>22. CASE AfterPasv
  <2>1. call' \in CallRec
    BY <1>22, CmdNames, OpNames, OtherNames, Nothing
       DEF AfterPasv, AccessFails, Return, Shapes, CallRec
  <2>2. ret' \in RetRec
    <3>1. call.op \in Op /\ call.ok \in BOOLEAN /\ call.rv \in BOOLEAN /\ ret \in RetRec
      BY DEF Shapes, CallRec
    <3>2. \/ ret' = ret \/ ret' = [op |-> call.op, val |-> TRUE]
          \/ ret' = [op |-> call.op, val |-> FALSE]
      BY <1>22, <3>1 DEF AfterPasv, AccessFails, Return
    <3>3. QED
      BY <3>1, <3>2, RetOf
  <2>3. own' \in [Fds -> Owner]
    BY <1>22 DEF AfterPasv, AccessFails, Return, Shapes, Owner
  <2>4. QED
    BY <1>22, <2>1, <2>2, <2>3 DEF AfterPasv, AccessFails, Return, Shapes, Pcs
<1>23. CASE AfterPort
  <2>1. data' \in DataRec
    <3>1. data' = data \/ data' = [st |-> "open", fd |-> call.fd, typ |-> call.typ, cb |-> ctl.cb]
      BY <1>23 DEF AfterPort, MakeData
    <3>2. call.fd \in Fd /\ call.typ \in Typ /\ ctl.cb \in BOOLEAN
      BY DEF Shapes, CallRec, CtlRec
    <3>3. [st |-> "open", fd |-> call.fd, typ |-> call.typ, cb |-> ctl.cb] \in DataRec
      BY <3>2, OtherNames DEF DataRec
    <3>4. QED
      BY <3>1, <3>3 DEF Shapes
  <2>2. call' \in CallRec
    BY <1>23, CmdNames, OpNames, OtherNames, Nothing
       DEF AfterPort, AccessFails, Return, MakeData, Send, Shapes, CallRec
  <2>3. ret' \in RetRec
    <3>1. call.op \in Op /\ call.ok \in BOOLEAN /\ call.rv \in BOOLEAN /\ ret \in RetRec
      BY DEF Shapes, CallRec
    <3>2. \/ ret' = ret \/ ret' = [op |-> call.op, val |-> TRUE]
          \/ ret' = [op |-> call.op, val |-> FALSE]
      BY <1>23, <3>1 DEF AfterPort, AccessFails, Return, MakeData, Send
    <3>3. QED
      BY <3>1, <3>2, RetOf
  <2>4. own' \in [Fds -> Owner]
    BY <1>23 DEF AfterPort, AccessFails, Return, MakeData, Send, Closed, Shapes, Owner
  <2>5. ctl' \in CtlRec
    BY <1>23, OtherNames, Nothing
       DEF AfterPort, AccessFails, Return, MakeData, Send, Shapes, CtlRec
  <2>6. conn' \in ConnRec
    BY <1>23, OtherNames, Nothing
       DEF AfterPort, AccessFails, Return, MakeData, Send, Shapes, ConnRec, CallRec
  <2>7. QED
    BY <1>23, <2>1, <2>2, <2>3, <2>4, <2>5, <2>6
       DEF AfterPort, AccessFails, Return, MakeData, Send, Shapes, Pcs
<1>24. CASE AfterTransfer
  <2>1. call' \in CallRec
    BY <1>24, CmdNames, OpNames, OtherNames, Nothing
       DEF AfterTransfer, Opened, Return, Shapes, CallRec
  <2>2. ret' \in RetRec
    <3>1. call.op \in Op /\ call.ok \in BOOLEAN /\ call.rv \in BOOLEAN /\ ret \in RetRec
      BY DEF Shapes, CallRec
    <3>2. \/ ret' = ret \/ ret' = [op |-> call.op, val |-> TRUE]
          \/ ret' = [op |-> call.op, val |-> FALSE]
      BY <1>24, <3>1 DEF AfterTransfer, Opened, Return
    <3>3. QED
      BY <3>1, <3>2, RetOf
  <2>3. QED
    BY <1>24, <2>1, <2>2 DEF AfterTransfer, Opened, Return, Shapes, Pcs
<1>25. CASE AfterAccept
  <2>1. QED
    BY <1>25 DEF AfterAccept, Shapes, Pcs
<1>26. CASE AfterClose
  <2>1. call' \in CallRec
    BY <1>26, CmdNames, OpNames, OtherNames, Nothing
       DEF AfterClose, Return, ReleaseControl, Shapes, CallRec
  <2>2. ret' \in RetRec
    <3>1. call.op \in Op /\ call.ok \in BOOLEAN /\ call.rv \in BOOLEAN /\ ret \in RetRec
      BY DEF Shapes, CallRec
    <3>2. \/ ret' = ret \/ ret' = [op |-> call.op, val |-> TRUE]
          \/ ret' = [op |-> call.op, val |-> FALSE]
      BY <1>26, <3>1 DEF AfterClose, Return, ReleaseControl
    <3>3. QED
      BY <3>1, <3>2, RetOf
  <2>3. ctl' \in CtlRec
    BY <1>26, OtherNames, Nothing DEF AfterClose, Return, ReleaseControl, Shapes, CtlRec
  <2>4. own' \in [Fds -> Owner]
    BY <1>26 DEF AfterClose, Return, ReleaseControl, Closed, Shapes, Owner
  <2>5. net' \in NetRec
    BY <1>26, SeveredRec DEF AfterClose, ReleaseControl, Shapes
  <2>6. QED
    BY <1>26, <2>1, <2>2, <2>3, <2>4, <2>5 DEF AfterClose, Return, ReleaseControl, Shapes, Pcs
<1>27. CASE OpenFails
  <2>1. call' \in CallRec
    BY <1>27, CmdNames, OpNames, OtherNames, Nothing
       DEF OpenFails, AccessFails, Return, Shapes, CallRec
  <2>2. ret' \in RetRec
    <3>1. call.op \in Op /\ call.ok \in BOOLEAN /\ call.rv \in BOOLEAN /\ ret \in RetRec
      BY DEF Shapes, CallRec
    <3>2. \/ ret' = ret \/ ret' = [op |-> call.op, val |-> TRUE]
          \/ ret' = [op |-> call.op, val |-> FALSE]
      BY <1>27, <3>1 DEF OpenFails, AccessFails, Return
    <3>3. QED
      BY <3>1, <3>2, RetOf
  <2>3. own' \in [Fds -> Owner]
    BY <1>27 DEF OpenFails, AccessFails, Return, Shapes, Owner
  <2>4. QED
    BY <1>27, <2>1, <2>2, <2>3 DEF OpenFails, AccessFails, Return, Shapes, Pcs, Slip
<1>28. CASE OpenPort
  <2>1. data' \in DataRec
    <3>1. PICK f \in Fds : data' = data \/ data' = [st |-> "open", fd |-> f, typ |-> call.typ, cb |-> ctl.cb]
      BY <1>28 DEF OpenPort, MakeData
    <3>2. f \in Fd /\ call.typ \in Typ /\ ctl.cb \in BOOLEAN
      BY OtherNames DEF Shapes, CallRec, CtlRec
    <3>3. [st |-> "open", fd |-> f, typ |-> call.typ, cb |-> ctl.cb] \in DataRec
      BY <3>2, OtherNames DEF DataRec
    <3>4. QED
      BY <3>1, <3>3 DEF Shapes
  <2>2. call' \in CallRec
    BY <1>28, CmdNames, OpNames, OtherNames, Nothing
       DEF OpenPort, MakeData, Send, Shapes, CallRec
  <2>3. ret' \in RetRec
    BY <1>28, OpNames, Nothing DEF OpenPort, MakeData, Send, Shapes, CallRec, RetRec
  <2>4. ctl' \in CtlRec
    BY <1>28, OtherNames, Nothing DEF OpenPort, MakeData, Send, Shapes, CtlRec
  <2>5. own' \in [Fds -> Owner]
    BY <1>28 DEF OpenPort, MakeData, Send, Shapes, Owner
  <2>6. conn' \in ConnRec
    BY <1>28, OtherNames, Nothing DEF OpenPort, MakeData, Send, Shapes, ConnRec, CallRec
  <2>7. QED
    BY <1>28, <2>1, <2>2, <2>3, <2>4, <2>5, <2>6 DEF OpenPort, MakeData, Send, Shapes, Pcs
<1>29. CASE Accept
  <2>1. call' \in CallRec
    BY <1>29, CmdNames, OpNames, OtherNames, Nothing
       DEF Accept, Opened, Return, Shapes, CallRec
  <2>2. ret' \in RetRec
    <3>1. call.op \in Op /\ call.ok \in BOOLEAN /\ call.rv \in BOOLEAN /\ ret \in RetRec
      BY DEF Shapes, CallRec
    <3>2. \/ ret' = ret \/ ret' = [op |-> call.op, val |-> TRUE]
          \/ ret' = [op |-> call.op, val |-> FALSE]
      BY <1>29, <3>1 DEF Accept, Opened, Return
    <3>3. QED
      BY <3>1, <3>2, RetOf
  <2>3. own' \in [Fds -> Owner]
    BY <1>29 DEF Accept, Opened, Return, Closed, Shapes, Owner
  <2>4. data' \in DataRec
    BY <1>29, OtherNames, Nothing DEF Accept, Opened, Return, Shapes, DataRec, CallRec, CtlRec
  <2>5. conn' \in ConnRec
    BY <1>29, OtherNames, Nothing DEF Accept, Opened, Return, Shapes, ConnRec, CallRec
  <2>6. QED
    BY <1>29, <2>1, <2>2, <2>3, <2>4, <2>5 DEF Accept, Opened, Return, Shapes, Pcs
<1>30. CASE AcceptFails
  <2>1. data' \in DataRec
    <3>1. data' = [data EXCEPT !.fd = 0]
      BY <1>30 DEF AcceptFails, AcceptRefused
    <3>2. QED
      BY <3>1, OtherNames DEF DataRec, Shapes
  <2>2. own' \in [Fds -> Owner]
    BY <1>30 DEF AcceptFails, Closed, Shapes, Owner
  <2>3. ctl' \in CtlRec
    BY <1>30, OtherNames, Nothing DEF AcceptFails, Shapes, CtlRec
  <2>4. QED
    BY <1>30, <2>1, <2>2, <2>3 DEF AcceptFails, Shapes, Pcs
<1>31. CASE AcceptRefused
  <2>1. data' \in DataRec
    <3>1. data' = [data EXCEPT !.fd = 0]
      BY <1>31 DEF AcceptFails, AcceptRefused
    <3>2. QED
      BY <3>1, OtherNames DEF DataRec, Shapes
  <2>2. call' \in CallRec
    BY <1>31, CmdNames, OpNames, OtherNames, Nothing DEF AcceptRefused, Shapes, CallRec
  <2>3. own' \in [Fds -> Owner]
    BY <1>31 DEF AcceptRefused, Closed, Shapes, Owner
  <2>4. QED
    BY <1>31, <2>1, <2>2, <2>3 DEF AcceptRefused, Shapes, Pcs
<1>32. CASE FtpRead
  <2>1. conn' \in ConnRec
    <3>1. conn.blocks \in Int /\ conn.blocks - 1 \in Int /\ conn.blocks - 0 \in Int
      BY DEF Shapes, ConnRec
    <3>2. \/ conn' = conn
          \/ conn' = [conn EXCEPT !.blocks = conn.blocks - 1]
          \/ \E r \in 0 .. 1 : conn' = [conn EXCEPT !.blocks = conn.blocks - r, !.lost = TRUE]
      BY <1>32 DEF FtpRead
    <3>3. CASE conn' = conn
      BY <3>3 DEF Shapes
    <3>4. CASE conn' = [conn EXCEPT !.blocks = conn.blocks - 1]
      BY <3>1, <3>4 DEF Shapes, ConnRec
    <3>5. ASSUME NEW r \in 0 .. 1, conn' = [conn EXCEPT !.blocks = conn.blocks - r, !.lost = TRUE]
          PROVE  conn' \in ConnRec
      <4> DEFINE b == conn.blocks - r
      <4>1. b \in Int /\ conn' = [conn EXCEPT !.blocks = b, !.lost = TRUE]
        BY <3>1, <3>5
      <4> HIDE DEF b
      <4> QED BY <4>1 DEF Shapes, ConnRec
    <3>6. QED
      BY <3>2, <3>3, <3>4, <3>5
  <2>2. call' \in CallRec
    BY <1>32, CmdNames, OpNames, OtherNames, Nothing
       DEF FtpRead, AfterRead, LoopEnds, Return, Shapes, CallRec
  <2>3. ret' \in RetRec
    <3>1. call.op \in Op /\ call.ok \in BOOLEAN /\ call.rv \in BOOLEAN /\ ret \in RetRec
      BY DEF Shapes, CallRec
    <3>2. \/ ret' = ret \/ ret' = [op |-> call.op, val |-> TRUE]
          \/ ret' = [op |-> call.op, val |-> FALSE]
      BY <1>32, <3>1 DEF FtpRead, AfterRead, LoopEnds, Return
    <3>3. QED
      BY <3>1, <3>2, RetOf
  <2>4. own' \in [Fds -> Owner]
    BY <1>32 DEF FtpRead, AfterRead, LoopEnds, Return, Shapes, Owner
  <2>5. ctl' \in CtlRec
    BY <1>32, OtherNames, Nothing DEF FtpRead, AfterRead, LoopEnds, Return, Shapes, CtlRec
  <2>6. QED
    BY <1>32, <2>1, <2>2, <2>3, <2>4, <2>5
       DEF FtpRead, AfterRead, LoopEnds, Return, Shapes, Pcs
<1>33. CASE FtpWrite
  <2>1. conn' \in ConnRec
    <3>1. conn.left - 1 \in Int /\ conn.lost \in BOOLEAN
      BY DEF Shapes, ConnRec
    <3>2. PICK b \in BOOLEAN : conn' = [conn EXCEPT !.left = conn.left - 1, !.lost = b]
      BY <1>33, <3>1 DEF FtpWrite, WriteBlock
    <3>3. QED
      BY <3>1, <3>2 DEF ConnRec, Shapes
  <2>2. call' \in CallRec
    BY <1>33, CmdNames, OpNames, OtherNames, Nothing
       DEF FtpWrite, AfterWrite, LoopEnds, Return, Shapes, CallRec
  <2>3. ret' \in RetRec
    <3>1. call.op \in Op /\ call.ok \in BOOLEAN /\ call.rv \in BOOLEAN /\ ret \in RetRec
      BY DEF Shapes, CallRec
    <3>2. \/ ret' = ret \/ ret' = [op |-> call.op, val |-> TRUE]
          \/ ret' = [op |-> call.op, val |-> FALSE]
      BY <1>33, <3>1 DEF FtpWrite, AfterWrite, LoopEnds, Return
    <3>3. QED
      BY <3>1, <3>2, RetOf
  <2>4. own' \in [Fds -> Owner]
    BY <1>33 DEF FtpWrite, AfterWrite, LoopEnds, Return, Shapes, Owner
  <2>5. QED
    BY <1>33, <2>1, <2>2, <2>3, <2>4 DEF FtpWrite, AfterWrite, LoopEnds, Return, Shapes, Pcs
<1>34. CASE SourceEnds
  <2>1. call' \in CallRec
    BY <1>34, CmdNames, OpNames, OtherNames, Nothing DEF SourceEnds, LoopEnds, Shapes, CallRec
  <2>2. ret' \in RetRec
    BY <1>34, OpNames, Nothing DEF SourceEnds, LoopEnds, Shapes, CallRec, RetRec
  <2>3. own' \in [Fds -> Owner]
    BY <1>34 DEF SourceEnds, LoopEnds, Shapes, Owner
  <2>4. QED
    BY <1>34, <2>1, <2>2, <2>3 DEF SourceEnds, LoopEnds, Shapes, Pcs
<1>35. CASE CloseData
  <2>1. net' \in NetRec
    BY <1>35, SeveredRec DEF CloseData, CloseDataAnd, NetAfter, Shapes
  <2>2. conn' \in ConnRec
    <3> DEFINE st == IF conn.moving THEN "shut" ELSE "none"
               zero == 0
    <3>1. conn' = [conn EXCEPT !.st = st, !.blocks = zero]
      BY <1>35 DEF CloseData, CloseDataAnd
    <3>2. st \in ConnSt
      BY OtherNames
    <3>3. zero \in Int
      OBVIOUS
    <3> HIDE DEF st, zero
    <3>4. QED
      BY <3>1, <3>2, <3>3 DEF ConnRec, Shapes
  <2>3. call' \in CallRec
    BY <1>35, CmdNames, OpNames, OtherNames, Nothing
       DEF CloseData, CloseDataAnd, Shapes, CallRec
  <2>4. own' \in [Fds -> Owner]
    BY <1>35 DEF CloseData, CloseDataAnd, Closed, Shapes, Owner
  <2>5. data' \in DataRec
    BY <1>35, OtherNames, Nothing
       DEF CloseData, CloseDataAnd, Shapes, DataRec, CallRec, CtlRec
  <2>6. ctl' \in CtlRec
    BY <1>35, OtherNames, Nothing DEF CloseData, CloseDataAnd, Shapes, CtlRec
  <2>7. QED
    BY <1>35, <2>1, <2>2, <2>3, <2>4, <2>5, <2>6 DEF CloseData, CloseDataAnd, Shapes, Pcs
<1>36. CASE Answer
  <2>1. net' \in NetRec /\ conn' \in ConnRec
    <3> DEFINE c == Head(net.cmds)
    <3>1. c \in Cmd /\ Tail(net.cmds) \in Seq(Cmd)
      BY <1>36, NetParts DEF Answer
    <3>2. PICK code \in Codes(c), more \in BOOLEAN, long \in BOOLEAN, blocks \in 0 .. MaxBlocks :
            /\ net' = [net EXCEPT
                 !.cmds = Tail(@),
                 !.lines = (IF more THEN Append(@, Line(c, code, TRUE, FALSE)) ELSE @)
                           \o <<Line(c, code, FALSE, long)>>,
                 !.user = @ \/ (c \in {"USER", "PASS"} /\ code = "2")]
            /\ conn' = conn \/ conn' = [conn EXCEPT !.moving = TRUE, !.left = blocks]
      BY <1>36 DEF Answer
    <3>3. code \in Code
      BY OtherNames DEF Codes
    <3>4. Line(c, code, TRUE, FALSE) \in LineRec /\ Line(c, code, FALSE, long) \in LineRec
      <4> HIDE DEF c
      <4> QED BY <3>1, <3>3 DEF Line, LineRec
    <3> DEFINE l1 == Line(c, code, TRUE, FALSE)
               l2 == Line(c, code, FALSE, long)
               cs == Tail(net.cmds)
               ls == (IF more THEN Append(net.lines, l1) ELSE net.lines) \o <<l2>>
               u  == net.user \/ (c \in {"USER", "PASS"} /\ code = "2")
    <3>5. ls \in Seq(LineRec)
      <4>1. l1 \in LineRec /\ l2 \in LineRec
        BY <3>4
      <4> HIDE DEF l1, l2
      <4> QED BY <4>1, NetParts
    <3>6. net' = [net EXCEPT !.cmds = cs, !.lines = ls, !.user = u]
      BY <3>2
    <3>7. cs \in Seq(Cmd) /\ u \in BOOLEAN
      BY <3>1
    <3>8. net' \in NetRec
      <4> HIDE DEF cs, ls, u
      <4> QED BY <3>5, <3>6, <3>7 DEF Shapes, NetRec
    <3>9. conn' \in ConnRec
      <4>1. blocks \in Int
        BY BoundsAssumption
      <4> QED BY <3>2, <4>1 DEF Shapes, ConnRec
    <3>10. QED
      BY <3>8, <3>9
  <2>2. QED
    BY <1>36, <2>1 DEF Answer, Say, Line, Codes, Shapes
<1>37. CASE ConnectBack
  <2>1. net' \in NetRec /\ conn' \in ConnRec
    <3>1. CASE conn' = [conn EXCEPT !.st = "pending"] /\ UNCHANGED net
      BY <3>1, OtherNames DEF Shapes, ConnRec
    <3>2. CASE FinalReply("4")
      BY <3>2, FinalShapes
    <3>3. QED
      BY <1>37, <3>1, <3>2 DEF ConnectBack
  <2>2. QED
    BY <1>37, <2>1 DEF ConnectBack, FinalReply, Say, Line, Shapes
<1>38. CASE Serve
  <2>1. net' \in NetRec /\ conn' \in ConnRec
    <3>1. CASE conn' = [conn EXCEPT !.left = @ - 1, !.blocks = @ + 1] /\ UNCHANGED net
      <4>1. conn.left - 1 \in Int /\ conn.blocks + 1 \in Int
        BY DEF Shapes, ConnRec
      <4> QED BY <3>1, <4>1 DEF Shapes, ConnRec
    <3>2. CASE FinalReply("4")
      BY <3>2, FinalShapes
    <3>3. CASE FinalReply("2")
      BY <3>3, FinalShapes
    <3>4. QED
      BY <1>38, <3>1, <3>2, <3>3 DEF Serve
  <2>2. QED
    BY <1>38, <2>1 DEF Serve, FinalReply, Say, Line, Shapes
<1>39. CASE Drop
  <2>1. net' \in NetRec /\ conn' \in ConnRec
    <3>1. PICK k \in 0 .. Len(net.lines), bye \in {<<>>, <<Line("bye", "4", FALSE, FALSE)>>} :
           net' = [net EXCEPT !.up = FALSE, !.cmds = <<>>, !.lines = SubSeq(@, 1, k) \o bye]
      BY <1>39 DEF Drop
    <3>2. SubSeq(net.lines, 1, k) \in Seq(LineRec)
      BY NetParts
    <3>3. bye \in Seq(LineRec)
      <4> DEFINE l == Line("bye", "4", FALSE, FALSE)
      <4>1. l \in LineRec
        BY CmdNames, OtherNames DEF Line, LineRec
      <4>2. bye = <<>> \/ bye = <<l>>
        OBVIOUS
      <4> HIDE DEF l
      <4>3. <<l>> \in Seq(LineRec) /\ <<>> \in Seq(LineRec)
        BY <4>1
      <4> QED BY <4>2, <4>3
    <3> DEFINE ls == SubSeq(net.lines, 1, k) \o bye
    <3>4. ls \in Seq(LineRec)
      BY <3>2, <3>3
    <3>5. net' = [net EXCEPT !.up = FALSE, !.cmds = <<>>, !.lines = ls]
      BY <3>1
    <3>6. net' \in NetRec
      <4>1. <<>> \in Seq(Cmd)
        OBVIOUS
      <4> HIDE DEF ls
      <4> QED BY <3>4, <3>5, <4>1 DEF Shapes, NetRec
    <3>7. conn' \in ConnRec
      <4> DEFINE st == IF conn.st = "pending" THEN "ended"
                               ELSE IF conn.st = "open" THEN "ended" ELSE IF conn.st = "shut" THEN "none" ELSE conn.st
      <4>1. st \in ConnSt
        BY OtherNames DEF Shapes, ConnRec
      <4>2. conn' = [conn EXCEPT !.moving = FALSE, !.st = st]
        BY <1>39 DEF Drop
      <4> HIDE DEF st
      <4> QED BY <4>1, <4>2 DEF Shapes, ConnRec
    <3>8. QED
      BY <3>6, <3>7
  <2>2. QED
    BY <1>39, <2>1 DEF Drop, Line, Shapes
<1>40. CASE UNCHANGED vars
  BY <1>40 DEF vars, Shapes
<1>41. QED
  BY <1>1, <1>2, <1>3, <1>4, <1>5, <1>6, <1>7, <1>8, <1>9, <1>10, <1>11, <1>12, <1>13, <1>14,
      <1>15, <1>16, <1>17, <1>18, <1>19, <1>20, <1>21, <1>22, <1>23, <1>24, <1>25, <1>26,
      <1>27, <1>28, <1>29, <1>30, <1>31, <1>32, <1>33, <1>34, <1>35, <1>36, <1>37, <1>38,
      <1>39, <1>40
     DEF Next, UserCalls, Stages, Returns, DataSteps, Server

(***************************************************************************)
(* Every step keeps what is open at each stage of a call.                  *)
(***************************************************************************)
LEMMA StagesStep == ASSUME Shapes, StagesInv, [Next]_vars PROVE StagesInv'
<1>0. 0 \in Int /\ call \in CallRec /\ ctl \in CtlRec /\ data \in DataRec
  BY DEF Shapes
<1>1. CASE FtpConnect
  BY <1>1, <1>0, Nothing
     DEF FtpConnect, NoCall, StagesInv, Before, Behind, Transfers, CallRec, CtlRec, DataRec
<1>2. CASE FtpOptions
  BY <1>2, <1>0, Nothing
     DEF FtpOptions, Rejects, StagesInv, Before, Behind, Transfers, CallRec, CtlRec, DataRec
<1>3. CASE FtpLogin
  BY <1>3, <1>0, Nothing
     DEF FtpLogin, Rejects, Begin, NoCall, StagesInv, Before, Behind, Transfers, CallRec, CtlRec,
      DataRec
<1>4. CASE FtpQuit
  BY <1>4, <1>0, Nothing
     DEF FtpQuit, Begin, NoCall, StagesInv, Before, Behind, Transfers, CallRec, CtlRec,
      DataRec
<1>5. CASE SimpleCall
  <2>1. PICK c \in DOMAIN Calls, len \in Lengths \cup {0} :
           \/ UNCHANGED <<pc, call, ctl, data>>
           \/ /\ pc = "idle" /\ ctl.st = "open" /\ pc' = "send" /\ UNCHANGED <<ctl, data>>
              /\ call' = [NoCall EXCEPT !.op = Calls[c], !.cmd = c, !.len = len]
    BY <1>5 DEF SimpleCall, Rejects, Begin
  <2>2. CASE UNCHANGED <<pc, call, ctl, data>>
    BY <2>2 DEF StagesInv, Before, Behind
  <2>3. CASE /\ pc = "idle" /\ ctl.st = "open" /\ pc' = "send" /\ UNCHANGED <<ctl, data>>
             /\ call' = [NoCall EXCEPT !.op = Calls[c], !.cmd = c, !.len = len]
    <3>1. c \in Plain \cup {"RNFR", "TYPE"}
      BY CommandsAssumption DEF Calls
    <3>2. (c = "TYPE" => Calls[c] = "FtpSize") /\ Calls[c] # "FtpXfer"
      BY CommandsAssumption DEF Calls, Plain
    <3>3. call'.cmd = c /\ call'.op = Calls[c] /\ call'.file = NoFd
      BY <2>3, Nothing DEF CallRec
    <3>4. c \notin Transfers \cup {"PASV", "PORT", "accept"}
      BY <3>1 DEF Plain, Transfers
    <3>5. ~Before' /\ ~Behind'
      BY <2>3, <3>2, <3>3, <3>4 DEF Before, Behind
    <3>6. QED
      BY <2>3, <3>2, <3>3, <3>5 DEF StagesInv
  <2>4. QED
    BY <2>1, <2>2, <2>3
<1>6. CASE NoPathOrFile
  BY <1>6, <1>0, Nothing
     DEF NoPathOrFile, StagesInv, Before, Behind, Transfers, CallRec, CtlRec, DataRec
<1>7. CASE FtpAccess
  BY <1>7, <1>0, Nothing, CommandsAssumption
     DEF FtpAccess, Access, Begin, NoCall, StagesInv, Before, Behind, Transfers, CallRec,
      CtlRec, DataRec
<1>8. CASE FtpXfer
  <2>1. PICK f \in Fds \cup {NoFd} : Access("FtpXfer", f)
    BY <1>8 DEF FtpXfer
  <2>2. PICK typ \in Types, len \in Lengths :
           call' = [NoCall EXCEPT !.op = "FtpXfer", !.cmd = "TYPE", !.typ = typ, !.len = len, !.file = f]
    BY <2>1 DEF Access, Begin
  <2>3. call'.cmd = "TYPE" /\ call'.op = "FtpXfer" /\ call'.typ \in Transfers
    BY <2>2, Nothing, OtherNames DEF CallRec
  <2>4. pc = "idle" /\ ctl.st = "open" /\ pc' = "send" /\ data.st = "none" /\ UNCHANGED <<ctl, data>>
    BY <1>8, <2>1 DEF FtpXfer, Access, Begin
  <2>5. QED
    BY <2>3, <2>4 DEF StagesInv, Before, Behind, Transfers
<1>9. CASE FtpReadWrite
  BY <1>9, <1>0, Nothing
     DEF FtpReadWrite, Begin, NoCall, StagesInv, Before, Behind, Transfers, CallRec, CtlRec,
      DataRec
<1>10. CASE FtpClose
  BY <1>10, <1>0, Nothing
     DEF FtpClose, Begin, NoCall, StagesInv, Before, Behind, Transfers, CallRec, CtlRec,
      DataRec
<1>11. CASE FtpCloseControl
  BY <1>11, <1>0, Nothing
     DEF FtpCloseControl, Begin, NoCall, ReleaseControl, StagesInv, Before, Behind, Transfers,
      CallRec, CtlRec, DataRec
<1>12. CASE CloseDangling
  BY <1>12, <1>0, Nothing
     DEF CloseDangling, StagesInv, Before, Behind, Transfers, CallRec, CtlRec, DataRec
<1>13. CASE FtpSendCmd
  BY <1>13, <1>0, Nothing
     DEF FtpSendCmd, Got, StagesInv, Before, Behind, Transfers, CallRec, CtlRec, DataRec
<1>14. CASE ReadResp
  <2>1. ctl'.st = ctl.st /\ ctl'.data = ctl.data /\ UNCHANGED data
    BY <1>0, <1>14 DEF ReadResp, ReadLine, CtlRec
  <2>2. /\ pc = "read" /\ pc' \in {"read", "got"} /\ call'.cmd = call.cmd /\ call'.op = call.op
        /\ call'.file = call.file /\ call'.typ = call.typ
    BY <1>0, <1>14 DEF ReadResp, Got, CallRec
  <2>3. QED
    BY <2>1, <2>2 DEF StagesInv, Before, Behind
<1>15. CASE ReadFails
  BY <1>15, <1>0, Nothing
     DEF ReadFails, Got, StagesInv, Before, Behind, Transfers, CallRec, CtlRec, DataRec
<1>16. CASE AfterConnect
  BY <1>16, <1>0, Nothing
     DEF AfterConnect, Return, NoCall, ReleaseControl, StagesInv, Before, Behind, Transfers,
      CallRec, CtlRec, DataRec
<1>17. CASE AfterUser
  BY <1>17, <1>0, Nothing
     DEF AfterUser, Send, Return, NoCall, StagesInv, Before, Behind, Transfers, CallRec,
      CtlRec, DataRec
<1>18. CASE AfterQuit
  BY <1>18, <1>0, Nothing
     DEF AfterQuit, Return, NoCall, ReleaseControl, StagesInv, Before, Behind, Transfers,
      CallRec, CtlRec, DataRec
<1>19. CASE SecondCommand
  <2>1. pc = "got" /\ pc' = "send" /\ UNCHANGED <<ctl, data>>
    BY <1>19 DEF SecondCommand, Send
  <2>2. /\ call.cmd = "RNFR" \/ (call.cmd = "TYPE" /\ call.op = "FtpSize")
        /\ call'.cmd \in {"RNTO", "SIZE"} /\ call'.op = call.op /\ call'.file = call.file
    BY <1>0, <1>19 DEF SecondCommand, Send, CallRec
  <2>3. call.op # "FtpXfer"
    BY <2>1, <2>2 DEF StagesInv, Before, Behind, Transfers
  <2>4. QED
    BY <2>1, <2>2, <2>3 DEF StagesInv, Before, Behind, Transfers
<1>20. CASE AfterCommand
  BY <1>20, <1>0, Nothing, CommandsAssumption
     DEF AfterCommand, Return, NoCall, Plain, StagesInv, Before, Behind, Transfers, CallRec,
      CtlRec, DataRec
<1>21. CASE AfterType
  BY <1>21, <1>0, Nothing
     DEF AfterType, AccessFails, Return, NoCall, Send, StagesInv, Before, Behind, Transfers,
      CallRec, CtlRec, DataRec
<1>22. CASE AfterPasv
  BY <1>22, <1>0, Nothing
     DEF AfterPasv, AccessFails, Return, NoCall, StagesInv, Before, Behind, Transfers,
      CallRec, CtlRec, DataRec
<1>23. CASE AfterPort
  BY <1>23, <1>0, Nothing
     DEF AfterPort, AccessFails, Return, NoCall, MakeData, Send, StagesInv, Before, Behind,
      Transfers, CallRec, CtlRec, DataRec
<1>24. CASE AfterTransfer
  BY <1>24, <1>0, Nothing
     DEF AfterTransfer, Opened, Return, NoCall, StagesInv, Before, Behind, Transfers, CallRec,
      CtlRec, DataRec
<1>25. CASE AfterAccept
  BY <1>25, <1>0, Nothing
     DEF AfterAccept, StagesInv, Before, Behind, Transfers, CallRec, CtlRec, DataRec
<1>26. CASE AfterClose
  BY <1>26, <1>0, Nothing
     DEF AfterClose, Return, NoCall, ReleaseControl, StagesInv, Before, Behind, Transfers,
      CallRec, CtlRec, DataRec
<1>27. CASE OpenFails
  BY <1>27, <1>0, Nothing
     DEF OpenFails, AccessFails, Return, NoCall, StagesInv, Before, Behind, Transfers,
      CallRec, CtlRec, DataRec
<1>28. CASE OpenPort
  <2>1. PICK f \in Fds :
         \/ MakeData(f)
         \/ pc' = "send" /\ call' = [call EXCEPT !.cmd = "PORT", !.fd = f] /\ UNCHANGED <<ctl, data>>
    BY <1>28 DEF OpenPort
  <2>2. pc = "open"
    BY <1>28 DEF OpenPort
  <2>3. CASE MakeData(f)
    BY <1>0, <2>2, <2>3 DEF MakeData, Send, StagesInv, Before, Behind, Transfers, CallRec, CtlRec
  <2>4. CASE pc' = "send" /\ call' = [call EXCEPT !.cmd = "PORT", !.fd = f] /\ UNCHANGED <<ctl, data>>
    BY <1>0, <2>2, <2>4 DEF StagesInv, Before, Behind, Transfers, CallRec
  <2>5. QED
    BY <2>1, <2>3, <2>4
<1>29. CASE Accept
  BY <1>29, <1>0, Nothing
     DEF Accept, Opened, Return, NoCall, StagesInv, Before, Behind, Transfers, CallRec,
      CtlRec, DataRec
<1>30. CASE AcceptFails
  BY <1>30, <1>0, Nothing
     DEF AcceptFails, StagesInv, Before, Behind, Transfers, CallRec, CtlRec, DataRec
<1>31. CASE AcceptRefused
  BY <1>31, <1>0, Nothing
     DEF AcceptRefused, StagesInv, Before, Behind, Transfers, CallRec, CtlRec, DataRec
<1>32. CASE FtpRead
  BY <1>32, <1>0, Nothing
     DEF FtpRead, AfterRead, LoopEnds, Return, NoCall, StagesInv, Before, Behind, Transfers,
      CallRec, CtlRec, DataRec
<1>33. CASE FtpWrite
  BY <1>33, <1>0, Nothing
     DEF FtpWrite, AfterWrite, LoopEnds, Return, NoCall, StagesInv, Before, Behind, Transfers,
      CallRec, CtlRec, DataRec
<1>34. CASE SourceEnds
  BY <1>34, <1>0, Nothing
     DEF SourceEnds, LoopEnds, StagesInv, Before, Behind, Transfers, CallRec, CtlRec, DataRec
<1>35. CASE CloseData
  BY <1>35, <1>0, Nothing
     DEF CloseData, CloseDataAnd, NoData, StagesInv, Before, Behind, Transfers, CallRec,
      CtlRec, DataRec
<1>36. CASE Answer
  BY <1>36 DEF Answer, StagesInv, Before, Behind
<1>37. CASE ConnectBack
  BY <1>37 DEF ConnectBack, StagesInv, Before, Behind
<1>38. CASE Serve
  BY <1>38 DEF Serve, StagesInv, Before, Behind
<1>39. CASE Drop
  BY <1>39 DEF Drop, StagesInv, Before, Behind
<1>40. CASE UNCHANGED vars
  BY <1>40 DEF vars, StagesInv, Before, Behind
<1>41. QED
  BY <1>1, <1>2, <1>3, <1>4, <1>5, <1>6, <1>7, <1>8, <1>9, <1>10, <1>11, <1>12, <1>13, <1>14,
      <1>15, <1>16, <1>17, <1>18, <1>19, <1>20, <1>21, <1>22, <1>23, <1>24, <1>25, <1>26,
      <1>27, <1>28, <1>29, <1>30, <1>31, <1>32, <1>33, <1>34, <1>35, <1>36, <1>37, <1>38,
      <1>39, <1>40
     DEF Next, UserCalls, Stages, Returns, DataSteps, Server

-----------------------------------------------------------------------------
(***************************************************************************)
(* Descriptors that are opened, closed and handed on.                      *)
(***************************************************************************)
With(o, g, v) == [o EXCEPT ![g] = v]
Without(o, f) == [g \in Fds |-> IF g = f THEN "free" ELSE o[g]]
Unused(o, g) == g \in Fds \ {0} /\ o[g] = "free"

LEMMA Opening ==
    ASSUME NEW o \in [Fds -> Owner], NEW c, NEW d, NEW f, NEW g,
           Holds(o, c, d, NoFd, f), Unused(o, g)
    PROVE  /\ c = NoFd => Holds(With(o, g, "ctl"), g, d, NoFd, f)
           /\ d = NoFd => Holds(With(o, g, "data"), c, g, NoFd, f)
           /\ d = NoFd => Holds(With(o, g, "data"), c, NoFd, g, f)
           /\ f = NoFd => Holds(With(o, g, "file"), c, d, NoFd, g)
<1>1. NoFd \notin Fds
  BY BoundsAssumption DEF Fds, NoFd
<1>2. QED
  BY <1>1 DEF Holds, With, Unused

LEMMA Closing ==
    ASSUME NEW o \in [Fds -> Owner], NEW c, NEW d, NEW f, NEW p, Holds(o, c, d, p, f)
    PROVE  /\ c # NoFd => Holds(With(o, c, "free"), NoFd, d, p, f)
           /\ d # NoFd /\ p = NoFd => Holds(With(o, d, "free"), c, NoFd, NoFd, f)
           /\ p # NoFd /\ d = NoFd => Holds(With(o, p, "free"), c, NoFd, NoFd, f)
           /\ Holds(Without(o, f), c, d, p, NoFd)
<1>1. NoFd \notin Fds
  BY BoundsAssumption DEF Fds, NoFd
<1>2. QED
  BY <1>1 DEF Holds, With, Without

LEMMA Handing ==
    ASSUME NEW o, NEW c, NEW p, NEW f, Holds(o, c, NoFd, p, f)
    PROVE  Holds(o, c, p, NoFd, f)
BY DEF Holds

LEMMA OwnTypes ==
    ASSUME NEW o \in [Fds -> Owner], NEW g, NEW v \in Owner
    PROVE  With(o, g, v) \in [Fds -> Owner] /\ Without(o, g) \in [Fds -> Owner]
BY OtherNames DEF With, Without

(***************************************************************************)
(* Every step keeps account of the descriptors.                            *)
(***************************************************************************)
LEMMA DescriptorsStep == ASSUME Shapes, StagesInv, Descriptors, [Next]_vars PROVE Descriptors'
<1>a. 0 \in Int /\ call \in CallRec /\ ctl \in CtlRec /\ data \in DataRec /\ own \in [Fds -> Owner]
  BY DEF Shapes
<1>b. NoFd \notin Fds /\ NoFd # 0 /\ 0 \in Fds
  BY BoundsAssumption DEF Fds, NoFd
<1>c. "PORT" \notin Transfers /\ "accept" \notin Transfers
  BY DEF Transfers
<1>d. ASSUME ReleaseControl, UNCHANGED <<data, slips>>, ctl.st = "open", pc # "close",
             call.cmd \notin {"PORT", "accept"}, call'.cmd \notin {"PORT", "accept"},
             call.file = NoFd, call'.file = NoFd
      PROVE  Descriptors'
  <2> SUFFICES ASSUME own'[0] = "stdin", "leak" \notin slips' PROVE Accounts'
    BY DEF Descriptors
  <2>1. own' = With(own, ctl.fd, "free") /\ own[0] = "stdin"
    BY <1>a, <1>b, <1>d DEF ReleaseControl, Closed, With
  <2>2. ctl'.st # "open"
    BY <1>d, Nothing DEF ReleaseControl, CtlRec
  <2>3. /\ CtlFd = ctl.fd /\ CtlFd' = NoFd /\ DataFd' = DataFd /\ PortFd = NoFd /\ PortFd' = NoFd
    BY <1>d, <2>2 DEF CtlFd, DataFd, PortFd
  <2>4. Holds(own, ctl.fd, DataFd, NoFd, NoFd) /\ ctl.fd # NoFd /\ Known
    BY <1>d, <2>1, <2>3 DEF Descriptors, Accounts, Known
  <2>5. Holds(own', NoFd, DataFd, NoFd, NoFd)
    BY <1>a, <2>1, <2>4, Closing
  <2>6. Known'
    BY <1>d, <2>2, <2>4 DEF Known
  <2>7. QED
    BY <1>d, <2>3, <2>5, <2>6 DEF Accounts
<1>e. ASSUME AccessFails(own), UNCHANGED <<ctl, data>>, "leak" \in slips => "leak" \in slips',
             call.cmd # "accept", pc # "close", call.cmd # "PORT"
      PROVE  Descriptors'
  <2> SUFFICES ASSUME own'[0] = "stdin", "leak" \notin slips' PROVE Accounts'
    BY DEF Descriptors
  <2>1. own' = Without(own, call.file) /\ call' = NoCall /\ own[0] = "stdin"
    BY <1>a, <1>b, <1>e DEF AccessFails, Return, Without
  <2>2. CtlFd' = CtlFd /\ DataFd' = DataFd /\ PortFd = NoFd /\ PortFd' = NoFd
    BY <1>e, <2>1, Nothing DEF CtlFd, DataFd, PortFd
  <2>3. Holds(own, CtlFd, DataFd, PortFd, call.file) /\ Known
    BY <1>e, <2>1 DEF Descriptors, Accounts
  <2>4. Holds(own', CtlFd, DataFd, PortFd, NoFd)
    BY <1>a, <2>1, <2>3, Closing
  <2>5. Known'
    BY <1>e, <2>1, <2>3, Nothing DEF Known
  <2>6. QED
    BY <2>1, <2>2, <2>4, <2>5, Nothing DEF Accounts
<1>f. ASSUME LoopEnds(TRUE) \/ LoopEnds(FALSE), pc = "xfer", ctl'.st = ctl.st,
             ctl'.fd = ctl.fd, UNCHANGED <<data, slips>>
       PROVE  Descriptors'
  <2> SUFFICES ASSUME own'[0] = "stdin", "leak" \notin slips' PROVE Accounts'
    BY DEF Descriptors
  <2>1. /\ own' = Without(own, call.file) /\ own[0] = "stdin" /\ call'.cmd = call.cmd
        /\ call'.fd = call.fd
        /\ call'.file = NoFd
    BY <1>a, <1>b, <1>f DEF LoopEnds, Without, CallRec
  <2>2. Holds(own, CtlFd, DataFd, PortFd, call.file) /\ Known
    BY <1>f, <2>1 DEF Descriptors, Accounts
  <2>3. Holds(own', CtlFd, DataFd, PortFd, NoFd)
    BY <1>a, <2>1, <2>2, Closing
  <2>4. CtlFd' = CtlFd /\ DataFd' = DataFd /\ PortFd' = PortFd /\ Known'
    BY <1>f, <2>1, <2>2 DEF CtlFd, DataFd, PortFd, Known
  <2>5. QED
    BY <2>1, <2>3, <2>4 DEF Accounts
<1>g. ASSUME UNCHANGED <<call, own>> \/ (call' = NoCall /\ call.op = "FtpReadWrite" /\ UNCHANGED own),
              pc = "xfer", ctl'.st = ctl.st, ctl'.fd = ctl.fd, UNCHANGED <<data, slips>>
       PROVE  Descriptors'
  <2>1. call.cmd \notin {"PORT", "accept"}
    BY <1>c, <1>g DEF StagesInv
  <2>2. call'.cmd \notin {"PORT", "accept"} /\ call'.file = call.file
    BY <1>g, <2>1, Nothing DEF StagesInv
  <2>3. QED
    BY <1>g, <2>1, <2>2 DEF Descriptors, Accounts, CtlFd, DataFd, PortFd, Known
<1>1. CASE FtpConnect
  <2> SUFFICES ASSUME own'[0] = "stdin", "leak" \notin slips' PROVE Accounts'
    BY DEF Descriptors
  <2>1. /\ pc = "idle" /\ call = NoCall /\ ctl.st # "open" /\ data.st = "none" /\ UNCHANGED data
        /\ "leak" \notin slips
    BY <1>1 DEF FtpConnect, StagesInv
  <2>2. CASE UNCHANGED <<pc, call, ctl, own>>
    BY <2>1, <2>2 DEF Descriptors, Accounts, CtlFd, DataFd, PortFd, Known
  <2>3. ASSUME NEW f \in Fds, Lowest(f), ctl' = [NoCtl EXCEPT !.st = "open", !.fd = f],
               own' = [own EXCEPT ![f] = "ctl"],
               call' = [NoCall EXCEPT !.op = "FtpConnect", !.cmd = "CONNECT"]
        PROVE  Accounts'
    <3>1. own' = With(own, f, "ctl") /\ Unused(own, f) /\ own[0] = "stdin"
      BY <1>a, <1>b, <2>3 DEF With, Unused, Lowest, Free
    <3>2. ctl'.st = "open" /\ ctl'.fd = f /\ call'.cmd = "CONNECT" /\ call'.file = NoFd
      BY <2>3, Nothing DEF CtlRec, CallRec
    <3>3. CtlFd = NoFd /\ CtlFd' = f /\ DataFd = NoFd /\ DataFd' = NoFd /\ PortFd = NoFd /\ PortFd' = NoFd
      BY <2>1, <3>2, Nothing DEF CtlFd, DataFd, PortFd
    <3>4. Holds(own, NoFd, NoFd, NoFd, NoFd)
      BY <2>1, <3>1, <3>3, Nothing DEF Descriptors, Accounts
    <3>5. Holds(own', f, NoFd, NoFd, NoFd)
      BY <1>a, <3>1, <3>4, Opening
    <3>6. Known'
      BY <1>b, <2>1, <3>2 DEF Known
    <3>7. QED
      BY <3>2, <3>3, <3>5, <3>6 DEF Accounts
  <2>4. QED
    BY <1>1, <2>2, <2>3 DEF FtpConnect
<1>2. CASE FtpOptions
  BY <1>2, <1>a, Nothing
     DEF FtpOptions, Rejects, Descriptors, Accounts, CtlFd, DataFd, PortFd, Known, StagesInv,
         Before, Behind, Transfers, CallRec, CtlRec, DataRec
<1>3. CASE FtpLogin
  <2>1. CASE Rejects("FtpLogin")
    BY <2>1, <1>a
       DEF Rejects, Descriptors, Accounts, CtlFd, DataFd, PortFd, Known, StagesInv, Before, Behind,
           Transfers
  <2>2. CASE ~Rejects("FtpLogin")
    <3>1. /\ Begin("send", [NoCall EXCEPT !.op = "FtpLogin", !.cmd = "USER"])
          /\ UNCHANGED <<ctl, data, own, net>>
      BY <1>3, <2>2 DEF FtpLogin
    <3>2. QED
      BY <3>1, <1>a, Nothing
         DEF Begin, NoCall, Descriptors, Accounts, CtlFd, DataFd, PortFd, Known, StagesInv, Before,
             Behind, Transfers, CallRec, CtlRec, DataRec
  <2>3. QED
    BY <2>1, <2>2
<1>4. CASE FtpQuit
  BY <1>4, <1>a, Nothing
     DEF FtpQuit, Begin, NoCall, Descriptors, Accounts, CtlFd, DataFd, PortFd, Known, StagesInv, Before,
      Behind, Transfers, CallRec, CtlRec, DataRec
<1>5. CASE SimpleCall
  <2>1. PICK c \in DOMAIN Calls, len \in Lengths \cup {0} :
           \/ UNCHANGED <<pc, call>>
           \/ pc = "idle" /\ call' = [NoCall EXCEPT !.op = Calls[c], !.cmd = c, !.len = len]
    BY <1>5 DEF SimpleCall, Rejects, Begin
  <2>2. UNCHANGED <<own, ctl, data>> /\ ("leak" \in slips => "leak" \in slips')
    BY <1>5 DEF SimpleCall, Rejects, Begin
  <2>3. CASE UNCHANGED <<pc, call>>
    BY <2>2, <2>3 DEF Descriptors, Accounts, CtlFd, DataFd, PortFd, Known
  <2>4. CASE pc = "idle" /\ call' = [NoCall EXCEPT !.op = Calls[c], !.cmd = c, !.len = len]
    <3>1. c # "PORT" /\ c # "accept"
      BY CommandsAssumption DEF Calls, Plain
    <3>2. call'.cmd = c /\ call'.file = NoFd /\ call = NoCall
      BY <2>4, Nothing DEF CallRec, StagesInv
    <3>3. QED
      BY <2>2, <2>4, <3>1, <3>2, Nothing DEF Descriptors, Accounts, CtlFd, DataFd, PortFd, Known
  <2>5. QED
    BY <2>1, <2>3, <2>4
<1>6. CASE NoPathOrFile
  BY <1>6, <1>a, Nothing
     DEF NoPathOrFile, Descriptors, Accounts, CtlFd, DataFd, PortFd, Known, StagesInv, Before, Behind,
      Transfers, CallRec, CtlRec, DataRec
<1>7. CASE FtpAccess
  BY <1>7, <1>a, Nothing
     DEF FtpAccess, Access, Begin, NoCall, Descriptors, Accounts, CtlFd, DataFd, PortFd, Known,
      StagesInv, Before, Behind, Transfers, CallRec, CtlRec, DataRec
<1>8. CASE FtpXfer
  <2> SUFFICES ASSUME own'[0] = "stdin", "leak" \notin slips' PROVE Accounts'
    BY DEF Descriptors
  <2>1. PICK f \in Fds \cup {NoFd} :
           /\ Access("FtpXfer", f)
           /\ \/ UNCHANGED own /\ f = NoFd
              \/ Lowest(f) /\ f \in Fds /\ own' = [own EXCEPT ![f] = "file"]
    BY <1>8 DEF FtpXfer
  <2>2. /\ pc = "idle" /\ ctl.st = "open" /\ pc' = "send" /\ data.st = "none"
        /\ UNCHANGED <<ctl, data>>
        /\ "leak" \notin slips /\ call = NoCall
    BY <1>8, <2>1 DEF FtpXfer, Access, Begin, StagesInv
  <2>3. PICK typ \in Types, len \in Lengths :
           call' = [NoCall EXCEPT !.op = "FtpXfer", !.cmd = "TYPE", !.typ = typ, !.len = len, !.file = f]
    BY <2>1 DEF Access, Begin
  <2>4. call'.cmd = "TYPE" /\ call'.file = f
    BY <2>3, Nothing DEF CallRec
  <2>5. CtlFd' = CtlFd /\ DataFd = NoFd /\ DataFd' = NoFd /\ PortFd = NoFd /\ PortFd' = NoFd
    BY <2>2, <2>4, Nothing DEF CtlFd, DataFd, PortFd
  <2>6. own[0] = "stdin"
    BY <1>a, <1>b, <2>1
  <2>7. Holds(own, CtlFd, NoFd, NoFd, NoFd) /\ Known
    BY <2>2, <2>5, <2>6, Nothing DEF Descriptors, Accounts
  <2>8. CASE UNCHANGED own /\ f = NoFd
    BY <2>2, <2>4, <2>5, <2>7, <2>8 DEF Known, Accounts
  <2>9. CASE Lowest(f) /\ f \in Fds /\ own' = [own EXCEPT ![f] = "file"]
    <3>1. own' = With(own, f, "file") /\ Unused(own, f)
      BY <1>a, <1>b, <2>6, <2>9 DEF With, Unused, Lowest, Free
    <3>2. Holds(own', CtlFd, NoFd, NoFd, f)
      BY <1>a, <2>7, <3>1, Opening
    <3>3. QED
      BY <2>2, <2>4, <2>5, <2>7, <3>2 DEF Known, Accounts
  <2>10. QED
    BY <2>1, <2>8, <2>9
<1>9. CASE FtpReadWrite
  BY <1>9, <1>a, Nothing
     DEF FtpReadWrite, Begin, NoCall, Descriptors, Accounts, CtlFd, DataFd, PortFd, Known, StagesInv,
      Before, Behind, Transfers, CallRec, CtlRec, DataRec
<1>10. CASE FtpClose
  BY <1>10, <1>a, Nothing
     DEF FtpClose, Begin, NoCall, Descriptors, Accounts, CtlFd, DataFd, PortFd, Known, StagesInv,
      Before, Behind, Transfers, CallRec, CtlRec, DataRec
<1>11. CASE FtpCloseControl
  <2>1. CASE /\ ReleaseControl /\ pc = "idle" /\ ctl.st = "open"
             /\ UNCHANGED <<pc, call, slips, data>>
    <3>1. call = NoCall
      BY <2>1 DEF StagesInv
    <3>2. QED
      BY <1>d, <2>1, <3>1, Nothing
  <2>2. CASE Begin("close", [NoCall EXCEPT !.op = "FtpCloseControl"]) /\ UNCHANGED <<ctl, own, net>>
    BY <1>a, <1>11, <2>2, Nothing DEF FtpCloseControl, Begin, Descriptors, Accounts, CtlFd, DataFd, PortFd, Known, StagesInv, CallRec
  <2>3. QED
    BY <1>11, <2>1, <2>2 DEF FtpCloseControl

<1>12. CASE CloseDangling
  BY <1>12, <1>a, Nothing
     DEF CloseDangling, Descriptors, Accounts, CtlFd, DataFd, PortFd, Known, StagesInv, Before, Behind,
      Transfers, CallRec, CtlRec, DataRec
<1>13. CASE FtpSendCmd
  BY <1>13, <1>a, Nothing
     DEF FtpSendCmd, Got, Descriptors, Accounts, CtlFd, DataFd, PortFd, Known, StagesInv, Before,
      Behind, Transfers, CallRec, CtlRec, DataRec
<1>14. CASE ReadResp
  <2>1. ctl'.st = ctl.st /\ ctl'.fd = ctl.fd
    BY <1>a, <1>14 DEF ReadResp, ReadLine, CtlRec
  <2>2. /\ UNCHANGED <<own, data>> /\ ("leak" \in slips => "leak" \in slips')
        /\ pc = "read" /\ call'.cmd = call.cmd /\ call'.fd = call.fd /\ call'.file = call.file
    BY <1>a, <1>14 DEF ReadResp, ReadLine, Got, CallRec
  <2>3. QED
    BY <2>1, <2>2 DEF Descriptors, Accounts, CtlFd, DataFd, PortFd, Known
<1>15. CASE ReadFails
  BY <1>15, <1>a, Nothing
     DEF ReadFails, Got, Descriptors, Accounts, CtlFd, DataFd, PortFd, Known, StagesInv, Before, Behind,
      Transfers, CallRec, CtlRec, DataRec
<1>16. CASE AfterConnect \/ AfterQuit
  <2>1. /\ pc = "got" /\ call.cmd \in {"CONNECT", "QUIT"} /\ UNCHANGED <<data, slips>>
        /\ call' = NoCall
        /\ ctl.st = "open"
    BY <1>16 DEF AfterConnect, AfterQuit, Return, StagesInv
  <2>2. call.file = NoFd
    BY <2>1 DEF StagesInv, Before, Behind, Transfers
  <2>3. CASE ReleaseControl
    BY <1>d, <2>1, <2>2, <2>3, Nothing
  <2>4. CASE UNCHANGED <<ctl, own>>
    BY <2>1, <2>2, <2>4, Nothing DEF Descriptors, Accounts, CtlFd, DataFd, PortFd, Known
  <2>5. QED
    BY <1>16, <2>3, <2>4 DEF AfterConnect, AfterQuit
<1>17. CASE AfterUser
  BY <1>17, <1>a, Nothing
     DEF AfterUser, Send, Return, NoCall, Descriptors, Accounts, CtlFd, DataFd, PortFd, Known,
      StagesInv, Before, Behind, Transfers, CallRec, CtlRec, DataRec
<1>18. CASE SecondCommand
  BY <1>18, <1>a, Nothing
     DEF SecondCommand, Send, Descriptors, Accounts, CtlFd, DataFd, PortFd, Known, StagesInv, Before,
      Behind, Transfers, CallRec, CtlRec, DataRec
<1>19. CASE AfterCommand
  <2>1. call.cmd \in Plain \cup {"PASS", "RNTO", "SIZE", "RNFR"} \/ (call.cmd = "TYPE" /\ call.op = "FtpSize")
    <3>1. Commands \subseteq Plain
      BY CommandsAssumption
    <3>2. \/ call.cmd \in Commands \cup {"PASS", "RNTO", "SIZE"}
          \/ call.cmd = "RNFR"
          \/ call.cmd = "TYPE" /\ call.op = "FtpSize"
      BY <1>19 DEF AfterCommand
    <3>3. CASE call.cmd \in Commands
      BY <3>1, <3>3
    <3>4. QED
      BY <3>2, <3>3
  <2>2. call.op # "FtpXfer" /\ call.cmd # "PORT" /\ call.cmd # "accept" /\ pc = "got"
    BY <1>19, <2>1 DEF StagesInv, Before, Behind, Plain, Transfers, AfterCommand
  <2>3. UNCHANGED <<own, ctl, data, slips>> /\ call' = NoCall
    BY <1>19 DEF AfterCommand, Return
  <2>4. QED
    BY <2>2, <2>3, Nothing DEF Descriptors, Accounts, CtlFd, DataFd, PortFd, Known, StagesInv
<1>20. CASE AfterType \/ AfterPasv
  <2>1. pc = "got" /\ call.cmd \in {"TYPE", "PASV"} /\ UNCHANGED <<ctl, data, slips>>
    BY <1>20 DEF AfterType, AfterPasv
  <2>2. CASE AccessFails(own)
    BY <1>e, <2>1, <2>2
  <2>3. CASE UNCHANGED own /\ (Send("PASV") \/ UNCHANGED call)
    BY <1>a, <2>1, <2>3 DEF Descriptors, Accounts, CtlFd, DataFd, PortFd, Known, Send, CallRec
  <2>4. QED
    BY <1>20, <2>2, <2>3 DEF AfterType, AfterPasv
<1>21. CASE AfterPort
  <2> SUFFICES ASSUME own'[0] = "stdin", "leak" \notin slips' PROVE Accounts'
    BY DEF Descriptors
  <2>1. pc = "got" /\ call.cmd = "PORT" /\ data.st = "none" /\ UNCHANGED slips /\ call.typ \in Transfers
    BY <1>21 DEF AfterPort, StagesInv, Before
  <2>2. DataFd = NoFd /\ PortFd = call.fd
    BY <2>1 DEF DataFd, PortFd
  <2>3. CASE AccessFails(Closed(call.fd)) /\ UNCHANGED <<ctl, data>>
    <3>1. own' = Without(With(own, call.fd, "free"), call.file) /\ call' = NoCall /\ own[0] = "stdin"
      BY <1>a, <1>b, <2>3 DEF AccessFails, Return, Without, With, Closed
    <3>2. Holds(own, CtlFd, NoFd, call.fd, call.file) /\ Known /\ call.fd # NoFd
      BY <2>1, <2>2, <3>1 DEF Descriptors, Accounts, Known
    <3>3. Holds(With(own, call.fd, "free"), CtlFd, NoFd, NoFd, call.file)
      BY <1>a, <3>2, Closing
    <3>4. Holds(own', CtlFd, NoFd, NoFd, NoFd)
      BY <1>a, <3>1, <3>3, Closing, OwnTypes, OtherNames
    <3>5. CtlFd' = CtlFd /\ DataFd' = NoFd /\ PortFd' = NoFd /\ call'.file = NoFd /\ Known'
      BY <2>1, <2>3, <3>1, <3>2, Nothing DEF CtlFd, DataFd, PortFd, Known
    <3>6. QED
      BY <3>4, <3>5 DEF Accounts
  <2>4. CASE MakeData(call.fd) /\ UNCHANGED own
    <3>1. Holds(own, CtlFd, NoFd, call.fd, call.file) /\ Known /\ call.fd # NoFd /\ own[0] = "stdin"
      BY <2>1, <2>2, <2>4 DEF Descriptors, Accounts, Known
    <3>2. Holds(own', CtlFd, call.fd, NoFd, call.file) /\ call.fd # 0
      BY <2>4, <3>1, Handing DEF Holds
    <3>3. /\ ctl'.st = ctl.st /\ ctl'.fd = ctl.fd /\ data'.st = "open" /\ data'.fd = call.fd
          /\ call'.cmd = call.typ /\ call'.file = call.file /\ call'.cmd \notin {"PORT", "accept"}
      BY <1>a, <2>1, <2>4 DEF MakeData, Send, CallRec, CtlRec, Transfers
    <3>4. CtlFd' = CtlFd /\ DataFd' = call.fd /\ PortFd' = NoFd /\ Known'
      BY <3>1, <3>2, <3>3 DEF CtlFd, DataFd, PortFd, Known
    <3>5. QED
      BY <3>2, <3>3, <3>4 DEF Accounts
  <2>5. QED
    BY <1>21, <2>3, <2>4 DEF AfterPort
<1>22. CASE AfterTransfer
  BY <1>22, <1>a, Nothing
     DEF AfterTransfer, Opened, Return, NoCall, Descriptors, Accounts, CtlFd, DataFd, PortFd, Known,
      StagesInv, Before, Behind, Transfers, CallRec, CtlRec, DataRec
<1>23. CASE AfterAccept
  BY <1>23, <1>a, Nothing
     DEF AfterAccept, Descriptors, Accounts, CtlFd, DataFd, PortFd, Known, StagesInv, Before, Behind,
      Transfers, CallRec, CtlRec, DataRec
<1>24. CASE AfterClose
  <2>1. /\ pc = "got" /\ call.cmd = "close" /\ ctl.st = "open" /\ UNCHANGED <<data, slips>>
        /\ call' = NoCall
    BY <1>24 DEF AfterClose, Return, StagesInv
  <2>2. CASE call.op = "FtpClose"
    BY <1>24, <2>1, <2>2, Nothing DEF AfterClose, StagesInv, Descriptors, Accounts, CtlFd, DataFd, PortFd, Known
  <2>3. CASE call.op = "FtpCloseControl"
    <3>1. ReleaseControl /\ call.file = NoFd
      BY <1>24, <2>3 DEF AfterClose, StagesInv
    <3>2. QED
      BY <1>d, <2>1, <3>1, Nothing
  <2>4. CASE call.op \notin {"FtpClose", "FtpCloseControl"}
    <3> SUFFICES ASSUME own'[0] = "stdin", "leak" \notin slips' PROVE Accounts'
      BY DEF Descriptors
    <3>1. own' = Without(own, call.file) /\ UNCHANGED ctl /\ own[0] = "stdin"
      BY <1>a, <1>b, <1>24, <2>4 DEF AfterClose, Without
    <3>2. Holds(own, CtlFd, DataFd, PortFd, call.file) /\ Known
      BY <2>1, <3>1 DEF Descriptors, Accounts
    <3>3. Holds(own', CtlFd, DataFd, PortFd, NoFd)
      BY <1>a, <3>1, <3>2, Closing
    <3>4. CtlFd' = CtlFd /\ DataFd' = DataFd /\ PortFd = NoFd /\ PortFd' = NoFd /\ Known'
      BY <2>1, <3>1, <3>2, Nothing DEF CtlFd, DataFd, PortFd, Known
    <3>5. QED
      BY <2>1, <3>3, <3>4, Nothing DEF Accounts
  <2>5. QED
    BY <2>2, <2>3, <2>4
<1>25. CASE OpenFails
  <2>1. CASE AccessFails(own) /\ UNCHANGED slips
    <3>1. pc = "open" /\ call.cmd \in {"TYPE", "PASV"} /\ UNCHANGED <<ctl, data>>
      BY <1>25 DEF OpenFails, StagesInv
    <3>2. QED
      BY <1>e, <2>1, <3>1
  <2>2. CASE slips' = slips \cup {"leak"}
    BY <2>2 DEF Descriptors, Accounts
  <2>3. QED
    BY <1>25, <2>1, <2>2 DEF OpenFails
<1>26. CASE OpenPort
  <2> SUFFICES ASSUME own'[0] = "stdin", "leak" \notin slips' PROVE Accounts'
    BY DEF Descriptors
  <2>1. /\ pc = "open" /\ call.cmd \in {"TYPE", "PASV"} /\ data.st = "none" /\ UNCHANGED slips
        /\ call.typ \in Transfers
    BY <1>26 DEF OpenPort, StagesInv, Before
  <2>2. PICK f \in Fds :
         /\ Lowest(f) /\ own' = [own EXCEPT ![f] = "data"]
         /\ \/ MakeData(f)
            \/ call' = [call EXCEPT !.cmd = "PORT", !.fd = f] /\ UNCHANGED <<ctl, data>>
    BY <1>26 DEF OpenPort
  <2>3. own' = With(own, f, "data") /\ Unused(own, f) /\ own[0] = "stdin"
    BY <1>a, <1>b, <2>2 DEF With, Unused, Lowest, Free
  <2>4. DataFd = NoFd /\ PortFd = NoFd
    BY <2>1 DEF DataFd, PortFd
  <2>5. Holds(own, CtlFd, NoFd, NoFd, call.file) /\ Known
    BY <2>1, <2>3, <2>4 DEF Descriptors, Accounts
  <2>6. Holds(own', CtlFd, f, NoFd, call.file) /\ Holds(own', CtlFd, NoFd, f, call.file)
    BY <1>a, <2>3, <2>5, Opening
  <2>7. f # 0 /\ f # NoFd
    BY <1>b, <2>3 DEF Unused
  <2>8. CASE MakeData(f)
    <3>3. /\ ctl'.st = ctl.st /\ ctl'.fd = ctl.fd /\ data'.st = "open" /\ data'.fd = f
          /\ call'.cmd = call.typ /\ call'.file = call.file /\ call'.cmd \notin {"PORT", "accept"}
      BY <1>a, <2>1, <2>8 DEF MakeData, Send, CallRec, CtlRec, Transfers
    <3>4. CtlFd' = CtlFd /\ DataFd' = f /\ PortFd' = NoFd /\ Known'
      BY <2>5, <2>7, <3>3 DEF CtlFd, DataFd, PortFd, Known
    <3>5. QED
      BY <2>6, <3>3, <3>4 DEF Accounts
  <2>9. CASE call' = [call EXCEPT !.cmd = "PORT", !.fd = f] /\ UNCHANGED <<ctl, data>>
    <3>1. call'.cmd = "PORT" /\ call'.fd = f /\ call'.file = call.file
      BY <1>a, <2>9 DEF CallRec
    <3>2. CtlFd' = CtlFd /\ DataFd' = NoFd /\ PortFd' = f /\ Known'
      BY <2>1, <2>5, <2>7, <2>9, <3>1 DEF CtlFd, DataFd, PortFd, Known
    <3>3. QED
      BY <2>6, <3>1, <3>2 DEF Accounts
  <2>10. QED
    BY <2>2, <2>8, <2>9
<1>27. CASE Accept
  <2> SUFFICES ASSUME own'[0] = "stdin", "leak" \notin slips' PROVE Accounts'
    BY DEF Descriptors
  <2>1. /\ pc = "accept" /\ call.cmd \notin {"PORT", "accept"} /\ data.st = "open"
        /\ UNCHANGED <<ctl, slips>>
    BY <1>c, <1>27 DEF Accept, StagesInv, Behind
  <2>2. PICK f \in Fds \ {0} : /\ Lowest(f)
                               /\ own' = [Closed(data.fd) EXCEPT ![f] = "data"]
                               /\ data' = [data EXCEPT !.fd = f]
    BY <1>27 DEF Accept
  <2>3. own' = With(With(own, data.fd, "free"), f, "data") /\ own[0] = "stdin"
    BY <1>a, <1>b, <2>2 DEF With, Closed
  <2>4. own[f] = "free" /\ f # 0 /\ f # NoFd
    BY <1>b, <2>2 DEF Lowest, Free
  <2>5. Holds(own, CtlFd, DataFd, PortFd, call.file) /\ Known
    BY <2>1, <2>3 DEF Descriptors, Accounts
  <2>6. data.fd # 0 /\ data.fd # NoFd /\ DataFd = data.fd /\ PortFd = NoFd
    BY <2>1, <2>5 DEF Known, DataFd, PortFd
  <2>7. Holds(With(own, data.fd, "free"), CtlFd, NoFd, NoFd, call.file)
    BY <1>a, <2>5, <2>6, Closing
  <2>8. Unused(With(own, data.fd, "free"), f) /\ With(own, data.fd, "free") \in [Fds -> Owner]
    BY <1>a, <2>4, OtherNames DEF With, Unused
  <2>9. Holds(own', CtlFd, f, NoFd, call.file)
    BY <2>3, <2>7, <2>8, Opening
  <2>10. data'.st = "open" /\ data'.fd = f
    BY <1>a, <2>1, <2>2 DEF DataRec
  <2>11. /\ call'.cmd \notin {"PORT", "accept"} /\ call'.file = call.file
    BY <1>27, <2>1, Nothing DEF Accept, Opened, Return, StagesInv
  <2>12. CtlFd' = CtlFd /\ DataFd' = f /\ PortFd' = NoFd /\ Known'
    BY <2>1, <2>4, <2>5, <2>10, <2>11 DEF CtlFd, DataFd, PortFd, Known
  <2>13. QED
    BY <2>9, <2>11, <2>12 DEF Accounts
<1>28. CASE AcceptFails \/ AcceptRefused
  <2> SUFFICES ASSUME own'[0] = "stdin", "leak" \notin slips' PROVE Accounts'
    BY DEF Descriptors
  <2>1. /\ pc = "accept" /\ call.cmd \notin {"PORT", "accept"} /\ data.st = "open"
        /\ UNCHANGED slips
    BY <1>c, <1>28 DEF AcceptFails, AcceptRefused, StagesInv, Behind
  <2>2. own' = With(own, data.fd, "free") /\ own[0] = "stdin"
    BY <1>a, <1>b, <1>28 DEF AcceptFails, AcceptRefused, With, Closed
  <2>3. Holds(own, CtlFd, DataFd, PortFd, call.file) /\ Known
    BY <2>1, <2>2 DEF Descriptors, Accounts
  <2>4. data.fd # 0 /\ data.fd # NoFd /\ DataFd = data.fd /\ PortFd = NoFd
    BY <2>1, <2>3 DEF Known, DataFd, PortFd
  <2>5. Holds(own', CtlFd, NoFd, NoFd, call.file)
    BY <1>a, <2>2, <2>3, <2>4, Closing
  <2>6. /\ data'.st = "open" /\ data'.fd = 0 /\ ctl'.st = ctl.st /\ ctl'.fd = ctl.fd
    BY <1>a, <1>28, <2>1 DEF AcceptFails, AcceptRefused, CtlRec, DataRec
  <2>7. /\ call'.cmd # "PORT" /\ call'.file = call.file /\ (pc' = "close" \/ call'.cmd = "accept")
    BY <1>a, <1>28, <2>1 DEF AcceptFails, AcceptRefused, CallRec
  <2>8. CtlFd' = CtlFd /\ DataFd' = NoFd /\ PortFd' = NoFd /\ Known'
    BY <1>b, <2>3, <2>6, <2>7 DEF CtlFd, DataFd, PortFd, Known
  <2>9. QED
    BY <2>5, <2>7, <2>8 DEF Accounts
<1>29. CASE FtpRead \/ FtpWrite \/ SourceEnds
  <2>1. pc = "xfer" /\ ctl'.st = ctl.st /\ ctl'.fd = ctl.fd /\ UNCHANGED <<data, slips>>
    BY <1>a, <1>29 DEF FtpRead, FtpWrite, SourceEnds, CtlRec
  <2>2. \/ LoopEnds(TRUE) \/ LoopEnds(FALSE)
        \/ UNCHANGED <<call, own>>
        \/ (call' = NoCall /\ call.op = "FtpReadWrite" /\ UNCHANGED own)
    BY <1>29 DEF FtpRead, FtpWrite, SourceEnds, AfterRead, AfterWrite, Return
  <2>3. CASE LoopEnds(TRUE) \/ LoopEnds(FALSE)
    BY <1>f, <2>1, <2>3
  <2>4. CASE UNCHANGED <<call, own>> \/ (call' = NoCall /\ call.op = "FtpReadWrite" /\ UNCHANGED own)
    BY <1>g, <2>1, <2>4
  <2>5. QED
    BY <2>2, <2>3, <2>4
<1>30. CASE CloseData
  <2> SUFFICES ASSUME own'[0] = "stdin", "leak" \notin slips' PROVE Accounts'
    BY DEF Descriptors
  <2>1. /\ pc = "close" /\ ctl.st = "open" /\ data.st = "open" /\ UNCHANGED slips
        /\ data' = NoData /\ call.cmd # "PORT"
    BY <1>30 DEF CloseData, CloseDataAnd, StagesInv, Behind, Before
  <2>2. own' = With(own, data.fd, "free") /\ own[0] = "stdin" /\ data.fd # 0
    BY <1>a, <1>b, <1>30 DEF CloseData, CloseDataAnd, With, Closed
  <2>3. Holds(own, CtlFd, DataFd, PortFd, call.file) /\ Known
    BY <2>1, <2>2 DEF Descriptors, Accounts
  <2>4. data.fd # NoFd /\ DataFd = data.fd /\ PortFd = NoFd
    BY <2>1, <2>2, <2>3 DEF Known, DataFd, PortFd
  <2>5. Holds(own', CtlFd, NoFd, NoFd, call.file)
    BY <1>a, <2>2, <2>3, <2>4, Closing
  <2>6. /\ data'.st = "none" /\ ctl'.st = ctl.st /\ ctl'.fd = ctl.fd /\ call'.cmd = "close"
        /\ call'.file = call.file
    BY <1>a, <1>30, <2>1, Nothing DEF CloseData, CloseDataAnd, CtlRec, CallRec
  <2>7. CtlFd' = CtlFd /\ DataFd' = NoFd /\ PortFd' = NoFd /\ Known'
    BY <2>3, <2>6 DEF CtlFd, DataFd, PortFd, Known
  <2>8. QED
    BY <2>5, <2>6, <2>7 DEF Accounts
<1>31. CASE Answer
  BY <1>31 DEF Answer, Descriptors, Accounts, CtlFd, DataFd, PortFd, Known
<1>32. CASE ConnectBack
  BY <1>32 DEF ConnectBack, Descriptors, Accounts, CtlFd, DataFd, PortFd, Known
<1>33. CASE Serve
  BY <1>33 DEF Serve, Descriptors, Accounts, CtlFd, DataFd, PortFd, Known
<1>34. CASE Drop
  BY <1>34 DEF Drop, Descriptors, Accounts, CtlFd, DataFd, PortFd, Known
<1>35. CASE UNCHANGED vars
  BY <1>35 DEF vars, Descriptors, Accounts, CtlFd, DataFd, PortFd, Known
<1>36. QED
  BY <1>1, <1>2, <1>3, <1>4, <1>5, <1>6, <1>7, <1>8, <1>9, <1>10, <1>11, <1>12, <1>13, <1>14,
      <1>15, <1>16, <1>17, <1>18, <1>19, <1>20, <1>21, <1>22, <1>23, <1>24, <1>25, <1>26,
      <1>27, <1>28, <1>29, <1>30, <1>31, <1>32, <1>33, <1>34, <1>35
     DEF Next, UserCalls, Stages, Returns, DataSteps, Server

-----------------------------------------------------------------------------
LEMMA Inductive == Spec => []IInv
<1>1. IInv /\ [Next]_vars => IInv'
  BY ShapesStep, StagesStep, DescriptorsStep DEF IInv
<1>2. QED
  BY InitInv, <1>1, PTL DEF Spec

\* Every variable keeps its type: a mode the library knows, a descriptor the
\* process can have, a first digit of a reply or the library's own text in the
\* response (NetBuf, ftplib.h).
THEOREM TypeCorrect == Spec => []TypeOK
<1>1. Shapes => TypeOK
  <2> SUFFICES ASSUME Shapes PROVE TypeOK
    OBVIOUS
  <2>1. /\ ret.val \in BOOLEAN /\ ctl.st \in CtlSt /\ ctl.data \in BOOLEAN /\ ctl.cmode \in Mode
        /\ ctl.fd \in Fd /\ ctl.resp \in Resp /\ data.st \in DataSt /\ data.fd \in Fd
        /\ conn.st \in ConnSt
    BY DEF Shapes, RetRec, CtlRec, DataRec, ConnRec
  <2>2. ctl.resp \in {"", "1", "2", "3", "4", "5", "x", "text"}
    BY <2>1 DEF Resp, Code
  <2>3. slips \subseteq {"mixed", "long", "length", "leak"}
    BY DEF Shapes, Slip
  <2>4. QED
    BY <2>1, <2>2, <2>3 DEF TypeOK, Shapes, Pcs, CtlSt, Mode, Fd, DataSt, Owner, ConnSt
<1>2. QED
  BY Inductive, <1>1, PTL DEF IInv

\* The control connection knows its data connection (ftplib.c:830, 1059): between
\* two calls it points to one exactly when the client has one open, whatever the
\* server answered and whichever call failed halfway.
THEOREM DataLinked == Spec => []Linked
<1>1. StagesInv => Linked
  BY DEF StagesInv, Linked
<1>2. QED
  BY Inductive, <1>1, PTL DEF IInv

\* Each netbuf holds a descriptor of its own between two calls, and nothing else
\* is left open (FtpOpenPort, FtpAcceptConnection, FtpXfer, FtpClose), as long as
\* no failed accept has closed descriptor 0 and no getsockname failed.
THEOREM DescriptorsOwned == Spec => []OwnDescriptors
<1>1. IInv => OwnDescriptors
  <2> SUFFICES ASSUME IInv, own[0] = "stdin", "leak" \notin slips, pc = "idle"
               PROVE  Held = {<<f, own[f]>> : f \in Fds \ (Free \cup {0})}
    BY DEF OwnDescriptors
  <2>1. call = NoCall
    BY DEF IInv, StagesInv
  <2>2. Holds(own, CtlFd, DataFd, PortFd, call.file) /\ Known
    BY DEF IInv, Descriptors, Accounts
  <2>3. PortFd = NoFd /\ call.file = NoFd /\ (data.st = "open" => data.fd # 0)
    BY <2>1, <2>2, Nothing DEF PortFd, Known
  <2>4. /\ ctl.st = "open" => CtlFd = ctl.fd /\ CtlFd # NoFd
        /\ ctl.st # "open" => CtlFd = NoFd
        /\ data.st = "open" => DataFd = data.fd /\ DataFd # NoFd
        /\ data.st # "open" => DataFd = NoFd
    BY <2>2, <2>3 DEF CtlFd, DataFd, Known
  <2>5. ASSUME NEW x \in Held PROVE \E f \in Fds \ (Free \cup {0}) : x = <<f, own[f]>>
    <3>1. CASE ctl.st = "open" /\ x = <<ctl.fd, "ctl">>
      <4>1. ctl.fd \in Fds \ {0} /\ own[ctl.fd] = "ctl"
        BY <2>2, <2>4, <3>1 DEF Holds
      <4>2. QED
        BY <3>1, <4>1 DEF Free
    <3>2. CASE data.st = "open" /\ x = <<data.fd, "data">>
      <4>1. data.fd \in Fds \ {0} /\ own[data.fd] = "data"
        BY <2>2, <2>4, <3>2 DEF Holds
      <4>2. QED
        BY <3>2, <4>1 DEF Free
    <3>3. QED
      BY <2>5, <3>1, <3>2 DEF Held
  <2>6. ASSUME NEW f \in Fds \ (Free \cup {0}) PROVE <<f, own[f]>> \in Held
    <3>1. NoFd \notin Fds
      BY BoundsAssumption DEF Fds, NoFd
    <3>2. (own[f] = "ctl" /\ f = CtlFd) \/ (own[f] = "data" /\ f = DataFd)
      BY <2>2, <2>3, <2>6, <3>1 DEF Holds, Free
    <3>3. QED
      BY <2>4, <3>1, <3>2 DEF Held
  <2>7. QED
    BY <2>5, <2>6
<1>2. QED
  BY Inductive, <1>1, PTL
=============================================================================
