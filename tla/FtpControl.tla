----------------------------- MODULE FtpControl -----------------------------
(***************************************************************************)
(* The control flow of the FTP client library (src/common/ftplib): the     *)
(* calls of one client, the replies they read from the control connection, *)
(* the data connection of a transfer and the descriptors behind both.      *)
(*                                                                         *)
(* A call goes through stages: pc = "send" and "read" are FtpSendCmd and   *)
(* readresp, "got" is the return from either, and the other stages belong  *)
(* to FtpOpenPort, FtpAcceptConnection, FtpXfer and FtpClose.  A reply     *)
(* line is its first digit and whether the reply goes on.  The server and  *)
(* the kernel are external: commands are answered in order, a transfer     *)
(* command that gets a '1' gets one final reply when the transfer is over, *)
(* and the control connection may break at any time.                       *)
(***************************************************************************)
EXTENDS Integers, Sequences, FiniteSets

CONSTANTS
    Commands,     \* commands of the calls that send one and expect a '2'
    Types,        \* kinds of transfer the client makes
    Lengths,      \* lengths of path arguments, 0 for none
    Options,      \* pairs of connection mode and callback that the client sets
    NumFds,       \* how many descriptors the process can have
    MaxBlocks,    \* blocks of data in one transfer
    MaxConnects,  \* connections the client makes one after the other
    Wordy,        \* commands whose reply may take two lines
    Long          \* commands whose reply may be longer than the buffer

VARIABLES
    pc,      \* the stage of the call under way, "idle" between calls
    call,    \* its parameters and locals
    ret,     \* what the last call returned
    ctl,     \* the netbuf of the control connection
    data,    \* the netbuf of the data connection
    own,     \* what each descriptor of the process stands for
    net,     \* the control connection, as the server sees it
    conn,    \* the data connection, as the server sees it
    slips    \* history: how the client got out of step with the server: commands
             \* "mixed" with a transfer, a reply too "long", a transfer command
             \* of the one "length" FtpAccess lets pass and FtpSendCmd does not;
             \* and a descriptor that getsockname made "leak"

vars == <<pc, call, ret, ctl, data, own, net, conn, slips>>

Transfers == {"LIST", "RETR", "STOR"}
Plain == {"CWD", "PWD", "SITE", "SYST", "CDUP", "MKD", "RMD", "DELE", "MDTM"}
WithPath == (Plain \ {"PWD", "SYST", "CDUP"}) \cup Transfers \cup {"SIZE", "RNFR", "RNTO"}

ASSUME CommandsAssumption == Commands \subseteq Plain /\ Types \subseteq Transfers
ASSUME LengthsAssumption == Lengths \subseteq Nat
ASSUME OptionsAssumption == Options \subseteq {"passive", "port"} \X BOOLEAN
ASSUME BoundsAssumption ==
    NumFds \in Nat \ {0} /\ MaxBlocks \in Nat /\ MaxConnects \in Nat

TMP_BUFSIZ == 1024
Fds == 0 .. NumFds - 1
NoFd == NumFds
Errors == {"4", "5"}

NoCall == [op |-> "none", cmd |-> "none", ok |-> FALSE, rv |-> FALSE,
           typ |-> "none", len |-> 0, fd |-> NoFd, file |-> NoFd]
NoRet == [op |-> "none", val |-> FALSE]
NoCtl == [st |-> "none", fd |-> NoFd, data |-> FALSE, cmode |-> "passive",
          cb |-> FALSE, resp |-> ""]
NoData == [st |-> "none", fd |-> NoFd, typ |-> "none", cb |-> FALSE]
NoConn == [st |-> "none", typ |-> "none", moving |-> FALSE, blocks |-> 0,
           left |-> 0, final |-> "none", lost |-> FALSE]

Init ==
    /\ pc = "idle" /\ call = NoCall /\ ret = NoRet
    /\ ctl = NoCtl /\ data = NoData
    /\ own = [f \in Fds |-> IF f = 0 THEN "stdin" ELSE "free"]
    /\ net = [up |-> FALSE, cmds |-> <<>>, lines |-> <<>>, user |-> FALSE, n |-> 0]
    /\ conn = NoConn
    /\ slips = {}

-----------------------------------------------------------------------------
(***************************************************************************)
(* Descriptors: the kernel hands out the lowest free one.                  *)
(***************************************************************************)
Free == {f \in Fds : own[f] = "free"}
Lowest(f) == f \in Free /\ \A g \in Free : f <= g
Closed(f) == [own EXCEPT ![f] = "free"]

\* The control connection after the descriptors became o: gone when its own
\* descriptor was closed.
Severed == [net EXCEPT !.up = FALSE, !.cmds = <<>>, !.lines = <<>>]
NetAfter(o) == IF ctl.st = "open" /\ o[ctl.fd] # "ctl" THEN Severed ELSE net

-----------------------------------------------------------------------------
(***************************************************************************)
(* Stages every call is made of.                                           *)
(***************************************************************************)
Return(v) == pc' = "idle" /\ call' = NoCall /\ ret' = [op |-> call.op, val |-> v]

Send(c) == pc' = "send" /\ call' = [call EXCEPT !.cmd = c] /\ UNCHANGED ret

Got(v) == pc' = "got" /\ call' = [call EXCEPT !.ok = v] /\ UNCHANGED ret

\* A call that the client makes.  Commands sent while a data connection is
\* open get their replies mixed up with the one of the transfer; after a slip
\* the client is followed no further than to the end of the connection.
Begin(stage, c) ==
    /\ pc = "idle" /\ ctl.st = "open"
    /\ slips = {} \/ c.op \in {"FtpQuit", "FtpClose", "FtpCloseControl"}
    /\ pc' = stage /\ call' = c /\ ret' = NoRet
    /\ conn' = IF data.st = "none" /\ ~conn.moving THEN NoConn ELSE conn
    /\ slips' = IF data.st = "open" /\ stage = "send" THEN slips \cup {"mixed"} ELSE slips

\* A call that does not like its arguments returns 0 at once.
Rejects(op) ==
    /\ pc = "idle" /\ ctl.st = "open" /\ slips = {}
    /\ ret' = [op |-> op, val |-> FALSE]
    /\ UNCHANGED <<pc, call, ctl, data, own, net, conn, slips>>

Expected(c) ==
    CASE c \in Transfers -> "1"
      [] c \in {"USER", "RNFR"} -> "3"
      [] OTHER -> "2"

VerbLen(c) == IF c \in {"CWD", "MKD", "RMD"} THEN 3 ELSE 4
CmdLen(c, len) == IF c \in WithPath /\ len > 0 THEN VerbLen(c) + 1 + len ELSE VerbLen(c)

\* The check of the callers: one byte more generous than that of FtpSendCmd,
\* which counts the blank behind the verb.
TooLong(c, len) == c \in WithPath /\ VerbLen(c) + len + 3 > TMP_BUFSIZ

\* FtpSendCmd up to readresp.
FtpSendCmd ==
    /\ pc = "send"
    /\ \/ /\ CmdLen(call.cmd, call.len) + 3 > TMP_BUFSIZ
          /\ Got(FALSE)
          /\ slips' = IF call.cmd \in Transfers THEN slips \cup {"length"} ELSE slips
          /\ UNCHANGED net
       \/ /\ CmdLen(call.cmd, call.len) + 3 <= TMP_BUFSIZ
          /\ IF net.up
             THEN /\ pc' = "read" /\ UNCHANGED <<call, ret>>
                  /\ net' = [net EXCEPT !.cmds = Append(@, call.cmd)]
             ELSE Got(FALSE) /\ UNCHANGED net
          /\ UNCHANGED slips
    /\ UNCHANGED <<ctl, data, own, conn>>

\* readline on the control connection: the first digit of a line that fits;
\* a line that does not is wiped, and its rest stays to be read.  One that fills
\* the buffer to the last byte (ftplib.c:247) counts as one that fits here: that
\* its terminating 0 is put one byte behind the buffer is left out.
ReadLine(l) ==
    /\ ctl' = [ctl EXCEPT !.resp = IF l.long THEN "" ELSE l.code]
    /\ slips' = IF l.long THEN slips \cup {"long"} ELSE slips
    /\ \E rest \in {"2", "x"} :
         net' = [net EXCEPT !.lines =
                   IF l.long THEN <<[l EXCEPT !.code = rest, !.long = FALSE]>> \o Tail(@)
                             ELSE Tail(@)]

\* Plausible bug: the first line is taken for the whole reply.
ReadRespLine ==
    /\ pc = "read" /\ net.lines # <<>>
    /\ ReadLine(Head(net.lines))
    /\ Got(ctl'.resp = Expected(call.cmd))
    /\ UNCHANGED <<data, own, conn>>

\* readresp: lines up to the last one of a reply...
ReadResp ==
    /\ pc = "read" /\ net.lines # <<>>
    /\ ReadLine(Head(net.lines))
    /\ IF Head(net.lines).more THEN UNCHANGED <<pc, call, ret>>
                               ELSE Got(ctl'.resp = Expected(call.cmd))
    /\ UNCHANGED <<data, own, conn>>

\* ... or the end of the connection, which leaves the response of before.
ReadFails ==
    /\ pc = "read" /\ net.lines = <<>> /\ ~net.up
    /\ Got(FALSE)
    /\ UNCHANGED <<ctl, data, own, net, conn, slips>>

-----------------------------------------------------------------------------
(***************************************************************************)
(* Opening and closing the control connection, logging in, options.        *)
(***************************************************************************)
FtpConnect ==
    /\ pc = "idle" /\ ctl.st # "open" /\ data.st = "none" /\ net.n < MaxConnects
    /\ \/ /\ ret' = [op |-> "FtpConnect", val |-> FALSE]
          /\ UNCHANGED <<pc, call, ctl, own, net, conn>>
       \/ /\ \E f \in Fds : /\ Lowest(f)
                            /\ ctl' = [NoCtl EXCEPT !.st = "open", !.fd = f]
                            /\ own' = [own EXCEPT ![f] = "ctl"]
          /\ net' = [up |-> TRUE, cmds |-> <<"CONNECT">>, lines |-> <<>>,
                     user |-> FALSE, n |-> net.n + 1]
          /\ conn' = NoConn
          /\ pc' = "read" /\ ret' = NoRet
          /\ call' = [NoCall EXCEPT !.op = "FtpConnect", !.cmd = "CONNECT"]
    /\ slips' = slips \cap {"leak"}
    /\ UNCHANGED data

\* The control connection is closed and its netbuf freed; a data connection
\* that is still open keeps a pointer to it.
ReleaseControl ==
    /\ own' = Closed(ctl.fd)
    /\ ctl' = [NoCtl EXCEPT !.st = IF data.st = "open" THEN "freed" ELSE "none"]
    /\ net' = Severed

AfterConnect ==
    /\ pc = "got" /\ call.cmd = "CONNECT"
    /\ Return(call.ok)
    /\ IF call.ok THEN UNCHANGED <<ctl, own, net>> ELSE ReleaseControl
    /\ UNCHANGED <<data, conn, slips>>

\* Plausible bug: any value is taken for a connection mode.
FtpOptionsUnchecked ==
    /\ pc = "idle" /\ ctl.st = "open" /\ slips = {}
    /\ ctl' = [ctl EXCEPT !.cmode = "none"]
    /\ ret' = [op |-> "FtpOptions", val |-> TRUE]
    /\ UNCHANGED <<pc, call, data, own, net, conn, slips>>

\* A connection mode or a callback is set; a mode or an option that there is not
\* is rejected.
FtpOptions ==
    \/ /\ pc = "idle" /\ ctl.st = "open" /\ slips = {}
       /\ \E o \in Options : ctl' = [ctl EXCEPT !.cmode = o[1], !.cb = o[2]]
       /\ ret' = [op |-> "FtpOptions", val |-> TRUE]
       /\ UNCHANGED <<pc, call, data, own, net, conn, slips>>
    \/ Rejects("FtpOptions")

\* USER is sent, unless user or password do not fit into tempbuf.
FtpLogin ==
    \/ /\ Begin("send", [NoCall EXCEPT !.op = "FtpLogin", !.cmd = "USER"])
       /\ UNCHANGED <<ctl, data, own, net>>
    \/ Rejects("FtpLogin")

\* Plausible bug: only a '4' keeps the user out.
AfterUserRefused ==
    /\ pc = "got" /\ call.cmd = "USER"
    /\ IF call.ok THEN Send("PASS") ELSE Return(ctl.resp # "4")
    /\ UNCHANGED <<ctl, data, own, net, conn, slips>>

\* USER was not answered with a '3': a '2' in the response is enough.
AfterUser ==
    /\ pc = "got" /\ call.cmd = "USER"
    /\ IF call.ok THEN Send("PASS") ELSE Return(ctl.resp = "2")
    /\ UNCHANGED <<ctl, data, own, net, conn, slips>>

FtpQuit ==
    /\ Begin("send", [NoCall EXCEPT !.op = "FtpQuit", !.cmd = "QUIT"])
    /\ UNCHANGED <<ctl, data, own, net>>

AfterQuit ==
    /\ pc = "got" /\ call.cmd = "QUIT"
    /\ Return(TRUE)
    /\ ReleaseControl
    /\ UNCHANGED <<data, conn, slips>>

-----------------------------------------------------------------------------
(***************************************************************************)
(* Calls that consist of commands.                                         *)
(***************************************************************************)
\* FtpSite, FtpSysType, FtpMkdir, FtpChdir, FtpCDUp, FtpRmdir, FtpPwd,
\* FtpModDate and FtpDelete send one command; FtpRename and FtpSize two.
Calls == [c \in Commands \cup {"RNFR", "TYPE"} |->
             CASE c = "RNFR" -> "FtpRename" [] c = "TYPE" -> "FtpSize" [] OTHER -> c]

PathCommand(c) == IF c = "TYPE" THEN "SIZE" ELSE c

SimpleCall ==
    /\ \E c \in DOMAIN Calls, len \in Lengths \cup {0} :
         /\ len > 0 <=> PathCommand(c) \in WithPath
         /\ IF TooLong(PathCommand(c), len) THEN Rejects(Calls[c])
            ELSE /\ Begin("send", [NoCall EXCEPT !.op = Calls[c], !.cmd = c, !.len = len])
                 /\ UNCHANGED <<ctl, data, own, net>>

\* The second command of FtpRename, whose path has a length of its own, and
\* of FtpSize...
SecondCommand ==
    /\ pc = "got" /\ call.ok
    /\ \/ /\ call.cmd = "RNFR"
          /\ \E len \in Lengths : /\ len > 0 /\ ~TooLong("RNTO", len)
                                /\ call' = [call EXCEPT !.cmd = "RNTO", !.len = len]
          /\ pc' = "send" /\ UNCHANGED ret
       \/ call.cmd = "TYPE" /\ call.op = "FtpSize" /\ Send("SIZE")
    /\ UNCHANGED <<ctl, data, own, net, conn, slips>>

\* ... and the end of a call: the reply to PWD or SIZE may be unreadable.
AfterCommand ==
    /\ pc = "got"
    /\ \/ call.cmd \in Commands \cup {"PASS", "RNTO", "SIZE"}
       \/ ~call.ok /\ call.cmd = "RNFR"
       \/ ~call.ok /\ call.cmd = "TYPE" /\ call.op = "FtpSize"
    /\ \E parsed \in IF call.cmd \in {"PWD", "SIZE"} THEN BOOLEAN ELSE {TRUE} :
         Return(call.ok /\ parsed)
    /\ UNCHANGED <<ctl, data, own, net, conn, slips>>

-----------------------------------------------------------------------------
(***************************************************************************)
(* Opening a data connection: FtpAccess, on its own or from FtpXfer, which *)
(* opens a local file first.                                               *)
(***************************************************************************)
\* A transfer needs a path; FtpXfer also fails when the local file does.
NoPathOrFile ==
    /\ pc = "idle" /\ ctl.st = "open" /\ slips = {}
    /\ ctl' = [ctl EXCEPT !.resp = "text"]
    /\ \E op \in {"FtpAccess", "FtpXfer"} : ret' = [op |-> op, val |-> FALSE]
    /\ UNCHANGED <<pc, call, data, own, net, conn, slips>>

Access(op, file) ==
    \E typ \in Types, len \in Lengths :
        /\ len > 0 \/ typ = "LIST"
        /\ Begin("send", [NoCall EXCEPT !.op = op, !.cmd = "TYPE", !.typ = typ,
                                       !.len = len, !.file = file])

FtpAccess ==
    /\ data.st = "none"
    /\ Access("FtpAccess", NoFd)
    /\ UNCHANGED <<ctl, data, own, net>>

\* FtpGet, FtpPut, FtpNlst and FtpDir, from and to a local file or not.
FtpXfer ==
    /\ data.st = "none"
    /\ \/ Access("FtpXfer", NoFd) /\ UNCHANGED own
       \/ \E f \in Fds : /\ Lowest(f)
                         /\ Access("FtpXfer", f)
                         /\ own' = [own EXCEPT ![f] = "file"]
    /\ UNCHANGED <<ctl, data, net>>

\* FtpAccess has failed, and FtpXfer with it; o are the descriptors by then.
AccessFails(o) ==
    /\ Return(FALSE)
    /\ own' = [f \in Fds |-> IF f = call.file THEN "free" ELSE o[f]]

AfterType ==
    /\ pc = "got" /\ call.cmd = "TYPE" /\ call.op # "FtpSize"
    /\ IF ~call.ok \/ TooLong(call.typ, call.len) THEN AccessFails(own)
       ELSE /\ UNCHANGED own
            /\ \/ ctl.cmode = "passive" /\ Send("PASV")
               \/ ctl.cmode = "port" /\ pc' = "open" /\ UNCHANGED <<call, ret>>
    /\ UNCHANGED <<ctl, data, net, conn, slips>>

\* FtpOpenPort, passive: the reply to PASV may have no address in it.
AfterPasv ==
    /\ pc = "got" /\ call.cmd = "PASV"
    /\ \/ AccessFails(own)
       \/ call.ok /\ pc' = "open" /\ UNCHANGED <<call, ret, own>>
    /\ UNCHANGED <<ctl, data, net, conn, slips>>

\* The netbuf of the data connection, and the transfer command.
MakeData(fd) ==
    /\ data' = [st |-> "open", fd |-> fd, typ |-> call.typ, cb |-> ctl.cb]
    /\ ctl' = [ctl EXCEPT !.data = TRUE]
    /\ Send(call.typ)

\* socket, setsockopt, connect, bind, listen, calloc: what fails closes the
\* socket, but for getsockname.
OpenFails ==
    /\ pc = "open"
    /\ \/ AccessFails(own) /\ UNCHANGED slips
       \/ /\ ctl.cmode = "port" /\ "leak" \notin slips
          /\ \E f \in Fds : Lowest(f) /\ AccessFails([own EXCEPT ![f] = "lost"])
          /\ slips' = slips \cup {"leak"}
    /\ UNCHANGED <<ctl, data, net, conn>>

OpenPort ==
    /\ pc = "open"
    /\ \E f \in Fds :
         /\ Lowest(f)
         /\ own' = [own EXCEPT ![f] = "data"]
         /\ \/ /\ ctl.cmode = "passive"
               /\ MakeData(f)
               /\ conn' = [NoConn EXCEPT !.st = "open", !.typ = call.typ]
            \/ /\ ctl.cmode = "port"
               /\ pc' = "send"
               /\ call' = [call EXCEPT !.cmd = "PORT", !.fd = f]
               /\ conn' = [NoConn EXCEPT !.st = "listening", !.typ = call.typ]
               /\ UNCHANGED <<ret, ctl, data>>
    /\ UNCHANGED <<net, slips>>

\* Plausible bug: the socket stays open when PORT is refused.
AfterPortKeeps ==
    /\ pc = "got" /\ call.cmd = "PORT"
    /\ IF call.ok THEN MakeData(call.fd) /\ UNCHANGED <<own, conn>>
                  ELSE AccessFails(own) /\ conn' = NoConn /\ UNCHANGED <<ctl, data>>
    /\ UNCHANGED <<net, slips>>

AfterPort ==
    /\ pc = "got" /\ call.cmd = "PORT"
    /\ \/ /\ AccessFails(Closed(call.fd))
          /\ conn' = NoConn
          /\ UNCHANGED <<ctl, data>>
       \/ call.ok /\ MakeData(call.fd) /\ UNCHANGED <<own, conn>>
    /\ UNCHANGED <<net, slips>>

\* FtpAccess returns 1, or FtpXfer goes on.
Opened ==
    \/ call.op = "FtpAccess" /\ Return(TRUE)
    \/ call.op = "FtpXfer" /\ pc' = "xfer" /\ UNCHANGED <<call, ret>>

AfterTransfer ==
    /\ pc = "got" /\ call.cmd \in Transfers
    /\ IF ~call.ok THEN pc' = "close" /\ UNCHANGED <<call, ret>>
       ELSE \/ ctl.cmode = "port" /\ pc' = "accept" /\ UNCHANGED <<call, ret>>
            \/ ctl.cmode = "passive" /\ Opened
    /\ UNCHANGED <<ctl, data, own, net, conn, slips>>

\* FtpAcceptConnection: the listening descriptor is closed in any case, and
\* without a connection the handle of the netbuf becomes 0.
Accept ==
    /\ pc = "accept" /\ conn.st \in {"pending", "ended"}
    /\ \E f \in Fds \ {0} : /\ Lowest(f)
                           /\ own' = [Closed(data.fd) EXCEPT ![f] = "data"]
                           /\ data' = [data EXCEPT !.fd = f]
    /\ conn' = [conn EXCEPT !.st = IF @ = "pending" THEN "open" ELSE @]
    /\ Opened
    /\ UNCHANGED <<ctl, net, slips>>

\* select or accept fails, or nothing happens for ACCEPT_TIMEOUT seconds; so
\* does an accept that returns descriptor 0.
AcceptFails ==
    /\ pc = "accept"
    /\ own' = IF own[0] = "free" /\ conn.st \in {"pending", "ended"}
              THEN [Closed(data.fd) EXCEPT ![0] = "data"] ELSE Closed(data.fd)
    /\ data' = [data EXCEPT !.fd = 0]
    /\ ctl' = [ctl EXCEPT !.resp = "text"]
    /\ pc' = "close"
    /\ UNCHANGED <<call, ret, net, conn, slips>>

\* The server answers, or hangs up, and does not connect.
AcceptRefused ==
    /\ pc = "accept" /\ conn.st \notin {"pending", "ended"}
    /\ net.lines # <<>> \/ ~net.up
    /\ own' = Closed(data.fd)
    /\ data' = [data EXCEPT !.fd = 0]
    /\ pc' = "read" /\ call' = [call EXCEPT !.cmd = "accept"]
    /\ UNCHANGED <<ret, ctl, net, conn, slips>>

AfterAccept ==
    /\ pc = "got" /\ call.cmd = "accept"
    /\ pc' = "close"
    /\ UNCHANGED <<call, ret, ctl, data, own, net, conn, slips>>

-----------------------------------------------------------------------------
(***************************************************************************)
(* Moving data: FtpRead and FtpWrite, called by the client or by the loop  *)
(* of FtpXfer, which then closes the local file and the data connection.   *)
(* v is TRUE when more than 0 bytes were moved.                            *)
(***************************************************************************)
FtpReadWrite ==
    /\ data.st = "open" /\ (data.typ = "STOR" => conn.left > 0)
    /\ Begin("xfer", [NoCall EXCEPT !.op = "FtpReadWrite"])
    /\ UNCHANGED <<ctl, data, own, net>>

LoopEnds(v) ==
    /\ pc' = "close" /\ UNCHANGED ret
    /\ call' = [call EXCEPT !.rv = v, !.file = NoFd]
    /\ own' = [f \in Fds |-> IF f = call.file THEN "free" ELSE own[f]]

\* What the caller of FtpRead makes of its result: to FtpXfer a 0 is the end
\* of the data, and writing what came to the local file may fail.
AfterRead(v) ==
    \/ call.op = "FtpReadWrite" /\ Return(v) /\ UNCHANGED own
    \/ call.op = "FtpXfer" /\ v /\ UNCHANGED <<pc, call, ret, own>>
    \/ call.op = "FtpXfer" /\ v /\ LoopEnds(FALSE)
    \/ call.op = "FtpXfer" /\ ~v /\ LoopEnds(TRUE)

AfterWrite(v) ==
    \/ call.op = "FtpReadWrite" /\ Return(v) /\ UNCHANGED own
    \/ call.op = "FtpXfer" /\ v /\ UNCHANGED <<pc, call, ret, own>>
    \/ call.op = "FtpXfer" /\ ~v /\ LoopEnds(FALSE)

\* socket_wait lets the callback end a read or write that has to wait.
WaitStops == data.cb

\* FtpRead: a block, the end or a broken connection, or the callback says 0,
\* before a block is read or with it in hand; socket_wait may also fail and
\* leave its text in the response.
FtpRead ==
    /\ pc = "xfer" /\ data.typ # "STOR"
    /\ \/ /\ conn.blocks > 0
          /\ conn' = [conn EXCEPT !.blocks = @ - 1]
          /\ AfterRead(TRUE) /\ UNCHANGED ctl
       \/ /\ conn.blocks = 0 /\ conn.st = "ended"
          /\ AfterRead(FALSE) /\ UNCHANGED <<ctl, conn>>
       \/ /\ WaitStops
          /\ \E read \in 0 .. 1 : /\ read <= conn.blocks
                                 /\ conn' = [conn EXCEPT !.blocks = @ - read, !.lost = TRUE]
          /\ AfterRead(FALSE)
          /\ ctl' \in {ctl, [ctl EXCEPT !.resp = "text"]}
    /\ UNCHANGED <<data, net, slips>>

\* writeline and net_write: a block is lost for a server that has closed, and
\* when the callback stops a flush.
WriteBlock(lost) ==
    /\ lost => WaitStops \/ conn.st = "ended"
    /\ conn' = [conn EXCEPT !.left = @ - 1, !.lost = @ \/ lost]

\* FtpWrite: a lost block may come back as written, when the flush was the
\* last one or the kernel took it, or as cut short.
FtpWrite ==
    /\ pc = "xfer" /\ data.typ = "STOR" /\ conn.left > 0
    /\ \E lost \in BOOLEAN :
         /\ WriteBlock(lost)
         /\ AfterWrite(TRUE) \/ (lost /\ AfterWrite(FALSE))
    /\ UNCHANGED <<ctl, data, net, slips>>

\* The local file is at its end.
SourceEnds ==
    /\ pc = "xfer" /\ data.typ = "STOR" /\ conn.left = 0
    /\ LoopEnds(TRUE)
    /\ UNCHANGED <<ctl, data, net, conn, slips>>

-----------------------------------------------------------------------------
(***************************************************************************)
(* FtpClose.                                                               *)
(***************************************************************************)
FtpClose ==
    /\ data.st = "open"
    /\ Begin("close", [NoCall EXCEPT !.op = "FtpClose"])
    /\ UNCHANGED <<ctl, data, own, net>>

\* With the control connection as argument it closes the data connection too.
FtpCloseControl ==
    /\ UNCHANGED data
    /\ \/ /\ ctl.data
          /\ Begin("close", [NoCall EXCEPT !.op = "FtpCloseControl"])
          /\ UNCHANGED <<ctl, own, net>>
       \/ /\ pc = "idle" /\ ctl.st = "open" /\ ~ctl.data
          /\ ret' = [op |-> "FtpCloseControl", val |-> FALSE]
          /\ ReleaseControl
          /\ UNCHANGED <<pc, call, conn, slips>>

\* A data connection is closed, and the final reply is read or not.
CloseDataAnd(reads, linked) ==
    /\ pc = "close" /\ ctl.st = "open"
    /\ own' = Closed(data.fd)
    /\ net' = NetAfter(own')
    /\ data' = NoData
    /\ ctl' = [ctl EXCEPT !.data = linked]
    /\ conn' = [conn EXCEPT !.st = IF conn.moving THEN "shut" ELSE "none", !.blocks = 0]
    /\ pc' = IF reads THEN "read" ELSE "got"
    /\ call' = [call EXCEPT !.cmd = "close", !.ok = ~reads]
    /\ UNCHANGED <<ret, slips>>

\* Plausible bugs: the reply is always read, or never, or the control
\* connection keeps its pointer to the data connection.
CloseDataReads == CloseDataAnd(TRUE, FALSE)
CloseDataQuick == CloseDataAnd(FALSE, FALSE)
CloseDataLinked == CloseDataAnd(ctl.resp \notin Errors, TRUE)

\* There is no final reply when the response says why there was no transfer.
CloseData == CloseDataAnd(ctl.resp \notin Errors, FALSE)

AfterClose ==
    /\ pc = "got" /\ call.cmd = "close"
    /\ CASE call.op = "FtpClose" -> Return(call.ok) /\ UNCHANGED <<ctl, own, net>>
         [] call.op = "FtpCloseControl" -> Return(FALSE) /\ ReleaseControl
         [] OTHER -> /\ Return(call.rv)
                     /\ own' = [f \in Fds |-> IF f = call.file THEN "free" ELSE own[f]]
                     /\ UNCHANGED <<ctl, net>>
    /\ UNCHANGED <<data, conn, slips>>

\* After FtpQuit the netbuf of an open data connection points to freed memory:
\* what FtpClose does then is undefined, and the behaviour ends.
CloseDangling ==
    /\ pc = "idle" /\ ctl.st = "freed" /\ data.st = "open"
    /\ pc' = "undefined"
    /\ UNCHANGED <<call, ret, ctl, data, own, net, conn, slips>>

-----------------------------------------------------------------------------
(***************************************************************************)
(* The server and the network.                                             *)
(***************************************************************************)
Line(of, code, more, long) == [of |-> of, code |-> code, more |-> more, long |-> long]
Say(ls) == IF net.up THEN net.lines \o ls ELSE net.lines

Codes(c) ==
    CASE c = "USER" -> {"2", "3", "5"}
      [] c = "RNFR" -> {"3", "5"}
      [] c \in Transfers -> {"1", "4", "5"}
      [] OTHER -> {"2", "5"}

Answer ==
    /\ net.cmds # <<>>
    /\ LET c == Head(net.cmds) IN
       \E code \in Codes(c), more, long \in BOOLEAN, blocks \in 0 .. MaxBlocks :
         /\ more => c \in Wordy
         /\ long => c \in Long
         /\ net' = [net EXCEPT
              !.cmds = Tail(@),
              !.lines = (IF more THEN Append(@, Line(c, code, TRUE, FALSE)) ELSE @)
                        \o <<Line(c, code, FALSE, long)>>,
              !.user = @ \/ (c \in {"USER", "PASS"} /\ code = "2")]
         /\ IF c \in Transfers /\ code = "1"
            THEN conn' = [conn EXCEPT !.moving = TRUE, !.left = blocks]
            ELSE blocks = 0 /\ UNCHANGED conn
    /\ UNCHANGED <<pc, call, ret, ctl, data, own, slips>>

\* The final reply, and the end of the data connection on the server's side.
FinalReply(code) ==
    /\ net' = [net EXCEPT !.lines = Say(<<Line("final", code, FALSE, FALSE)>>)]
    /\ conn' = [conn EXCEPT !.moving = FALSE, !.final = code,
                  !.st = CASE @ \in {"open", "pending"} -> "ended"
                           [] @ = "shut" -> "none"
                           [] OTHER -> @]

\* With the port mode the server connects to the client, or cannot.
ConnectBack ==
    /\ conn.moving
    /\ \/ conn.st = "listening" /\ conn' = [conn EXCEPT !.st = "pending"] /\ UNCHANGED net
       \/ conn.st \in {"listening", "none"} /\ FinalReply("4")
    /\ UNCHANGED <<pc, call, ret, ctl, data, own, slips>>

\* The server sends a block, or finishes: with a '2' when it has sent all, or
\* when the client has closed behind what it stored.
Serve ==
    /\ conn.moving /\ conn.st \in {"pending", "open", "shut"}
    /\ \/ /\ conn.typ # "STOR" /\ conn.left > 0 /\ conn.st # "shut"
          /\ conn' = [conn EXCEPT !.left = @ - 1, !.blocks = @ + 1]
          /\ UNCHANGED net
       \/ FinalReply("4")
       \/ /\ IF conn.typ = "STOR" THEN conn.st = "shut" ELSE conn.left = 0
          /\ FinalReply("2")
    /\ UNCHANGED <<pc, call, ret, ctl, data, own, slips>>

\* The control connection breaks: what was under way is lost, from some point
\* on, perhaps after a parting 421.  It is not followed after a slip.
Drop ==
    /\ net.up /\ slips = {}
    /\ \E k \in 0 .. Len(net.lines), bye \in {<<>>, <<Line("bye", "4", FALSE, FALSE)>>} :
         net' = [net EXCEPT !.up = FALSE, !.cmds = <<>>, !.lines = SubSeq(@, 1, k) \o bye]
    /\ conn' = [conn EXCEPT !.moving = FALSE, !.st = IF @ = "pending" THEN "ended"
                             ELSE IF @ = "open" THEN "ended" ELSE IF @ = "shut" THEN "none" ELSE @]
    /\ UNCHANGED <<pc, call, ret, ctl, data, own, slips>>

-----------------------------------------------------------------------------
Stages == FtpSendCmd \/ ReadResp \/ ReadFails
Returns ==
    \/ AfterConnect \/ AfterUser \/ AfterQuit \/ SecondCommand \/ AfterCommand
    \/ AfterType \/ AfterPasv \/ AfterPort \/ AfterTransfer \/ AfterAccept \/ AfterClose
DataSteps ==
    \/ OpenFails \/ OpenPort \/ Accept \/ AcceptFails \/ AcceptRefused
    \/ FtpRead \/ FtpWrite \/ SourceEnds \/ CloseData
UserCalls ==
    \/ FtpConnect \/ FtpOptions \/ FtpLogin \/ FtpQuit \/ SimpleCall \/ NoPathOrFile
    \/ FtpAccess \/ FtpXfer \/ FtpReadWrite \/ FtpClose \/ FtpCloseControl \/ CloseDangling
Server == Answer \/ ConnectBack \/ Serve

Next == UserCalls \/ Stages \/ Returns \/ DataSteps \/ Server \/ Drop

Spec == Init /\ [][Next]_vars

(***************************************************************************)
(* A call keeps running, and a server answers what it is asked and brings  *)
(* a transfer to an end.  Nothing makes the client call, or the network    *)
(* break.                                                                  *)
(***************************************************************************)
FairSpec == Spec /\ WF_vars(Stages \/ Returns \/ DataSteps) /\ WF_vars(Server)

-----------------------------------------------------------------------------
(***************************************************************************)
(* Properties.                                                             *)
(***************************************************************************)
TypeOK ==
    /\ pc \in {"idle", "send", "read", "got", "open", "accept", "xfer", "close", "undefined"}
    /\ ret.val \in BOOLEAN
    /\ ctl.st \in {"none", "open", "freed"} /\ ctl.data \in BOOLEAN
    /\ ctl.cmode \in {"passive", "port"} /\ ctl.fd \in Fds \cup {NoFd}
    /\ ctl.resp \in {"", "1", "2", "3", "4", "5", "x", "text"}
    /\ data.st \in {"none", "open"} /\ data.fd \in Fds \cup {NoFd}
    /\ own \in [Fds -> {"free", "stdin", "ctl", "data", "file", "lost"}]
    /\ conn.st \in {"none", "listening", "pending", "open", "shut", "ended"}
    /\ slips \subseteq {"mixed", "long", "length", "leak"}

InStep == slips \subseteq {"leak"}

\* Replies stay in step with commands (FtpSendCmd, FtpClose): a reply that is
\* read is the one to the command that waits for it, and between calls exactly
\* the final reply of an open data connection is still to come.
Pending ==
    Len(net.cmds) + (IF conn.moving THEN 1 ELSE 0)
        + Cardinality({i \in DOMAIN net.lines : ~net.lines[i].more})

Replies(c) == IF c \in {"close", "accept"} THEN {"final"} ELSE {c}

RepliesMatch ==
    InStep =>
        /\ pc = "read" /\ net.lines # <<>> =>
               Head(net.lines).of \in Replies(call.cmd) \cup {"bye"}
        /\ pc = "idle" /\ net.up => Pending = IF data.st = "open" THEN 1 ELSE 0

\* FtpLogin returns 1 only when the server let the user in, or the connection
\* is gone (ftplib.c:667-674).
LoginHonest ==
    pc = "idle" /\ ret = [op |-> "FtpLogin", val |-> TRUE] /\ InStep => net.user \/ ~net.up

\* FtpClose of a data connection returns 1 only when the server has confirmed
\* the transfer (ftplib.c:1060-1064).
CloseHonest ==
    pc = "idle" /\ ret = [op |-> "FtpClose", val |-> TRUE] /\ InStep => conn.final = "2"

\* Each netbuf holds a descriptor of its own and nothing else is left open, as
\* long as no failed accept has closed descriptor 0 and no getsockname failed.
Held ==
    (IF ctl.st = "open" THEN {<<ctl.fd, "ctl">>} ELSE {})
        \cup (IF data.st = "open" THEN {<<data.fd, "data">>} ELSE {})

OwnDescriptors ==
    own[0] = "stdin" /\ "leak" \notin slips /\ pc = "idle" =>
        Held = {<<f, own[f]>> : f \in Fds \ (Free \cup {0})}

\* The control connection knows its data connection (ftplib.c:830, 1059): it
\* closes what is open, once, and never what the client has closed.
Linked == pc = "idle" /\ ctl.st = "open" => (ctl.data <=> data.st = "open")

\* Every call of a client that is in step with the server returns: it never
\* waits for a reply, a block or a connection that nobody owes it.
CallsReturn == pc # "idle" /\ InStep ~> pc \in {"idle", "undefined"} \/ ~InStep

-----------------------------------------------------------------------------
(***************************************************************************)
(* What comments of ftplib.c say and the code does not do.                 *)
(***************************************************************************)
\* "return 1 if logged in, 0 otherwise" (ftplib.c:657).
LoginMeansLoggedIn ==
    pc = "idle" /\ ret = [op |-> "FtpLogin", val |-> TRUE] /\ InStep => net.user

\* "return 1 if successful, 0 otherwise" (ftplib.c:1206).
TransferMeansDone ==
    pc = "idle" /\ ret = [op |-> "FtpXfer", val |-> TRUE] /\ InStep =>
        conn.final = "2" /\ ~conn.lost
=============================================================================
