# A verification project for share_me

TLA+ models of the parts of `share_me` that carry its logic, the TLC runs that
check them, and TLAPS proofs about them. Paths below are relative to the root of
the repository (`src/utils/net/win/ioloop.cpp`, `test/utils/net/socket_test.cpp`).

## 1. Inventory

| component | source | state | operations |
|---|---|---|---|
| IOLoop life cycle | `src/utils/net/win/ioloop.cpp`, `ioloop.h` | the singleton `m_io`, its completion port, `m_threadLivedCount`, the worker threads | `Instanse`, `Init`, `Release`, `ServerWorkThread`, `OnThreadClose` |
| overlapped sockets | `src/utils/net/win/socket.cpp`, `socket.h`, the handlers in `ioloop.cpp` | the `Socket` objects, the `PER_IO_DATA` blocks, the operations in the kernel, the completion packets | `Start`, `SetDataHandleFunc`, `Add*Socket`, `PostAcceptMsg`, `PostSendMsg`, `PostRecvMsg`, `OnAcceptSocket`, `OnRecvMsg`, the cases of `ServerWorkThread` |
| JSON parser | `src/utils/json/json.cpp`, `pasertool.cpp` | the text, the tree of `Value`s, `m_currentValue`, `m_expectNextValueType`, the `StateMachine` | `Json::Set`, `Json::Paser`, one handler per action |
| logging | `src/utils/logging/log.cpp` | the buffers of the singleton, the prefix switches, an asynchronous queue | `SetPrefix`, `LogContent`; `AppendMsg`, `Notify`, `loop` (no caller) |
| Linux socket | `src/utils/net/linux/socket.cpp` | `m_socketInst`, `m_addr`, and the descriptors of the process | constructors, `Config`, `Start`, `Connect`, `Reconnect`, `Disconnect`, `Send`, destructor |
| FTP client library | `src/common/ftplib` | the `netbuf`s of a control and of a data connection, the last response, the descriptors behind them | `FtpConnect`, `FtpLogin`, the one-command calls, `FtpAccess`, `FtpRead`, `FtpWrite`, `FtpClose`, `FtpXfer` with its wrappers, `FtpQuit` |
| condition, date/time | `src/utils/sys` | - | not compiled by any target |
| FileTransfer, Manager, Configure, ftp, proxy, main | `src/...` | - | stubs |

How they interact: the user creates the loop, starts sockets and adds them to it;
the loop's workers take completions from the port and call back into the sockets,
which post the next operation; a received chunk goes to a callback of the user;
`Release` ends the workers, after which the user deletes its sockets. All of them
log through one unlocked singleton. The JSON parser, the Linux socket and the FTP
library stand alone: the FTP library is compiled with the program, meant for
`FileTransfer`, and talks to a server over two connections, one for commands and
replies and one for the data of a transfer.

What is hard, and where: `PROJECT.json` lists the hazards with their lines. In
short: the tear-down of the loop is a hand-made join (a counter, an unlocked
increment, a poll); the ownership of heap blocks and sockets travels through the
kernel and back, and two workers may hold packets of one socket; the parser walks
a tree of raw pointers in step with a state machine that is never reset; the FTP
client and its server stay in step only as long as every reply is read by the call
that owes it, and a call that fails halfway has to give back what it opened, in two
connections and a file; the Linux socket closes whatever number it happens to hold.

What makes each component correct:

- loop: `Release` is a join. When it deletes the loop no worker is in it or has still to
  give back its share of the counter, and a worker that leaves finds its own loop; and
  it returns. (That no worker touches the loop at all any more would be better, and is
  not so: see `CloseLog` below.)
- sockets: a block has one holder at a time and is deleted once; a connection has
  one receive under way and a server one accept; the callback sees the stream in
  order and without a gap; the user's sockets are the user's to delete.
- parser: a document is accepted and becomes the tree it denotes, which is so for plain
  documents only (see below); whatever text is parsed, the Values form one tree; the
  outcome does not depend on earlier texts.
- Linux socket: what it opens it closes, it talks to the address it was given, and it
  uses no descriptor but its own.
- FTP library: a call reads the replies to its own commands; a result of 1 is what the
  server said; each `netbuf` has a descriptor of its own and nothing else stays open;
  every call returns.
- logging: no line ends outside its buffer, and what overlapping lines leave in the
  buffers does not show in a later line.

## 2. Modules

| module | models |
|---|---|
| `WorkerPool` | abstract: a pool that is opened, loses workers, and is gone only after the last one left |
| `IOLoop` | the life cycle of `IOLoop` and of its threads; implements `WorkerPool` |
| `IOLoopProofs` | theorems about `IOLoop` |
| `ByteStream` | abstract: connections whose data is given to a callback in order, without a gap, once, and all of it |
| `SocketIO` | sockets, blocks, kernel, port and handlers; unless an accept handler is overtaken it implements `ByteStream` |
| `SocketIOProofs` | theorems about `SocketIO`: who holds blocks and what is posted on a live socket |
| `SocketServingProofs` | theorems about `SocketIO`: what a server keeps up, and the refinement of `ByteStream` |
| `JsonParser` | `Json::Paser` with its state machine, next to a reference that follows the document |
| `MCJsonParser` | the lengths of the texts TLC parses |
| `JsonParserProofs` | theorems about `JsonParser` |
| `LinuxSocket` | the sockets of the Linux build on the descriptors they share with the process |
| `MCLinuxSocket` | what an uninitialised handle may hold |
| `LinuxSocketProofs` | theorems about `LinuxSocket` |
| `FtpControl` | the calls of the FTP library, the server they talk to, the descriptors |
| `MCFtpControl` | the modes and callbacks of the client |
| `FtpControlProofs` | theorems about `FtpControl`: types and descriptors |
| `FtpRepliesProofs` | theorems about `FtpControl`: replies |
| `LogLine` | `SetPrefix` and `LogContent` of several threads on the buffers they share |
| `MCLogLine` | the prefixes and cell lengths that TLC uses for `LogLine` |
| `LogLineProofs` | theorems about `LogLine` |

Variables and operators have the names of the source where TLA+ allows it; the
"map" of `PROJECT.json` gives the lines behind every definition. Definitions
introduced by "Plausible bug" are not part of a specification: each is a variant of
the definition that follows it, against which a property was tried.

### IOLoop

The owner is the thread that calls `Instanse`, `Init` and `Release`; its place is
`owner`. A worker's place is `pc`. Every read or write of the shared counter is a
step of its own, because `++m_threadLivedCount` in `Init` (ioloop.cpp:55) is not
atomic while `OnThreadClose` decrements atomically; so are the end of the port
(`ReleaseDelete`) and the clearing of `m_io` (`ReleaseClear`), between which a worker
could ask `Instanse()` for a loop. Each constructed object has a number, so that "a
worker finds its own loop" can be said. What a worker does with a completion is the
stage "busy". A wait may fail at any moment (`WaitFails`): the code then takes the
same way out as for END_THREAD. `CompleteIo` is the kernel.

`PoolPhase` and `ActiveWorkers` map this to `WorkerPool`: active is a worker that has
not yet given back its share of the counter. The last thing a worker does, reading
the counter again for a log line (`CloseLog`, ioloop.cpp:32), is *after* that, so the join
does not cover it: that read races with `delete m_io` in the code, too. `ReleaseJoins`
therefore says exactly that: from the delete to the next loop every thread has ended or
has nothing but that read before it.

### SocketIO

`blocks` is the heap of `PER_IO_DATA`, `ops` what is in the kernel, `queue` the
port. A handler of `ServerWorkThread` is cut at every call that another worker can
come in between: `START_ACCEPT` is five steps (post the next accept, attach and post
the first receive, set the callback, hand over the first chunk, delete the block).
A step that would use a deleted socket is `TouchesDeleted`, which ends the behaviour
with `fault` naming the stage; so do a call of an uninitialised callback ("wild") and
a send beyond the block ("overrun"). `Faults` says which failures the kernel may
produce in a run. A socket's data is a sequence of chunks; only their order matters.
A connection is mapped to `ByteStream` by what the kernel delivered (`arrived`) and what the
callback received (`handed`). `Release` adds one block per worker, for the END_THREAD packets
(ioloop.cpp:65); how the packets end the workers is in `IOLoop`. The constructors leave
`m_dataHandleCallback` as they find it, so a new socket has any `Callback` until
`SetDataHandleFunc`, which the user may leave out. `databuff.len` keeps its unsigned width (`WordSize`). `MaxSockets` bounds how many
sockets the user creates, so that one run covers a server as well as a client and no
state has both.

Two conditions are named, because serving is safe under them only and the code leaves
them to others. `HaveCallbacks`: the user gives every server a callback. `Orderly` adds
that no accept handler is overtaken (`Overtakes`): between the first receive, which it posts, and
the first chunk, which it hands over, the other worker takes no completion of that
connection. Nothing in the code sees to that; a peer that waits with its second piece until
its first one is handled does. `OrderlySpec` is `Spec` of such behaviours.

### JsonParser

Characters are the classes the parser distinguishes. A step is one turn of the loop in
`Json::Paser`; a text that is cut short by `}`, `]` or `,` takes two turns at the same
character, as in the code. `values` is the tree, by index. The reference (`phase`,
`open`, `tree`) is a pushdown acceptor for documents that the parser knows nothing of.
It does not accept all of JSON. A *plain document* is an object; its values are strings,
arrays, and objects directly inside arrays; a string has at least one character, all ASCII
and none of `, : { } [ ]`, and a backslash escapes anything but a backslash; blanks stand
anywhere outside strings. `Nested` adds objects as values of keys, which the parser does not
read (`json_nested`). Nor does it read other strings: `isSpecialChar` (pasertool.cpp:62-70) calls
a structural character special inside a string too, so that `Next` cuts the string at a `}`, `]` or `,`
(pasertool.cpp:83-113) and `{"a":"x,y"}` or `{"x}":"x"}` is read as something else; it looks
back one character only for a backslash, so that a quote behind `\\` does not end its string;
and an empty key or value has no data to print (json.cpp:378). Numbers, `true`, `false`, `null` and a top-level array are
in no document of the model: the parser drops the first digit of a number (json.cpp:104), makes no
Value of a literal, and skips everything before the first brace (json.cpp:76). They occur in
texts of any kind. A byte above 127 is a negative index into `CharMap` (`HighByte`).
`kind` says whether the texts of a behaviour are documents, which the reference allows
at every character, or any texts; each kind has its own bound.
`onAction` prints the whole tree each time; a Value without data makes that undefined
and ends the behaviour as "print". The other ends are the failed assertions and the
null pointers of the handlers.

### LinuxSocket

Every call is one action: the class has no thread and no callback. What is not
sequential is that the socket shares the process's descriptors, `file`, with other
sockets and with the rest of the program, which may take a free one at any time
(`OthersOpen`). `file` says of each descriptor what it is, which object
opened it, and to whom it is connected. `m_socketInst` starts as 0 or as garbage
(socket.cpp:7-14), and `Disconnect` closes it as soon as it is not negative, whoever had
opened it: the history `robbed` says whose descriptor was closed by another object, until
that object closes its handle itself. A `send` to a
peer that has gone raises `SIGPIPE`, which the program neither ignores nor handles: the
behaviour ends as "killed".

### FtpControl

One client calls the library, one call at a time (the library has no state but in the
`netbuf`s and runs on one thread); the server and the kernel act between any two
stages. A call is a walk through stages, `pc`; each stage ends where the library waits
for the server or where a call of the system may fail: `FtpSendCmd` is "send",
`readresp` is "read" (one line a step), both return at "got", and "open", "accept",
"xfer" and "close" are `FtpOpenPort`, `FtpAcceptConnection`, the loop of `FtpXfer` and
`FtpClose`. `call` holds the parameters and locals, `ctl` and `data` the two `netbuf`s,
`own` what each descriptor of the process stands for, `net` and `conn` the two
connections as the server sees them.

A reply is its lines, a line its first digit, whether the reply goes on, whether it is
longer than the buffer, and, for the properties only, the command it answers; what a
server says at the end of a transfer answers "final", and "bye" is said when it closes the
connection. Names and
contents are left out; a path is its length, because `FtpAccess` and `FtpSendCmd` compare
the length with different limits (ftplib.c:642, 952). A call that does not like its arguments,
too long a user name or a mode that there is not, returns 0 at once (`Rejects`). A line that
fills the buffer to the last byte, whose terminating 0 then lies behind it (ftplib.c:247), is
not told from one that fits. The data of a transfer is a number
of blocks. A new descriptor is the lowest free one, so an earlier failure can give a
later connection the number of a closed one, or 0.

`slips` is a history of how the client got out of step: a command sent while a data
connection is open ("mixed"), a reply line longer than the buffer ("long"), a transfer
command of the one length that one check lets pass and the other does not ("length").
After a slip the client is followed only to the end of its connection; `InStep` excludes
these in the properties about replies. "leak" is the listening socket that a failed
`getsockname` leaves open (ftplib.c:787-788). A call on a control `netbuf` that was freed
under an open data connection ends the behaviour as "undefined".

### LogLine

A step is one call that touches a buffer. A character is identified by the line it
belongs to and its place there, so a mixed line is visible as such. `alone` is a
history variable: nobody else has logged since the line began. `SetPrefix` reads its
format one character per step, while nobody logs. A prefix that does not fit
`m_prefixBuffer` overruns it (log.cpp:138-155 pass twice its size) and ends the
behaviour.

## 3. Runs

| run | question | bounds | states |
|---|---|---|---|
| `ioloop` | what has a worker left to do when the loop is deleted, does a leaving worker find its loop, does the counter cover the workers, is this a `WorkerPool`; does `Release` return | 2 workers per loop, 2 loops in a row, 3 thread identities, an I/O packet enters a port that holds fewer than 2, waits that fail at any time | 825,388 |
| `socket` | who holds the blocks, also of overlapping, partial and failing sends; how many receives and accepts are under way; where can a deleted socket be met | a server or a client, any callback or none, 2 workers, 2 connections of up to 3 chunks, 2 sends of up to 3 bytes, all failures | 1,244,229 |
| `socket_orderly` | with callbacks, and no accept handler overtaken: nothing deleted or wild is touched, and each connection is a `ByteStream`: every chunk is handed over, in order and once; does a server go on listening; which blocks are lost | 2 workers, 2 connections of up to 3 chunks, which end or break | 38,347 |
| `socket_owner` | finding | 1 worker | - |
| `socket_drop` | finding | 2 workers, no failures | - |
| `linux_socket` | is every opened descriptor kept track of; whose descriptor does a socket use and to whom does it talk | 2 sockets, 2 addresses, 3 descriptors, 4 initial values of a handle | 6,214 |
| `json` | is the tree the one the document denotes; what holds for any text | plain documents of up to 17 characters, texts of up to 8, each after any other | 2,841,326 |
| `json_nested` | finding | objects as the values of keys, up to 18 characters | - |
| `log_line` | do lines end in the buffer; is a line logged alone whole | 2 threads, 3 lines, 5 formats, messages that are empty, fit, or do not | 754,729 |
| `ftp` | do replies stay in step with commands, are results honest, who owns which descriptor, does every call return | 2 connections in a row, 5 descriptors, transfers of up to 1 block, passive, or port with a callback, paths that are short, of the longest length and one more | 545,166 |
| `ftp_login` | finding | as `ftp` | - |
| `ftp_transfer` | finding | as `ftp`, listings and stores | - |

Why the bounds are enough. The loop's hazards need one worker that leaves while the
other is counted, served or polled for, and one loop after another: two workers and two
loops (a third identity lets a thread of the first loop be gone while both of the
second run). A block's life involves one connection; two show that they do not
interfere, two workers that two packets of one connection are handled at the same
time; a third chunk, that the receive is posted again after it was posted again.
Three bytes are the least that can be sent in three parts, where `databuff.len` goes
wrong. Seventeen characters hold an object with a key in an array that is the value of a
key, two keys, or arrays in an array; two parses let every way a text can end precede every text. A
buffer of six characters has prefixes that fit, that fit but for a time, and that
overrun it, and messages cut at its end; the proofs lift this bound.

Two Linux sockets and three descriptors let one socket close what the other, or the
program, has opened under a number it still holds. In `FtpControl` descriptors 0 to 4
are the standard input, the control connection, a local file, the listening socket and
the accepted connection, all that can be open at a time. A second connection shows what
the first one leaves behind. One block is the difference between a transfer that has
data, one that has none and one that ends short. `PWD` stands for the calls of one
command: they differ in the verb and in whether the reply is parsed, and `PWD` has the
reply that may be unreadable; `SITE`, `CWD` and so on walk the same stages with a path.
A greeting of several lines would add nothing to the two of `USER`. Of the three path
lengths 1017 is the one that slips and 1018 the first that both checks refuse.
The proofs lift all these bounds, for the descriptors and for the replies. They also lift
those of `JsonParser` and of `SocketIO`. What TLC alone shows are the properties that something happens.

Deadlock is not checked: the owner need not call anything again, the kernel need not
complete anything, the client need not call, and a behaviour ends at undefined behaviour
or at its bounds.

Fairness. `FairSpec` of `IOLoop` is weak fairness of each worker, of the owner within
`Init` and of the owner within `Release`: they are operating-system threads whose calls
return, and `Release` polls for ever. Nothing is fair about the kernel, its failures, or
the owner's decision to start or release anything. `FairOrderlySpec` of `SocketIO` is weak
fairness of each worker, for the same reason, of behaviours of `OrderlySpec`; a worker that
has to wait there for an accept handler waits for steps of another worker, which come. `FairSpec` of `FtpControl` is weak fairness
of the call under way, which is a thread that runs, and of the server, which answers what
it is asked and brings a transfer to an end; without the second a client that waits for
a reply waits for ever, there is no timeout on the control connection (`readline`, ftplib.c:233).
Nothing makes the client call, the connection break, or the callback stop a transfer.

### Findings

- `socket_owner`: a completion of zero bytes deletes its socket, whatever it is
  (ioloop.cpp:115-119). A connection that closes before it sends a byte therefore
  deletes the listening socket, which the test deletes itself after `Release`
  (socket_test.cpp:44). For the same reason `KeepsListening` is checked in a run
  without such connections.
- `socket_drop`: the first receive of a connection is posted before the connection has
  its callback (ioloop.cpp:166-169). A second worker may handle that receive first, finds
  no callback, drops the data and deletes the connection. `socket_orderly` shows that all
  is well with two workers as long as that does not happen, `socket` that nothing else
  meets a deleted socket.
- `json_nested`: after an object that is the value of a key, `onGetOutObject` stays on
  the key, unlike `onGetOutArray` and `onGetOutElement`; the next `}` fails the assertion
  of json.cpp:192. `{"x":{}}` is enough.
  `json` leaves out such documents, and those that are not plain for another reason (see
  JsonParser above), and shows that the plain ones are parsed right.
- `ftp_login`: when `USER` cannot be sent or its reply cannot be read, `FtpLogin` looks at
  the response of before, and the greeting begins with a '2' (ftplib.c:667-669). It
  returns 1 and nobody is logged in. `LoginHonest` shows that this needs a connection that
  is gone.
- `ftp_transfer`: `FtpXfer` ignores what `FtpClose` returns (ftplib.c:1277), and the final
  reply with it: a transfer the server gives up on returns 1. `CloseHonest` shows that a
  client that calls `FtpAccess`, `FtpRead` and `FtpClose` itself is told.

## 4. Proofs

`IOLoopProofs`, for every set of workers, every `MAX_THREAD_COUNT`, every number of
loops and every failure of a wait, from `IOLoopAssumption`:

- `TypeCorrect`, `Joins`, `OwnLoop`, `CounterCovers`: the properties of `ioloop`; `Joins` is
  about workers before their decrement, and leaves out the log line behind it as
  `ReleaseJoins` does;
- `ImplementsPool`: initial states map to initial states of `WorkerPool`, and each step
  to a step or a stutter.

The properties are not inductive. What they need (`IInv`) is that an active worker
serves the loop `m_io` names (`WorkersServe`), and that the counter covers the active
workers also halfway through `++`, where the covering value is in the local `tmp` and not
yet in the counter (`Covered`): a decrement in between is lost, which errs on the safe
side. Then a zero read by `Release` means that nobody is active (`NobodyLeft`), and
therefore that nobody can be in `Instanse()` when `m_io` changes.

`LogLineProofs`, for every number of threads, every size of the buffer, all lengths of
cells and messages and every prefix, from `LogLineAssumption`:

- `TypeCorrect`: the buffers and the table of cells keep their domains, so nothing but the
  overrun that ends a behaviour is stored outside them;
- `Inside`: the `'\n'` and the NUL of a line are inside `m_logBuffer`;
- `LinesWhole`: a line logged alone is printed whole.

Here `IInv` bounds the local offsets (`Sizes`), says that a thread that is alone is the
only one under way (`Alone`), and what of its line is in which buffer at each stage
(`Held`): the first NUL is then exactly behind the line's `'\n'`.

`LinuxSocketProofs`, for every set of sockets and addresses, every number of descriptors
and every initial value of a handle:

- `TypeCorrect`, `NothingLeaks`, `AddressStays`, `HandlesOwn`: the four properties of
  `linux_socket`; `HandlesOwn` says nothing of a socket that another one has robbed, until
  that socket reconnects. They are inductive together with one more (`FreeUnowned`): a free
  descriptor belongs to nobody, so that what the kernel hands out is new. A call is a
  composition of `Disconnect` and of opening a socket; each has its lemmas.

`FtpControlProofs`, for every set of commands and of path lengths, every number of
descriptors, of blocks and of connections, and every server:

- `TypeCorrect`: every variable keeps its type;
- `DataLinked`: the control connection knows its data connection (`Linked`);
- `DescriptorsOwned`: each `netbuf` holds a descriptor of its own and nothing else is open
  between two calls (`OwnDescriptors`).

The last two speak of the time between two calls, so they say nothing about the steps of
a call. `IInv` adds to the shapes of all variables (`Shapes`) what is open at each stage
(`StagesInv`), and an account of the descriptors that includes what the call itself holds
(`Descriptors`): `Holds` says of a table of descriptors who has which, and lemmas say what
opening (`Opening`), closing (`Closing`) and handing on (`Handing`) do to it. Each step is
one of these, two in a row, or none. The account is conditional on descriptor 0 still
being the standard input, because a failed accept makes it the handle that `FtpClose` then
closes (ftplib.c:864-898, 1056), and on
no `getsockname` having failed.

`FtpRepliesProofs`, under the same conditions and for a connection that may break at any time:

- `RepliesInStep`: what a call reads is the reply to its own command or the server's farewell,
  and between two calls nothing is owed but the final reply of an open transfer
  (`RepliesMatch`);
- `LoginTold`, `CloseTold`: a result of 1 of `FtpLogin` and of `FtpClose` is what the server
  said (`LoginHonest`, `CloseHonest`).

None of the three is inductive, for what a call reads next depends on every line that is on
its way and on what the server has still to say. `ReplyInv` therefore orders the lines that
were not read (`LinesInv`: the reply to the command first, then the final reply of a transfer,
then a farewell), and says what the server owes (`OwedInv`): one reply to a call that waits,
and one final reply to a client that has a transfer under way. The hardest part is
`FtpClose`. It decides by the last response alone whether there is a final reply to wait for
(ftplib.c:1043-1065), so `RespInv` relates that response to what is owed, at each stage of the
call that wrote it. `LoginInv` and `CloseInv` say of each line, and then of the response,
what a '2' stands for. All of this is conditional on the client being in step (`InStep`, see
above); `CallInv`, `DownInv` and `PortInv` hold without. A step that neither the server nor
the lines take part in (`QuietMove`) is treated in one lemma; what is left are the answers of
the server, its final replies, the breaking of the connection, and the two ways to read.

`SocketIOProofs`, for every number of workers, servers, clients, connections, chunks and
sends, and every set of failures, from `SocketIOAssumption`:

- `TypeCorrect`: every variable keeps its type, and an identity is left for every accept;
- `BlocksHaveOneHolder`, `ReceivesAlone`, `AcceptsAlone`: the three properties of `socket`
  that count holders, receives and accepts;
- `DeletedOnlyMetAfterAccept`: in a process that only serves, a deleted socket is met by the
  end of the accept handler or not at all.

Counting is hard to reason with, so `CoreInv` says the same without: each block is in one
place, an operation, a packet or a handler, and alive there (`Linear`); each receive and each
accept has a connection of its own, and what a handler is about to post is not under way yet
(`SockInv`); a handler has come to its stage by a packet of that kind (`StageInv`); and the
connections that exist or are announced are no more than the servers and the arrivals account
for (`Credits`), which is why `PostAcceptMsg` always finds an identity. Each step moves one
block, adds one, deletes one or leaves them alone; a lemma for each of these is combined with
what the step does to the sockets. `LifeInv` adds, for a process that only serves, that whatever is
posted is posted on a live socket until the accept handler has posted the first receive of its
connection: from then on a second worker may delete the connection.

`SocketServingProofs`, for every number of servers, connections and chunks. These hold only
without certain failures, which each theorem names; they are hazards of the code, and the
runs that check the properties leave out at least as much:

- `ListeningGoesOn`: a live server has an accept under way or a handler about to post it
  (`KeepsListening`), for any number of workers and clients, if `AcceptEx` does not fail and no
  accept is aborted. The next accept is posted without a look at the result
  (ioloop.cpp:164) and a failed one is not repeated (ioloop.cpp:100): after either, a
  server is deaf for good.
- `BlocksAreNotLost`: the blocks that nobody holds or has deleted are those that `Release` sends to end
  the workers (`LeaksOnlyAtRelease`), for any
  number of workers, in a process without clients, if neither `AcceptEx` nor `WSARecv` fails at
  once and no accept is aborted: those leave the block behind (ioloop.cpp:100,
  socket.cpp:144), and so does a client's failed completion.
- `NothingWild`: for any number of workers, with no client and no connection that closes before
  its first byte, a behaviour of `OrderlySpec` touches no deleted socket and calls no wild pointer
  (`OrderlyIsSafe`). The findings `socket_drop` and `socket_owner` show that an accept handler
  that is overtaken and such a connection break this.
- `ConnectionsAreStreams`: under the same conditions initial states map to initial states of
  `ByteStream` and each step to a step or a stutter: the callback of a connection sees its
  chunks in order, without a gap and once, whichever worker takes each of them. This is the
  safety part of `StreamSpec`.

The first two restate what is counted in terms of who holds what (`Listens`, `NoneLost`) and
follow from the lemmas of `SocketIOProofs` on moving, adding and deleting a block, together with
one that says that nothing can fail or have deleted a server in the meantime
(`AcceptsSucceed`). `SafeInv` says why the conditions are enough: no server is deleted
(`ServersKept`), an empty completion is one of a receive (`ZeroesReceive`), and a connection
has its callback before its first receive is taken from the port (`Ready`). The
refinement needs to know where every piece of a connection is: `StreamInv` says for an
operation, a packet and the handler what part of the stream lies before it, and that what
arrived is what was handed over plus the one piece that is in a packet or with the handler.
TLC checked these invariants with two workers and all the failures that the theorems admit
before they were proved.

`JsonParserProofs`, for texts of any length and any number of texts in a row:

- `TypeCorrect`, `TreeIsOne`, `StartsFresh`: the properties that hold for any text;
- `DocumentsAccepted`, `TreeIsTheDocuments`: the two about documents, when these are plain
  (`Nested` is FALSE; `json_nested` shows that they fail otherwise).

`ParserInv` says for any text where `m_root` and `m_currentValue` are in the tree and what is
true of an element that is open. `DocInv` holds while the text is a document: the parser's
tree mirrors the reference's (`Mirror`), the open Values are a path in it that ends at
`m_currentValue` (`Path`, `AtTop`), objects are the root or array elements (`Nesting`), the
phase of the reference determines the state of the parser (`Phases`), and only the string that
is being read has no data (`Printed`). The induction is over the steps of the parser, not over
the text; opening and closing a Value each have their lemma.

Only model-checked: `ReleaseReturns` of `IOLoop`, `CallsReturn` of `FtpControl`, and the half of
`StreamSpec` that says that every chunk is handed over. These are liveness properties under
fairness, which TLAPS does not reach (it has no rules for ENABLED). Every invariant that a
run checks is also a theorem.

## 5. Not modelled

`PROJECT.json` says for each component what was left out.

- The asynchronous path of the log (`AppendMsg`, `Notify`, `loop`, `MsgQueue`, log.cpp:159-224
  and 312-376) is no program yet: nothing calls it, `MAX_COUNT` (log.h:132) has no
  definition, the Linux half does not compile (log.cpp:296), and `loop` drops what it takes
  from the queue. There is nothing it promises that a model could be held to.
- In the sockets, `Socket::Set`, a `Start` that fails, sends on accepted sockets.
- In the parser, documents with numbers, literals or a top-level array (as documents), copying, a second `Paser` without a `Set`, and handlers of `StateMachine`
  that nothing calls.
- In the FTP library, the contents of names and transfers, ASCII conversion, byte counters,
  `FtpLastResponse`, the Windows and VMS variants of system calls, and several data
  connections at a time (`FtpAccess` would overwrite the pointer to the first).
- The stubs (`FileTransfer`, `Manager`, `Configure`, `ftp`, `proxy`, `main`) have no
  behaviour, the factory of the sockets is empty, and `src/utils/sys` is in no build.

## 6. Plan

1. an abstract FTP session, a queue of requests with one reply each, with `FtpControl` in step
   shown to implement it: `LinesInv` and `OwedInv` are most of the refinement;
2. what `LeaksOnlyAtRelease`, `OrderlyIsSafe` and `DanglingOnlyAfterAccept` become in a process with
   clients: a client's failed completion loses its block and its zero completion deletes the
   socket (ioloop.cpp:100-119), so each needs a weaker statement and an invariant for sends;
3. the log's prefix: a bound on what `generatePrefix` writes in terms of the cells, from which
   the format that overruns `m_prefixBuffer` is the shortest one.
