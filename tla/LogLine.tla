------------------------------ MODULE LogLine ------------------------------
(***************************************************************************)
(* Log::LogContent (src/utils/logging/log.cpp): every LOG_* of the program *)
(* formats a line in the buffers of the one Log object and prints it.  The *)
(* owner of the loop and its workers all log, and there is no lock.        *)
(*                                                                         *)
(* A step of a thread is one call that touches a buffer (memset, snprintf, *)
(* memcpy, vsnprintf, fprintf) or the two stores that end the line.        *)
(* Characters are identified by the line they belong to and their place in *)
(* it.  Undefined behaviour ends a behaviour: `fault` names where.         *)
(***************************************************************************)
EXTENDS Integers, Sequences

CONSTANTS
    Threads,            \* threads that log
    LOG_BUFFER_LENGTH,  \* size of m_prefixBuffer; m_logBuffer is twice that
    TimeCells,          \* prefix cells written by strftime: eDate, eTime
    NameCells,          \* prefix cells written by snprintf: eFile, eFunc, eLine
    CellLen,            \* characters of each prefix cell
    LevelLen,           \* characters of the level, the last of the prefix
    NoCell,             \* the -1 of an unused place in m_prefixSwitchs
    eTop,               \* length of m_prefixSwitchs
    Formats,            \* strings given to SetPrefix
    MsgLens,            \* lengths of the formatted message
    MaxLines            \* bound: lines logged

L == LOG_BUFFER_LENGTH
Cells == TimeCells \cup NameCells

ASSUME LogLineAssumption ==
    /\ LOG_BUFFER_LENGTH \in Nat \ {0}
    /\ CellLen \in [Cells -> Nat]
    /\ LevelLen \in Nat \ {0}
    /\ \A m \in MsgLens : m \in Nat
    /\ eTop \in Nat
    /\ NoCell \notin Cells
    /\ \A s \in Formats : Len(s) \in Nat \ {0}
    /\ MaxLines \in Nat

VARIABLES
    format,           \* the string that SetPrefix is reading, or <<>>
    at,               \* SetPrefix's place in it
    m_prefixSwitchs,  \* the cells of the prefix, in order
    m_prefixBuffer,
    m_logBuffer,
    pc,               \* per thread: the call of LogContent it makes next
    line,             \* per thread: number of the line it logs
    msgLen,           \* per thread: length of its formatted message
    cell,             \* per thread: generatePrefix's i
    offset,           \* per thread: generatePrefix's, then LogContent's offset
    prefixLen,        \* per thread: LogContent's prefixLen
    alone,            \* per thread: nobody else has logged since its line began
    lines,            \* lines begun
    printed,          \* the last line printed: who, alone or not, and its text
    fault             \* "none", "overrun" or "unterminated"

locals == <<line, msgLen, cell, offset, prefixLen>>
setting == <<format, at, m_prefixSwitchs>>
vars == <<setting, m_prefixBuffer, m_logBuffer, pc, line, msgLen, cell,
          offset, prefixLen, alone, lines, printed, fault>>

\* The k-th character of line n, prefix and message counted through.
Ch(n, k) == <<n, k>>
Nul == <<0, 0>>
NewLine == <<0, 1>>
Junk == <<0, 2>>    \* what the heap held before
Character == (0 .. MaxLines) \X Nat

Places == 0 .. (eTop - 1)
PrefixIndex == 0 .. (L - 1)
LogIndex == 0 .. (2 * L - 1)
NoLine == [line |-> 0, prefix |-> 0, msg |-> 0, alone |-> FALSE, text |-> <<>>]

TypeOK ==
    /\ format \in Formats \cup {<<>>}
    /\ at \in Nat
    /\ m_prefixSwitchs \in [Places -> Cells \cup {NoCell}]
    /\ m_prefixBuffer \in [PrefixIndex -> Character]
    /\ m_logBuffer \in [LogIndex -> Character]
    /\ pc \in [Threads -> {"idle", "clear", "cell", "copy", "format", "end", "print"}]
    /\ line \in [Threads -> 0 .. MaxLines]
    /\ msgLen \in [Threads -> Nat]
    /\ cell \in [Threads -> Nat]
    /\ offset \in [Threads -> Nat]
    /\ prefixLen \in [Threads -> Nat]
    /\ alone \in [Threads -> BOOLEAN]
    /\ lines \in 0 .. MaxLines
    /\ printed \in [line : 0 .. MaxLines, prefix : Nat, msg : Nat, alone : BOOLEAN,
                    text : Seq(Character)]
    /\ fault \in {"none", "overrun", "unterminated"}

-----------------------------------------------------------------------------
Resting == \A t \in Threads : pc[t] = "idle"
Configured == format = <<>>

Init ==
    /\ format \in Formats /\ at = 1
    /\ m_prefixSwitchs = [k \in Places |-> NoCell]
    /\ m_prefixBuffer = [i \in PrefixIndex |-> Junk]
    /\ m_logBuffer = [i \in LogIndex |-> Junk]
    /\ pc = [t \in Threads |-> "idle"]
    /\ line = [t \in Threads |-> 0]
    /\ msgLen = [t \in Threads |-> 0]
    /\ cell = [t \in Threads |-> 0]
    /\ offset = [t \in Threads |-> 0]
    /\ prefixLen = [t \in Threads |-> 0]
    /\ alone = [t \in Threads |-> FALSE]
    /\ lines = 0
    /\ printed = NoLine
    /\ fault = "none"

\* SetPrefix forgets the old prefix and reads the new one, as the constructor
\* does.  The program calls it while nothing is logged (log_unittest.cpp:6).
SetPrefix(s) ==
    /\ Resting /\ Configured
    /\ format' = s /\ at' = 1
    /\ m_prefixSwitchs' = [k \in Places |-> NoCell]
    /\ UNCHANGED <<m_prefixBuffer, m_logBuffer, pc, locals, alone, lines, printed, fault>>

\* A % that is not escaped and is followed by the symbol of a cell.
IsDirective(s, i) ==
    /\ s[i] = "%"
    /\ ~(i > 1 /\ s[i - 1] = "\\")
    /\ i < Len(s) /\ s[i + 1] \in Cells

\* Plausible bug: the search for a free place looks one too far.
TakePlaceBeyond(c) ==
    LET taken == {k \in Places : m_prefixSwitchs[k] # NoCell}
        free == IF taken = Places THEN {eTop} ELSE Places \ taken
        k == CHOOSE i \in free : \A j \in free : i <= j
    IN  m_prefixSwitchs' = [i \in Places \cup {k} |-> IF i = k THEN c ELSE m_prefixSwitchs[i]]

\* The cell c gets the first free place of m_prefixSwitchs, if there is one.
TakePlace(c) ==
    IF \A k \in Places : m_prefixSwitchs[k] # NoCell THEN UNCHANGED m_prefixSwitchs
    ELSE \E k \in Places :
            /\ m_prefixSwitchs[k] = NoCell
            /\ \A j \in 0 .. (k - 1) : m_prefixSwitchs[j] # NoCell
            /\ m_prefixSwitchs' = [m_prefixSwitchs EXCEPT ![k] = c]

\* One iteration of SetPrefix.
ReadFormat ==
    /\ ~Configured
    /\ IF IsDirective(format, at) THEN TakePlace(format[at + 1]) ELSE UNCHANGED m_prefixSwitchs
    /\ IF at < Len(format) THEN at' = at + 1 /\ UNCHANGED format ELSE at' = 0 /\ format' = <<>>
    /\ UNCHANGED <<m_prefixBuffer, m_logBuffer, pc, locals, alone, lines, printed, fault>>

-----------------------------------------------------------------------------
Goto(t, stage) == pc' = [pc EXCEPT ![t] = stage]

\* A LOG_* whose message comes to m characters.
Begin(t, m) ==
    /\ Configured
    /\ pc[t] = "idle"
    /\ lines < MaxLines
    /\ lines' = lines + 1
    /\ line' = [line EXCEPT ![t] = lines + 1]
    /\ msgLen' = [msgLen EXCEPT ![t] = m]
    /\ alone' = [u \in Threads |-> u = t /\ \A v \in Threads : pc[v] = "idle"]
    /\ Goto(t, "clear")
    /\ UNCHANGED <<setting, m_prefixBuffer, m_logBuffer, cell, offset, prefixLen,
                   printed, fault>>

\* generatePrefix: clear m_prefixBuffer...
Clear(t) ==
    /\ pc[t] = "clear"
    /\ m_prefixBuffer' = [i \in PrefixIndex |-> Nul]
    /\ cell' = [cell EXCEPT ![t] = 0]
    /\ offset' = [offset EXCEPT ![t] = 0]
    /\ Goto(t, "cell")
    /\ UNCHANGED <<setting, m_logBuffer, line, msgLen, prefixLen, alone, lines,
                   printed, fault>>

\* buf after the next n characters of line l and a NUL went to buf + from.
Written(buf, from, l, n) ==
    [i \in DOMAIN buf |-> IF i \in from .. (from + n - 1) THEN Ch(l, i + 1)
                          ELSE IF i = from + n THEN Nul ELSE buf[i]]

\* ... append n characters to it, with a call that is told that it is longer...
AppendPrefix(t, n) ==
    IF offset[t] + n < L
    THEN /\ m_prefixBuffer' = Written(m_prefixBuffer, offset[t], line[t], n)
         /\ offset' = [offset EXCEPT ![t] = @ + n]
         /\ UNCHANGED fault
    ELSE fault' = "overrun" /\ UNCHANGED <<m_prefixBuffer, offset>>

\* The prefix ends with the first place that is not used.
HasCell(t) == cell[t] < eTop /\ m_prefixSwitchs[cell[t]] # NoCell

\* ... cell by cell; a date or time that does not fit is left out...
PrefixCell(t) ==
    /\ pc[t] = "cell"
    /\ HasCell(t)
    /\ LET c == m_prefixSwitchs[cell[t]]
       IN  IF c \in TimeCells /\ CellLen[c] >= L - offset[t]
           THEN /\ \E trash \in {Nul, Ch(line[t], offset[t] + 1)} :
                    m_prefixBuffer' = [i \in PrefixIndex |->
                        IF i >= offset[t] THEN trash ELSE m_prefixBuffer[i]]
                /\ UNCHANGED <<offset, fault>>
           ELSE AppendPrefix(t, CellLen[c])
    /\ cell' = [cell EXCEPT ![t] = @ + 1]
    /\ UNCHANGED <<setting, m_logBuffer, pc, line, msgLen, prefixLen, alone, lines,
                   printed>>

\* ... and the level.  The caller gets the length; it would get -1 (log.cpp:156)
\* only after an overrun.
PrefixLevel(t) ==
    /\ pc[t] = "cell"
    /\ ~HasCell(t)
    /\ AppendPrefix(t, LevelLen)
    /\ prefixLen' = [prefixLen EXCEPT ![t] = offset'[t]]
    /\ Goto(t, "copy")
    /\ UNCHANGED <<setting, m_logBuffer, line, msgLen, cell, alone, lines, printed>>

CopyPrefix(t) ==
    /\ pc[t] = "copy"
    /\ m_logBuffer' = [i \in LogIndex |->
                          IF i < prefixLen[t] THEN m_prefixBuffer[i] ELSE m_logBuffer[i]]
    /\ Goto(t, "format")
    /\ UNCHANGED <<setting, m_prefixBuffer, locals, alone, lines, printed, fault>>

\* The characters of the message that vsnprintf finds room for.
Fitting(t) ==
    LET room == 2 * L - prefixLen[t] - 1
    IN  IF msgLen[t] < room THEN msgLen[t] ELSE room

\* Plausible bug: only one place is kept free, not one for each of '\n' and NUL.
EndOffsetShort(t) ==
    IF msgLen[t] = 0 THEN 0
    ELSE IF msgLen[t] + prefixLen[t] >= 2 * L - 1 THEN 2 * L - 1
    ELSE msgLen[t] + prefixLen[t]

\* Where the line ends; an empty message ends it before its prefix.
EndOffset(t) ==
    IF msgLen[t] = 0 THEN 0
    ELSE IF msgLen[t] + prefixLen[t] >= 2 * L - 2 THEN 2 * L - 2
    ELSE msgLen[t] + prefixLen[t]

Format(t) ==
    /\ pc[t] = "format"
    /\ m_logBuffer' = Written(m_logBuffer, prefixLen[t], line[t], Fitting(t))
    /\ offset' = [offset EXCEPT ![t] = EndOffset(t)]
    /\ Goto(t, "end")
    /\ UNCHANGED <<setting, m_prefixBuffer, line, msgLen, cell, prefixLen, alone,
                   lines, printed, fault>>

\* Plausible bug: the terminator of vsnprintf is trusted to be behind the '\n'.
EndLineOpen(t) ==
    /\ pc[t] = "end"
    /\ m_logBuffer' = [m_logBuffer EXCEPT ![offset[t]] = NewLine]
    /\ Goto(t, "print")
    /\ UNCHANGED <<setting, m_prefixBuffer, locals, alone, lines, printed, fault>>

EndLine(t) ==
    /\ pc[t] = "end"
    /\ m_logBuffer' = [m_logBuffer EXCEPT ![offset[t]] = NewLine, ![offset[t] + 1] = Nul]
    /\ Goto(t, "print")
    /\ UNCHANGED <<setting, m_prefixBuffer, locals, alone, lines, printed, fault>>

\* fprintf prints up to the first NUL, whoever wrote what there is; LogContent
\* returns, and its locals are gone.
PrintLine(t) ==
    /\ pc[t] = "print"
    /\ \/ /\ \A i \in LogIndex : m_logBuffer[i] # Nul
          /\ fault' = "unterminated"
          /\ UNCHANGED printed
       \/ \E end \in LogIndex :
            /\ m_logBuffer[end] = Nul
            /\ \A i \in 0 .. (end - 1) : m_logBuffer[i] # Nul
            /\ printed' = [line |-> line[t], prefix |-> prefixLen[t], msg |-> msgLen[t],
                           alone |-> alone[t], text |-> [i \in 1 .. end |-> m_logBuffer[i - 1]]]
            /\ UNCHANGED fault
    /\ Goto(t, "idle")
    /\ line' = [line EXCEPT ![t] = 0] /\ msgLen' = [msgLen EXCEPT ![t] = 0]
    /\ cell' = [cell EXCEPT ![t] = 0] /\ offset' = [offset EXCEPT ![t] = 0]
    /\ prefixLen' = [prefixLen EXCEPT ![t] = 0] /\ alone' = [alone EXCEPT ![t] = FALSE]
    /\ UNCHANGED <<setting, m_prefixBuffer, m_logBuffer, lines>>

LogContent(t) ==
    \/ \E m \in MsgLens : Begin(t, m)
    \/ Clear(t) \/ PrefixCell(t) \/ PrefixLevel(t) \/ CopyPrefix(t)
    \/ Format(t) \/ EndLine(t) \/ PrintLine(t)

Next ==
    /\ fault = "none"
    /\ \/ ReadFormat
       \/ \E s \in Formats : SetPrefix(s)
       \/ \E t \in Threads : LogContent(t)

Spec == Init /\ [][Next]_vars

-----------------------------------------------------------------------------
(***************************************************************************)
(* Properties.                                                             *)
(***************************************************************************)
\* However long prefix and message are and whatever other threads do, the line's
\* '\n' and NUL are stored inside m_logBuffer (log.cpp:92-103).
EndsInside == \A t \in Threads : pc[t] = "end" => {offset[t], offset[t] + 1} \subseteq LogIndex

\* What a thread prints that logs alone: its prefix and its message, cut so that
\* a '\n' still fits.  Only that '\n' if the message is empty.
Whole(p) ==
    LET all == p.prefix + p.msg
        n == IF p.msg = 0 THEN 0 ELSE IF all < 2 * L - 2 THEN all ELSE 2 * L - 2
    IN  Append([k \in 1 .. n |-> Ch(p.line, k)], NewLine)

\* A line logged while nobody else logs comes out whole, and with nothing of any
\* other line in it, whatever mixture earlier lines left in the buffers
\* (log.cpp:80-107).
AloneIsWhole == printed.line # 0 /\ printed.alone => printed.text = Whole(printed)
=============================================================================
