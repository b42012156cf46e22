---------------------------- MODULE LogLineProofs ----------------------------
(***************************************************************************)
(* Proofs about LogLine, for any number of threads, any size of buffer and *)
(* any lengths of prefixes and messages.                                   *)
(*                                                                         *)
(* The argument: a thread that logs alone is the only one under way, so    *)
(* from stage to stage one buffer holds exactly the part of its line that  *)
(* is finished (Held); with the bounds on its offsets (Sizes), the text up *)
(* to the first NUL is the whole line when it is printed.                  *)
(***************************************************************************)
EXTENDS LogLine, TLAPS

USE LogLineAssumption

(***************************************************************************)
(* The inductive invariant.                                                *)
(***************************************************************************)
Busy == \A t \in Threads : pc[t] # "idle" => line[t] # 0

Sizes ==
    \A t \in Threads :
        /\ pc[t] = "cell" => offset[t] < L
        /\ pc[t] \in {"copy", "format", "end", "print"} => prefixLen[t] < L
        /\ pc[t] \in {"end", "print"} => offset[t] = EndOffset(t)

Alone ==
    \A t, u \in Threads : alone[t] => pc[t] # "idle" /\ (u # t => pc[u] = "idle")

\* The first n characters of thread t's line are in buf.
Starts(buf, t, n) == \A i \in 0 .. (n - 1) : buf[i] = Ch(line[t], i + 1)

Held ==
    \A t \in Threads : alone[t] =>
        /\ pc[t] = "cell" => Starts(m_prefixBuffer, t, offset[t])
        /\ pc[t] = "copy" => Starts(m_prefixBuffer, t, prefixLen[t])
        /\ pc[t] = "format" => Starts(m_logBuffer, t, prefixLen[t])
        /\ pc[t] = "end" => Starts(m_logBuffer, t, prefixLen[t] + Fitting(t))
        /\ pc[t] = "print" =>
              /\ Starts(m_logBuffer, t, offset[t])
              /\ m_logBuffer[offset[t]] = NewLine
              /\ m_logBuffer[offset[t] + 1] = Nul

IInv == TypeOK /\ Busy /\ Sizes /\ Alone /\ Held /\ AloneIsWhole

-----------------------------------------------------------------------------
(***************************************************************************)
(* Arithmetic of the buffers, and characters.                              *)
(***************************************************************************)
LEMMA Size == L \in Nat /\ L > 0
BY DEF L

LEMMA Characters ==
    /\ \A n \in 0 .. MaxLines, k \in Nat : Ch(n, k) \in Character
    /\ Nul \in Character /\ NewLine \in Character /\ Junk \in Character
    /\ NewLine # Nul
    /\ \A n, k : n # 0 => Ch(n, k) # Nul
BY DEF Ch, Character, Nul, NewLine, Junk

\* The line ends where its text does, or earlier, and two places before the
\* buffer does (log.cpp:92-103).
LEMMA Ends ==
    ASSUME TypeOK, NEW t \in Threads, prefixLen[t] < L
    PROVE  /\ EndOffset(t) \in Nat
           /\ EndOffset(t) + 1 \in LogIndex
           /\ EndOffset(t) \in LogIndex
           /\ Fitting(t) \in Nat
           /\ prefixLen[t] + Fitting(t) \in LogIndex
           /\ EndOffset(t) <= prefixLen[t] + Fitting(t)
<1>1. prefixLen[t] \in Nat /\ msgLen[t] \in Nat
  BY DEF TypeOK
<1>2. /\ EndOffset(t) \in Nat /\ EndOffset(t) + 1 <= 2 * L - 1
  BY <1>1, Size DEF EndOffset
<1>3. Fitting(t) \in Nat /\ prefixLen[t] + Fitting(t) <= 2 * L - 1
  BY <1>1, Size DEF Fitting
<1>4. EndOffset(t) <= prefixLen[t] + Fitting(t)
  BY <1>1, Size DEF EndOffset, Fitting
<1> QED
  BY <1>1, <1>2, <1>3, <1>4, Size DEF LogIndex

\* What Written makes of a buffer.
LEMMA WrittenBuffer ==
    ASSUME NEW size \in Nat, NEW buf \in [0 .. (size - 1) -> Character],
           NEW from \in Nat, NEW n \in Nat, NEW l \in 0 .. MaxLines
    PROVE  /\ Written(buf, from, l, n) \in [0 .. (size - 1) -> Character]
           /\ \A i \in 0 .. (size - 1) : i < from => Written(buf, from, l, n)[i] = buf[i]
           /\ \A i \in 0 .. (size - 1) :
                  i >= from /\ i < from + n => Written(buf, from, l, n)[i] = Ch(l, i + 1)
<1>1. DOMAIN buf = 0 .. (size - 1)
  OBVIOUS
<1>2. \A i \in 0 .. (size - 1) : Ch(l, i + 1) \in Character /\ buf[i] \in Character
  BY Characters
<1>3. Nul \in Character
  BY Characters
<1> QED
  BY <1>1, <1>2, <1>3 DEF Written

-----------------------------------------------------------------------------
(***************************************************************************)
(* Type correctness.                                                       *)
(***************************************************************************)
LEMMA TypeInit == Init => TypeOK
<1> SUFFICES ASSUME Init PROVE TypeOK
  OBVIOUS
<1> USE Characters DEF Init
<1>1. m_prefixBuffer \in [PrefixIndex -> Character] /\ m_logBuffer \in [LogIndex -> Character]
  OBVIOUS
<1>2. printed \in [line : 0 .. MaxLines, prefix : Nat, msg : Nat, alone : BOOLEAN,
                   text : Seq(Character)]
  BY DEF NoLine
<1>3. m_prefixSwitchs \in [Places -> Cells \cup {NoCell}]
  OBVIOUS
<1>4. /\ format \in Formats \cup {<<>>} /\ at \in Nat
      /\ lines \in 0 .. MaxLines
      /\ fault \in {"none", "overrun", "unterminated"}
  OBVIOUS
<1>5. /\ pc \in [Threads -> {"idle", "clear", "cell", "copy", "format", "end", "print"}]
      /\ line \in [Threads -> 0 .. MaxLines]
      /\ msgLen \in [Threads -> Nat]
      /\ cell \in [Threads -> Nat]
      /\ offset \in [Threads -> Nat]
      /\ prefixLen \in [Threads -> Nat]
      /\ alone \in [Threads -> BOOLEAN]
  OBVIOUS
<1> QED
  BY <1>1, <1>2, <1>3, <1>4, <1>5 DEF TypeOK

LEMMA AppendPrefixType ==
    ASSUME TypeOK, NEW t \in Threads, NEW n \in Nat, AppendPrefix(t, n)
    PROVE  /\ m_prefixBuffer' \in [PrefixIndex -> Character]
           /\ offset' \in [Threads -> Nat]
           /\ fault' \in {"none", "overrun", "unterminated"}
<1>1. /\ m_prefixBuffer \in [0 .. (L - 1) -> Character] /\ offset[t] \in Nat
      /\ line[t] \in 0 .. MaxLines
  BY DEF TypeOK, PrefixIndex
<1>2. Written(m_prefixBuffer, offset[t], line[t], n) \in [0 .. (L - 1) -> Character]
  BY <1>1, WrittenBuffer, Size
<1>3. CASE offset[t] + n < L
  <2>1. /\ m_prefixBuffer' = Written(m_prefixBuffer, offset[t], line[t], n)
        /\ offset' = [offset EXCEPT ![t] = @ + n]
        /\ UNCHANGED fault
    BY <1>3 DEF AppendPrefix
  <2>2. offset' \in [Threads -> Nat]
    BY <2>1 DEF TypeOK
  <2>3. fault' \in {"none", "overrun", "unterminated"}
    BY <2>1 DEF TypeOK
  <2> QED
    BY <2>1, <2>2, <2>3, <1>2 DEF PrefixIndex
<1>4. CASE ~(offset[t] + n < L)
  <2>1. fault' = "overrun" /\ UNCHANGED <<m_prefixBuffer, offset>>
    BY <1>4 DEF AppendPrefix
  <2> QED
    BY <2>1 DEF TypeOK
<1> QED
  BY <1>3, <1>4

LEMMA TypeNext == TypeOK /\ Sizes /\ [Next]_vars => TypeOK'
<1> SUFFICES ASSUME TypeOK, Sizes, [Next]_vars PROVE TypeOK'
  OBVIOUS
<1>1. ASSUME NEW s \in Formats, SetPrefix(s) PROVE TypeOK'
  BY <1>1 DEF TypeOK, SetPrefix, locals, Places
<1>2. CASE ReadFormat
  <2>1. m_prefixSwitchs' \in [Places -> Cells \cup {NoCell}]
    <3>1. CASE IsDirective(format, at)
      <4>1. format[at + 1] \in Cells
        BY <3>1 DEF IsDirective
      <4> QED
        BY <1>2, <3>1, <4>1 DEF TypeOK, ReadFormat, TakePlace
    <3>2. CASE ~IsDirective(format, at)
      BY <1>2, <3>2 DEF TypeOK, ReadFormat
    <3> QED
      BY <3>1, <3>2
  <2>2. format' \in Formats \cup {<<>>} /\ at' \in Nat
    BY <1>2 DEF TypeOK, ReadFormat
  <2> QED
    BY <1>2, <2>1, <2>2 DEF TypeOK, ReadFormat, locals
<1>3. ASSUME NEW t \in Threads, NEW m \in MsgLens, Begin(t, m) PROVE TypeOK'
  <2>1. lines + 1 \in 0 .. MaxLines /\ m \in Nat
    BY <1>3 DEF TypeOK, Begin
  <2> QED
    BY <1>3, <2>1 DEF TypeOK, Begin, Goto, setting
<1>4. ASSUME NEW t \in Threads, Clear(t) PROVE TypeOK'
  BY <1>4, Characters DEF TypeOK, Clear, Goto, setting
<1>5. ASSUME NEW t \in Threads, PrefixCell(t) PROVE TypeOK'
  <2> DEFINE c == m_prefixSwitchs[cell[t]]
  <2>1. c \in Cells
    BY <1>5 DEF TypeOK, PrefixCell, HasCell, Places
  <2>2. CellLen[c] \in Nat
    BY <2>1
  <2>3. /\ m_prefixBuffer' \in [PrefixIndex -> Character]
        /\ offset' \in [Threads -> Nat]
        /\ fault' \in {"none", "overrun", "unterminated"}
    <3>1. CASE c \in TimeCells /\ CellLen[c] >= L - offset[t]
      <4>1. PICK trash \in {Nul, Ch(line[t], offset[t] + 1)} :
                m_prefixBuffer' = [i \in PrefixIndex |->
                    IF i >= offset[t] THEN trash ELSE m_prefixBuffer[i]]
        BY <1>5, <3>1 DEF PrefixCell
      <4>2. trash \in Character
        BY <4>1, Characters DEF TypeOK
      <4>3. UNCHANGED <<offset, fault>>
        BY <1>5, <3>1 DEF PrefixCell
      <4> QED
        BY <4>1, <4>2, <4>3 DEF TypeOK
    <3>2. CASE ~(c \in TimeCells /\ CellLen[c] >= L - offset[t])
      <4>1. AppendPrefix(t, CellLen[c])
        BY <1>5, <3>2 DEF PrefixCell
      <4> QED
        BY <4>1, <2>2, AppendPrefixType
    <3> QED
      BY <3>1, <3>2
  <2>4. /\ UNCHANGED <<setting, m_logBuffer, pc, line, msgLen, prefixLen, alone, lines, printed>>
        /\ cell' = [cell EXCEPT ![t] = @ + 1]
    BY <1>5 DEF PrefixCell
  <2>5. cell' \in [Threads -> Nat]
    BY <2>4 DEF TypeOK
  <2> QED
    BY <2>3, <2>4, <2>5 DEF TypeOK, setting
<1>6. ASSUME NEW t \in Threads, PrefixLevel(t) PROVE TypeOK'
  <2>1. /\ m_prefixBuffer' \in [PrefixIndex -> Character]
        /\ offset' \in [Threads -> Nat]
        /\ fault' \in {"none", "overrun", "unterminated"}
    BY <1>6, AppendPrefixType DEF PrefixLevel
  <2> QED
    BY <1>6, <2>1 DEF TypeOK, PrefixLevel, Goto, setting
<1>7. ASSUME NEW t \in Threads, CopyPrefix(t) PROVE TypeOK'
  <2>1. prefixLen[t] \in Nat /\ prefixLen[t] < L
    BY <1>7 DEF TypeOK, Sizes, CopyPrefix
  <2>2. m_logBuffer' \in [LogIndex -> Character]
    BY <1>7, <2>1, Size DEF TypeOK, CopyPrefix, PrefixIndex, LogIndex
  <2> QED
    BY <1>7, <2>2 DEF TypeOK, CopyPrefix, Goto, setting, locals
<1>8. ASSUME NEW t \in Threads, Format(t) PROVE TypeOK'
  <2>1. prefixLen[t] \in Nat /\ prefixLen[t] < L /\ line[t] \in 0 .. MaxLines
    BY <1>8 DEF TypeOK, Sizes, Format
  <2>2. EndOffset(t) \in Nat /\ Fitting(t) \in Nat
    BY <2>1, Ends
  <2>3. m_logBuffer \in [0 .. (2 * L - 1) -> Character] /\ 2 * L \in Nat
    BY Size DEF TypeOK, LogIndex
  <2>4. m_logBuffer' \in [LogIndex -> Character]
    BY <1>8, <2>1, <2>2, <2>3, WrittenBuffer DEF Format, LogIndex
  <2>5. offset' \in [Threads -> Nat]
    BY <1>8, <2>2 DEF TypeOK, Format
  <2> QED
    BY <1>8, <2>4, <2>5 DEF TypeOK, Format, Goto, setting
<1>9. ASSUME NEW t \in Threads, EndLine(t) PROVE TypeOK'
  BY <1>9, Characters DEF TypeOK, EndLine, Goto, setting, locals
<1>10. ASSUME NEW t \in Threads, PrintLine(t) PROVE TypeOK'
  <2>1. printed' \in [line : 0 .. MaxLines, prefix : Nat, msg : Nat, alone : BOOLEAN,
                      text : Seq(Character)]
        /\ fault' \in {"none", "overrun", "unterminated"}
    <3>1. CASE fault' = "unterminated" /\ UNCHANGED printed
      BY <3>1 DEF TypeOK
    <3>2. ASSUME NEW end \in LogIndex, UNCHANGED fault,
                 printed' = [line |-> line[t], prefix |-> prefixLen[t], msg |-> msgLen[t],
                             alone |-> alone[t],
                             text |-> [i \in 1 .. end |-> m_logBuffer[i - 1]]]
          PROVE  /\ printed' \in [line : 0 .. MaxLines, prefix : Nat, msg : Nat,
                                  alone : BOOLEAN, text : Seq(Character)]
                 /\ fault' \in {"none", "overrun", "unterminated"}
      <4>1. \A i \in 1 .. end : m_logBuffer[i - 1] \in Character
        BY Size DEF TypeOK, LogIndex
      <4>2. [i \in 1 .. end |-> m_logBuffer[i - 1]] \in Seq(Character)
        BY <4>1, Size DEF LogIndex
      <4>3. /\ line[t] \in 0 .. MaxLines /\ prefixLen[t] \in Nat /\ msgLen[t] \in Nat
            /\ alone[t] \in BOOLEAN
        BY DEF TypeOK
      <4> QED
        BY <3>2, <4>2, <4>3 DEF TypeOK
    <3> QED
      BY <1>10, <3>1, <3>2 DEF PrintLine
  <2>2. /\ UNCHANGED <<setting, m_prefixBuffer, m_logBuffer, lines>>
        /\ pc' = [pc EXCEPT ![t] = "idle"]
        /\ line' = [line EXCEPT ![t] = 0] /\ msgLen' = [msgLen EXCEPT ![t] = 0]
        /\ cell' = [cell EXCEPT ![t] = 0] /\ offset' = [offset EXCEPT ![t] = 0]
        /\ prefixLen' = [prefixLen EXCEPT ![t] = 0] /\ alone' = [alone EXCEPT ![t] = FALSE]
    BY <1>10 DEF PrintLine, Goto
  <2>3. /\ pc' \in [Threads -> {"idle", "clear", "cell", "copy", "format", "end", "print"}]
        /\ line' \in [Threads -> 0 .. MaxLines] /\ msgLen' \in [Threads -> Nat]
        /\ cell' \in [Threads -> Nat] /\ offset' \in [Threads -> Nat]
        /\ prefixLen' \in [Threads -> Nat] /\ alone' \in [Threads -> BOOLEAN]
    BY <2>2 DEF TypeOK
  <2> QED
    BY <2>1, <2>2, <2>3 DEF TypeOK, setting
<1>11. CASE UNCHANGED vars
  BY <1>11 DEF TypeOK, vars, setting
<1> QED
  BY <1>1, <1>2, <1>3, <1>4, <1>5, <1>6, <1>7, <1>8, <1>9, <1>10, <1>11 DEF Next, LogContent

-----------------------------------------------------------------------------
(***************************************************************************)
(* Where the offsets are, and who is under way.                            *)
(***************************************************************************)
LEMMA BusyNext == TypeOK /\ Busy /\ [Next]_vars => Busy'
<1> SUFFICES ASSUME TypeOK, Busy, [Next]_vars PROVE Busy'
  OBVIOUS
<1> USE DEF Goto, locals
<1>1. ASSUME NEW s \in Formats, SetPrefix(s) PROVE Busy'
  BY <1>1 DEF Busy, SetPrefix
<1>2. CASE ReadFormat
  BY <1>2 DEF Busy, ReadFormat
<1>3. ASSUME NEW t \in Threads, NEW m \in MsgLens, Begin(t, m) PROVE Busy'
  BY <1>3 DEF TypeOK, Busy, Begin
<1>4. ASSUME NEW t \in Threads, Clear(t) PROVE Busy'
  BY <1>4 DEF TypeOK, Busy, Clear
<1>5. ASSUME NEW t \in Threads, PrefixCell(t) PROVE Busy'
  BY <1>5 DEF TypeOK, Busy, PrefixCell
<1>6. ASSUME NEW t \in Threads, PrefixLevel(t) PROVE Busy'
  BY <1>6 DEF TypeOK, Busy, PrefixLevel
<1>7. ASSUME NEW t \in Threads, CopyPrefix(t) PROVE Busy'
  BY <1>7 DEF TypeOK, Busy, CopyPrefix
<1>8. ASSUME NEW t \in Threads, Format(t) PROVE Busy'
  BY <1>8 DEF TypeOK, Busy, Format
<1>9. ASSUME NEW t \in Threads, EndLine(t) PROVE Busy'
  BY <1>9 DEF TypeOK, Busy, EndLine
<1>10. ASSUME NEW t \in Threads, PrintLine(t) PROVE Busy'
  BY <1>10 DEF TypeOK, Busy, PrintLine
<1>11. CASE UNCHANGED vars
  BY <1>11 DEF Busy, vars
<1> QED
  BY <1>1, <1>2, <1>3, <1>4, <1>5, <1>6, <1>7, <1>8, <1>9, <1>10, <1>11 DEF Next, LogContent

LEMMA AppendPrefixSize ==
    ASSUME TypeOK, NEW t \in Threads, NEW n \in Nat, AppendPrefix(t, n), offset[t] < L
    PROVE  /\ offset'[t] < L
           /\ \A u \in Threads \ {t} : offset'[u] = offset[u]
BY Size DEF AppendPrefix, TypeOK

LEMMA SizesNext == TypeOK /\ Sizes /\ [Next]_vars => Sizes'
<1> SUFFICES ASSUME TypeOK, Sizes, [Next]_vars PROVE Sizes'
  OBVIOUS
<1> USE DEF Goto
<1>1. ASSUME NEW s \in Formats, SetPrefix(s) PROVE Sizes'
  BY <1>1 DEF Sizes, SetPrefix, locals, EndOffset
<1>2. CASE ReadFormat
  BY <1>2 DEF Sizes, ReadFormat, locals, EndOffset
<1>3. ASSUME NEW t \in Threads, NEW m \in MsgLens, Begin(t, m) PROVE Sizes'
  BY <1>3 DEF TypeOK, Sizes, Begin, EndOffset
<1>4. ASSUME NEW t \in Threads, Clear(t) PROVE Sizes'
  BY <1>4, Size DEF TypeOK, Sizes, Clear, EndOffset
<1>5. ASSUME NEW t \in Threads, PrefixCell(t) PROVE Sizes'
  <2> DEFINE c == m_prefixSwitchs[cell[t]]
  <2>1. c \in Cells
    BY <1>5 DEF TypeOK, PrefixCell, HasCell, Places
  <2>2. /\ pc[t] = "cell"
        /\ UNCHANGED <<pc, msgLen, prefixLen>>
        /\ UNCHANGED offset \/ AppendPrefix(t, CellLen[c])
    BY <1>5 DEF PrefixCell
  <2>3. CASE UNCHANGED offset
    BY <2>2, <2>3 DEF Sizes, EndOffset
  <2>4. CASE AppendPrefix(t, CellLen[c])
    <3>1. offset'[t] < L /\ \A u \in Threads \ {t} : offset'[u] = offset[u]
      BY <2>1, <2>2, <2>4, AppendPrefixSize DEF Sizes
    <3> QED
      BY <2>2, <3>1 DEF Sizes, EndOffset
  <2> QED
    BY <2>2, <2>3, <2>4
<1>6. ASSUME NEW t \in Threads, PrefixLevel(t) PROVE Sizes'
  <2>1. /\ pc[t] = "cell"
        /\ AppendPrefix(t, LevelLen)
        /\ UNCHANGED msgLen
        /\ pc' = [pc EXCEPT ![t] = "copy"]
        /\ prefixLen' = [prefixLen EXCEPT ![t] = offset'[t]]
    BY <1>6 DEF PrefixLevel
  <2>2. offset'[t] < L /\ \A u \in Threads \ {t} : offset'[u] = offset[u]
    BY <2>1, AppendPrefixSize DEF Sizes
  <2> QED
    BY <2>1, <2>2 DEF TypeOK, Sizes, EndOffset
<1>7. ASSUME NEW t \in Threads, CopyPrefix(t) PROVE Sizes'
  BY <1>7 DEF TypeOK, Sizes, CopyPrefix, locals, EndOffset
<1>8. ASSUME NEW t \in Threads, Format(t) PROVE Sizes'
  <2>1. /\ pc[t] = "format" /\ pc' = [pc EXCEPT ![t] = "end"]
        /\ offset' = [offset EXCEPT ![t] = EndOffset(t)]
        /\ UNCHANGED <<msgLen, prefixLen>>
    BY <1>8 DEF Format
  <2>2. \A u \in Threads : EndOffset(u)' = EndOffset(u)
    BY <2>1 DEF EndOffset
  <2> QED
    BY <2>1, <2>2 DEF TypeOK, Sizes
<1>9. ASSUME NEW t \in Threads, EndLine(t) PROVE Sizes'
  BY <1>9 DEF TypeOK, Sizes, EndLine, locals, EndOffset
<1>10. ASSUME NEW t \in Threads, PrintLine(t) PROVE Sizes'
  BY <1>10 DEF TypeOK, Sizes, PrintLine, EndOffset
<1>11. CASE UNCHANGED vars
  BY <1>11 DEF Sizes, vars, EndOffset
<1> QED
  BY <1>1, <1>2, <1>3, <1>4, <1>5, <1>6, <1>7, <1>8, <1>9, <1>10, <1>11 DEF Next, LogContent

LEMMA AloneNext == TypeOK /\ Alone /\ [Next]_vars => Alone'
<1> SUFFICES ASSUME TypeOK, Alone, [Next]_vars PROVE Alone'
  OBVIOUS
<1> USE DEF Goto
<1>1. ASSUME NEW s \in Formats, SetPrefix(s) PROVE Alone'
  BY <1>1 DEF Alone, SetPrefix
<1>2. CASE ReadFormat
  BY <1>2 DEF Alone, ReadFormat
<1>3. ASSUME NEW t \in Threads, NEW m \in MsgLens, Begin(t, m) PROVE Alone'
  BY <1>3 DEF TypeOK, Alone, Begin
<1>4. ASSUME NEW t \in Threads, Clear(t) PROVE Alone'
  BY <1>4 DEF TypeOK, Alone, Clear
<1>5. ASSUME NEW t \in Threads, PrefixCell(t) PROVE Alone'
  BY <1>5 DEF TypeOK, Alone, PrefixCell
<1>6. ASSUME NEW t \in Threads, PrefixLevel(t) PROVE Alone'
  BY <1>6 DEF TypeOK, Alone, PrefixLevel
<1>7. ASSUME NEW t \in Threads, CopyPrefix(t) PROVE Alone'
  BY <1>7 DEF TypeOK, Alone, CopyPrefix
<1>8. ASSUME NEW t \in Threads, Format(t) PROVE Alone'
  BY <1>8 DEF TypeOK, Alone, Format
<1>9. ASSUME NEW t \in Threads, EndLine(t) PROVE Alone'
  BY <1>9 DEF TypeOK, Alone, EndLine
<1>10. ASSUME NEW t \in Threads, PrintLine(t) PROVE Alone'
  BY <1>10 DEF TypeOK, Alone, PrintLine
<1>11. CASE UNCHANGED vars
  BY <1>11 DEF Alone, vars
<1> QED
  BY <1>1, <1>2, <1>3, <1>4, <1>5, <1>6, <1>7, <1>8, <1>9, <1>10, <1>11 DEF Next, LogContent

-----------------------------------------------------------------------------
(***************************************************************************)
(* What is in the buffers while a thread logs alone.                       *)
(***************************************************************************)
\* While a thread logs alone, nobody else is between two stages.
LEMMA OnlyMe ==
    ASSUME Alone, NEW t \in Threads, NEW u \in Threads, pc[t] # "idle", alone[u]
    PROVE  u = t
BY DEF Alone

LEMMA AppendPrefixHeld ==
    ASSUME TypeOK, NEW t \in Threads, NEW n \in Nat, AppendPrefix(t, n),
           Starts(m_prefixBuffer, t, offset[t]), offset[t] < L
    PROVE  \A i \in 0 .. (offset'[t] - 1) : m_prefixBuffer'[i] = Ch(line[t], i + 1)
<1>1. CASE offset[t] + n < L
  <2>1. /\ m_prefixBuffer' = Written(m_prefixBuffer, offset[t], line[t], n)
        /\ offset'[t] = offset[t] + n
    BY <1>1 DEF AppendPrefix, TypeOK
  <2>2. /\ m_prefixBuffer \in [0 .. (L - 1) -> Character] /\ offset[t] \in Nat
        /\ line[t] \in 0 .. MaxLines
    BY DEF TypeOK, PrefixIndex
  <2> DEFINE w == Written(m_prefixBuffer, offset[t], line[t], n)
  <2>3. /\ \A i \in 0 .. (L - 1) : i < offset[t] => w[i] = m_prefixBuffer[i]
        /\ \A i \in 0 .. (L - 1) : i >= offset[t] /\ i < offset[t] + n =>
               w[i] = Ch(line[t], i + 1)
    <3>1. DOMAIN m_prefixBuffer = 0 .. (L - 1)
      BY <2>2
    <3> QED
      BY <2>2, <3>1, Size DEF Written
  <2> QED
    BY <1>1, <2>1, <2>2, <2>3, Size DEF Starts
<1>2. CASE ~(offset[t] + n < L)
  BY <1>2 DEF AppendPrefix, Starts
<1> QED
  BY <1>1, <1>2

LEMMA HeldNext == TypeOK /\ Busy /\ Sizes /\ Alone /\ Held /\ [Next]_vars => Held'
<1> SUFFICES ASSUME TypeOK, Busy, Sizes, Alone, Held, [Next]_vars,
                    NEW u \in Threads, alone'[u]
             PROVE  /\ pc'[u] = "cell" => Starts(m_prefixBuffer, u, offset[u])'
                    /\ pc'[u] = "copy" => Starts(m_prefixBuffer, u, prefixLen[u])'
                    /\ pc'[u] = "format" => Starts(m_logBuffer, u, prefixLen[u])'
                    /\ pc'[u] = "end" => Starts(m_logBuffer, u, prefixLen[u] + Fitting(u))'
                    /\ pc'[u] = "print" =>
                          /\ Starts(m_logBuffer, u, offset[u])'
                          /\ m_logBuffer'[offset'[u]] = NewLine
                          /\ m_logBuffer'[offset'[u] + 1] = Nul
  BY DEF Held
<1> USE DEF Goto
<1>1. CASE UNCHANGED <<m_prefixBuffer, m_logBuffer, pc, locals, alone>>
  <2>1. Fitting(u)' = Fitting(u)
    BY <1>1 DEF Fitting, locals
  <2> QED
    BY <1>1, <2>1 DEF Held, Starts, locals
<1>2. ASSUME NEW t \in Threads, NEW m \in MsgLens, Begin(t, m)
      PROVE  u = t /\ pc'[t] = "clear"
  BY <1>2 DEF Begin, TypeOK
<1>3. ASSUME NEW t \in Threads, Clear(t) PROVE u = t /\ pc'[t] = "cell" /\ offset'[t] = 0
  BY <1>3, OnlyMe DEF Clear, TypeOK
<1>4. ASSUME NEW t \in Threads, PrefixCell(t)
      PROVE  u = t /\ pc'[t] = "cell" /\ Starts(m_prefixBuffer, t, offset[t])'
  <2> DEFINE c == m_prefixSwitchs[cell[t]]
  <2>1. /\ pc[t] = "cell" /\ HasCell(t)
        /\ UNCHANGED <<pc, line, alone>>
    BY <1>4 DEF PrefixCell
  <2>2. u = t
    BY <2>1, OnlyMe
  <2>3. Starts(m_prefixBuffer, t, offset[t]) /\ offset[t] < L /\ offset[t] \in Nat
    BY <2>1, <2>2 DEF Held, Sizes, TypeOK
  <2>4. c \in Cells
    BY <2>1 DEF TypeOK, HasCell, Places
  <2>5. CASE c \in TimeCells /\ CellLen[c] >= L - offset[t]
    <3>1. PICK trash : m_prefixBuffer' = [i \in PrefixIndex |->
                            IF i >= offset[t] THEN trash ELSE m_prefixBuffer[i]]
      BY <1>4, <2>5 DEF PrefixCell
    <3>2. UNCHANGED offset
      BY <1>4, <2>5 DEF PrefixCell
    <3>3. \A i \in 0 .. (offset[t] - 1) : m_prefixBuffer'[i] = m_prefixBuffer[i]
      BY <2>3, <3>1, Size DEF PrefixIndex
    <3> QED
      BY <2>1, <2>2, <2>3, <3>2, <3>3 DEF Starts
  <2>6. CASE ~(c \in TimeCells /\ CellLen[c] >= L - offset[t])
    <3>1. AppendPrefix(t, CellLen[c])
      BY <1>4, <2>6 DEF PrefixCell
    <3>2. CellLen[c] \in Nat
      BY <2>4
    <3>3. \A i \in 0 .. (offset'[t] - 1) : m_prefixBuffer'[i] = Ch(line[t], i + 1)
      BY <2>3, <3>1, <3>2, AppendPrefixHeld
    <3> QED
      BY <2>1, <2>2, <3>3 DEF Starts
  <2> QED
    BY <2>5, <2>6
<1>5. ASSUME NEW t \in Threads, PrefixLevel(t)
      PROVE  u = t /\ pc'[t] = "copy" /\ Starts(m_prefixBuffer, t, prefixLen[t])'
  <2>1. /\ pc[t] = "cell" /\ AppendPrefix(t, LevelLen)
        /\ pc' = [pc EXCEPT ![t] = "copy"]
        /\ prefixLen' = [prefixLen EXCEPT ![t] = offset'[t]]
        /\ UNCHANGED <<line, alone>>
    BY <1>5 DEF PrefixLevel
  <2>2. u = t /\ pc'[t] = "copy" /\ prefixLen'[t] = offset'[t]
    BY <2>1, OnlyMe DEF TypeOK
  <2>3. Starts(m_prefixBuffer, t, offset[t]) /\ offset[t] < L
    BY <2>1, <2>2 DEF Held, Sizes
  <2>4. \A i \in 0 .. (offset'[t] - 1) : m_prefixBuffer'[i] = Ch(line[t], i + 1)
    BY <2>1, <2>3, AppendPrefixHeld
  <2> QED
    BY <2>1, <2>2, <2>4 DEF Starts
<1>6. ASSUME NEW t \in Threads, CopyPrefix(t)
      PROVE  u = t /\ pc'[t] = "format" /\ Starts(m_logBuffer, t, prefixLen[t])'
  <2>1. /\ pc[t] = "copy"
        /\ m_logBuffer' = [i \in LogIndex |->
                             IF i < prefixLen[t] THEN m_prefixBuffer[i] ELSE m_logBuffer[i]]
        /\ pc' = [pc EXCEPT ![t] = "format"]
        /\ UNCHANGED <<line, prefixLen, alone>>
    BY <1>6 DEF CopyPrefix, locals
  <2>2. u = t /\ pc'[t] = "format"
    BY <2>1, OnlyMe DEF TypeOK
  <2>3. Starts(m_prefixBuffer, t, prefixLen[t]) /\ prefixLen[t] < L /\ prefixLen[t] \in Nat
    BY <2>1, <2>2 DEF Held, Sizes, TypeOK
  <2>4. \A i \in 0 .. (prefixLen[t] - 1) : m_logBuffer'[i] = m_prefixBuffer[i]
    BY <2>1, <2>3, Size DEF LogIndex
  <2> QED
    BY <2>1, <2>2, <2>3, <2>4 DEF Starts
<1>7. ASSUME NEW t \in Threads, Format(t)
      PROVE  u = t /\ pc'[t] = "end" /\ Starts(m_logBuffer, t, prefixLen[t] + Fitting(t))'
  <2>1. /\ pc[t] = "format"
        /\ m_logBuffer' = Written(m_logBuffer, prefixLen[t], line[t], Fitting(t))
        /\ pc' = [pc EXCEPT ![t] = "end"]
        /\ UNCHANGED <<line, msgLen, prefixLen, alone>>
    BY <1>7 DEF Format
  <2>2. u = t /\ pc'[t] = "end" /\ Fitting(t)' = Fitting(t)
    BY <2>1, OnlyMe DEF TypeOK, Fitting
  <2>3. Starts(m_logBuffer, t, prefixLen[t]) /\ prefixLen[t] < L /\ prefixLen[t] \in Nat
    BY <2>1, <2>2 DEF Held, Sizes, TypeOK
  <2>4. Fitting(t) \in Nat /\ prefixLen[t] + Fitting(t) <= 2 * L - 1
    BY <2>3, Ends DEF LogIndex
  <2>5. m_logBuffer \in [0 .. (2 * L - 1) -> Character] /\ 2 * L \in Nat
        /\ line[t] \in 0 .. MaxLines
    BY Size DEF TypeOK, LogIndex
  <2> DEFINE w == Written(m_logBuffer, prefixLen[t], line[t], Fitting(t))
  <2>6. /\ \A i \in 0 .. (2 * L - 1) : i < prefixLen[t] => w[i] = m_logBuffer[i]
        /\ \A i \in 0 .. (2 * L - 1) : i >= prefixLen[t] /\ i < prefixLen[t] + Fitting(t) =>
               w[i] = Ch(line[t], i + 1)
    BY <2>3, <2>4, <2>5, WrittenBuffer
  <2> DEFINE N == prefixLen[t] + Fitting(t)
  <2> HIDE DEF w
  <2>7. \A i \in 0 .. (N - 1) : w[i] = Ch(line[t], i + 1)
    BY <2>3, <2>4, <2>6, Size DEF Starts
  <2>8. w = m_logBuffer' /\ line'[t] = line[t]
    BY <2>1 DEF w
  <2>9. N' = N
    BY <2>1 DEF Fitting
  <2>10. \A i \in 0 .. (N - 1) : m_logBuffer'[i] = Ch(line'[t], i + 1)
    BY <2>7, <2>8
  <2> HIDE DEF N
  <2>11. \A i \in 0 .. (N' - 1) : m_logBuffer'[i] = Ch(line'[t], i + 1)
    BY <2>9, <2>10
  <2>12. Starts(m_logBuffer, t, prefixLen[t] + Fitting(t))'
    BY <2>11 DEF Starts, N
  <2> QED
    BY <2>2, <2>12
<1>8. ASSUME NEW t \in Threads, EndLine(t)
      PROVE  /\ u = t /\ pc'[t] = "print"
             /\ Starts(m_logBuffer, t, offset[t])'
             /\ m_logBuffer'[offset'[t]] = NewLine
             /\ m_logBuffer'[offset'[t] + 1] = Nul
  <2>1. /\ pc[t] = "end"
        /\ m_logBuffer' = [m_logBuffer EXCEPT ![offset[t]] = NewLine, ![offset[t] + 1] = Nul]
        /\ pc' = [pc EXCEPT ![t] = "print"]
        /\ UNCHANGED <<line, offset, alone>>
    BY <1>8 DEF EndLine, locals
  <2>2. u = t /\ pc'[t] = "print"
    BY <2>1, OnlyMe DEF TypeOK
  <2>3. /\ Starts(m_logBuffer, t, prefixLen[t] + Fitting(t))
        /\ prefixLen[t] < L /\ offset[t] = EndOffset(t)
    BY <2>1, <2>2 DEF Held, Sizes
  <2>4. /\ offset[t] \in LogIndex /\ offset[t] + 1 \in LogIndex
        /\ offset[t] <= prefixLen[t] + Fitting(t) /\ prefixLen[t] + Fitting(t) \in LogIndex
    BY <2>3, Ends
  <2>5. m_logBuffer \in [LogIndex -> Character]
    BY DEF TypeOK
  <2>6. m_logBuffer'[offset[t]] = NewLine /\ m_logBuffer'[offset[t] + 1] = Nul
    BY <2>1, <2>4, <2>5, Size DEF LogIndex
  <2>7. \A i \in 0 .. (offset[t] - 1) : m_logBuffer'[i] = m_logBuffer[i]
    BY <2>1, <2>4, <2>5, Size DEF LogIndex
  <2>8. \A i \in 0 .. (offset[t] - 1) : m_logBuffer[i] = Ch(line[t], i + 1)
    BY <2>3, <2>4, Size DEF Starts, LogIndex
  <2> QED
    BY <2>1, <2>2, <2>6, <2>7, <2>8 DEF Starts
<1>9. ASSUME NEW t \in Threads, PrintLine(t) PROVE FALSE
  <2>1. pc[t] = "print" /\ alone' = [alone EXCEPT ![t] = FALSE]
    BY <1>9 DEF PrintLine
  <2>2. u # t /\ alone[u]
    BY <2>1 DEF TypeOK
  <2> QED
    BY <2>1, <2>2, OnlyMe
<1>10. ASSUME NEW s \in Formats, SetPrefix(s)
       PROVE  UNCHANGED <<m_prefixBuffer, m_logBuffer, pc, locals, alone>>
  BY <1>10 DEF SetPrefix
<1>11. ASSUME ReadFormat PROVE UNCHANGED <<m_prefixBuffer, m_logBuffer, pc, locals, alone>>
  BY <1>11 DEF ReadFormat
<1>12. CASE UNCHANGED vars
  BY <1>1, <1>12 DEF vars, locals
<1>13. ASSUME NEW t \in Threads, LogContent(t)
       PROVE  /\ pc'[u] = "cell" => Starts(m_prefixBuffer, u, offset[u])'
              /\ pc'[u] = "copy" => Starts(m_prefixBuffer, u, prefixLen[u])'
              /\ pc'[u] = "format" => Starts(m_logBuffer, u, prefixLen[u])'
              /\ pc'[u] = "end" => Starts(m_logBuffer, u, prefixLen[u] + Fitting(u))'
              /\ pc'[u] = "print" =>
                    /\ Starts(m_logBuffer, u, offset[u])'
                    /\ m_logBuffer'[offset'[u]] = NewLine
                    /\ m_logBuffer'[offset'[u] + 1] = Nul
  <2>1. CASE \E m \in MsgLens : Begin(t, m)
    BY <2>1, <1>2
  <2>2. CASE Clear(t)
    BY <2>2, <1>3 DEF Starts
  <2>3. CASE PrefixCell(t)
    BY <2>3, <1>4
  <2>4. CASE PrefixLevel(t)
    BY <2>4, <1>5
  <2>5. CASE CopyPrefix(t)
    BY <2>5, <1>6
  <2>6. CASE Format(t)
    BY <2>6, <1>7
  <2>7. CASE EndLine(t)
    BY <2>7, <1>8
  <2>8. CASE PrintLine(t)
    BY <2>8, <1>9
  <2> QED
    BY <1>13, <2>1, <2>2, <2>3, <2>4, <2>5, <2>6, <2>7, <2>8 DEF LogContent
<1> QED
  BY <1>1, <1>10, <1>11, <1>12, <1>13 DEF Next

-----------------------------------------------------------------------------
(***************************************************************************)
(* What is printed.                                                        *)
(***************************************************************************)
\* n characters of a line and its '\n', written as one function.
LEMMA LineText ==
    ASSUME NEW n \in Nat, NEW l \in 0 .. MaxLines
    PROVE  [i \in 1 .. (n + 1) |-> IF i <= n THEN Ch(l, i) ELSE NewLine]
               = Append([k \in 1 .. n |-> Ch(l, k)], NewLine)
<1> DEFINE text == [i \in 1 .. (n + 1) |-> IF i <= n THEN Ch(l, i) ELSE NewLine]
<1> DEFINE s == [k \in 1 .. n |-> Ch(l, k)]
<1>1. s \in Seq(Character) /\ Len(s) = n
  BY Characters
<1>2. \A k \in 1 .. n : s[k] = Ch(l, k)
  OBVIOUS
<1> HIDE DEF s
<1>3. /\ Append(s, NewLine) \in Seq(Character) /\ Len(Append(s, NewLine)) = n + 1
      /\ \A k \in 1 .. n : Append(s, NewLine)[k] = s[k]
      /\ Append(s, NewLine)[n + 1] = NewLine
  BY <1>1, Characters
<1>4. text \in Seq(Character) /\ Len(text) = n + 1
  BY Characters
<1> QED
  BY <1>2, <1>3, <1>4 DEF s

LEMMA WholeNext ==
    TypeOK /\ Busy /\ Sizes /\ Held /\ AloneIsWhole /\ [Next]_vars => AloneIsWhole'
<1> SUFFICES ASSUME TypeOK, Busy, Sizes, Held, AloneIsWhole, [Next]_vars
             PROVE  AloneIsWhole'
  OBVIOUS
<1>1. CASE UNCHANGED printed
  BY <1>1 DEF AloneIsWhole, Whole
<1>2. ASSUME NEW t \in Threads, PrintLine(t) PROVE AloneIsWhole'
  <2> SUFFICES ASSUME NEW end \in LogIndex,
                      m_logBuffer[end] = Nul,
                      \A i \in 0 .. (end - 1) : m_logBuffer[i] # Nul,
                      printed' = [line |-> line[t], prefix |-> prefixLen[t],
                                  msg |-> msgLen[t], alone |-> alone[t],
                                  text |-> [i \in 1 .. end |-> m_logBuffer[i - 1]]]
               PROVE  AloneIsWhole'
    BY <1>1, <1>2 DEF PrintLine
  <2> SUFFICES ASSUME alone[t] PROVE printed'.text = Whole(printed')
    <3>1. (printed.alone)' = alone[t]
      OBVIOUS
    <3>2. AloneIsWhole' = (printed'.line # 0 /\ printed'.alone => printed'.text = Whole(printed'))
      BY DEF AloneIsWhole, Whole
    <3> QED
      BY <3>1, <3>2
  <2>2. pc[t] = "print"
    BY <1>2 DEF PrintLine
  <2>3. /\ Starts(m_logBuffer, t, offset[t])
        /\ m_logBuffer[offset[t]] = NewLine
        /\ m_logBuffer[offset[t] + 1] = Nul
    BY <2>2 DEF Held
  <2>4. /\ line[t] \in 0 .. MaxLines /\ line[t] # 0
        /\ prefixLen[t] < L /\ offset[t] = EndOffset(t)
    BY <2>2 DEF TypeOK, Busy, Sizes
  <2>5. offset[t] \in Nat /\ offset[t] + 1 \in LogIndex
    BY <2>4, Ends
  <2>6. end = offset[t] + 1
    <3>1. ~(offset[t] + 1 \in 0 .. (end - 1))
      BY <2>3
    <3>2. \A i \in 0 .. (offset[t] - 1) : m_logBuffer[i] # Nul
      BY <2>3, <2>4, Characters DEF Starts
    <3>3. m_logBuffer[offset[t]] # Nul
      BY <2>3, Characters
    <3>4. ~(end \in 0 .. offset[t])
      BY <2>5, <3>2, <3>3
    <3> QED
      BY <2>5, <3>1, <3>4, Size DEF LogIndex
  <2>7. printed'.text = [i \in 1 .. (offset[t] + 1) |->
                            IF i <= offset[t] THEN Ch(line[t], i) ELSE NewLine]
    <3>1. \A i \in 1 .. (offset[t] + 1) :
             m_logBuffer[i - 1] = IF i <= offset[t] THEN Ch(line[t], i) ELSE NewLine
      BY <2>3, <2>5 DEF Starts
    <3> QED
      BY <2>6, <3>1
  <2>8. printed'.text = Append([k \in 1 .. offset[t] |-> Ch(line[t], k)], NewLine)
    BY <2>4, <2>5, <2>7, LineText
  <2>9. Whole(printed') = Append([k \in 1 .. offset[t] |-> Ch(line[t], k)], NewLine)
    <3>1. /\ printed'.prefix = prefixLen[t] /\ printed'.msg = msgLen[t]
          /\ printed'.line = line[t]
      OBVIOUS
    <3>2. offset[t] = IF msgLen[t] = 0 THEN 0
                      ELSE IF prefixLen[t] + msgLen[t] < 2 * L - 2
                           THEN prefixLen[t] + msgLen[t] ELSE 2 * L - 2
      BY <2>4, Size DEF EndOffset, TypeOK
    <3> QED
      BY <3>1, <3>2 DEF Whole
  <2> QED
    BY <2>8, <2>9
<1>3. ASSUME NEW t \in Threads, LogContent(t) PROVE AloneIsWhole'
  <2>1. PrintLine(t) \/ UNCHANGED printed
    BY <1>3 DEF LogContent, Begin, Clear, PrefixCell, PrefixLevel, CopyPrefix, Format, EndLine
  <2> QED
    BY <1>1, <1>2, <2>1
<1>4. ReadFormat \/ (\E s \in Formats : SetPrefix(s)) => UNCHANGED printed
  BY DEF ReadFormat, SetPrefix
<1>5. UNCHANGED vars => UNCHANGED printed
  BY DEF vars
<1> QED
  BY <1>1, <1>3, <1>4, <1>5 DEF Next

-----------------------------------------------------------------------------
(***************************************************************************)
(* The theorems.                                                           *)
(***************************************************************************)
LEMMA InvInit == Init => IInv
<1>1. Init => TypeOK
  BY TypeInit
<1>2. Init => Busy /\ Sizes /\ Alone /\ Held
  BY DEF Init, Busy, Sizes, Alone, Held
<1>3. Init => AloneIsWhole
  BY DEF Init, NoLine, AloneIsWhole
<1> QED
  BY <1>1, <1>2, <1>3 DEF IInv

LEMMA InvNext == IInv /\ [Next]_vars => IInv'
BY TypeNext, BusyNext, SizesNext, AloneNext, HeldNext, WholeNext DEF IInv

\* The inductive invariant holds in every reachable state of LogContent's threads.
THEOREM Invariance == Spec => []IInv
<1>1. Init => IInv
  BY InvInit
<1>2. IInv /\ [Next]_vars => IInv'
  BY InvNext
<1> QED
  BY <1>1, <1>2, PTL DEF Spec

\* Type correctness: in particular no store leaves the two buffers and the table
\* of cells, as every write keeps their domains (log.cpp:52-157).
THEOREM TypeCorrect == Spec => []TypeOK
<1>1. IInv => TypeOK
  BY DEF IInv
<1> QED
  BY <1>1, Invariance, PTL

\* The '\n' and the NUL of every line are stored inside m_logBuffer, with any number
\* of threads, messages of any length and any prefix (log.cpp:92-103).
THEOREM Inside == Spec => []EndsInside
<1>1. IInv => EndsInside
  <2> SUFFICES ASSUME IInv, NEW t \in Threads, pc[t] = "end"
               PROVE  {offset[t], offset[t] + 1} \subseteq LogIndex
    BY DEF EndsInside
  <2>1. prefixLen[t] < L /\ offset[t] = EndOffset(t) /\ TypeOK
    BY DEF IInv, Sizes
  <2>2. offset[t] \in LogIndex /\ offset[t] + 1 \in LogIndex
    BY <2>1, Ends
  <2> QED
    BY <2>2
<1> QED
  BY <1>1, Invariance, PTL

\* A line that a thread logs while no other thread logs comes out whole
\* (log.cpp:80-107).
THEOREM LinesWhole == Spec => []AloneIsWhole
<1>1. IInv => AloneIsWhole
  BY DEF IInv
<1> QED
  BY <1>1, Invariance, PTL
=============================================================================
