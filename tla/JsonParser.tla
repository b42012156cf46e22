----------------------------- MODULE JsonParser -----------------------------
(***************************************************************************)
(* Json::Paser (src/utils/json/json.cpp) driven by json_inner::StateMachine*)
(* (pasertool.cpp): one pass over the text that builds a tree of Values.   *)
(*                                                                         *)
(* The text is chosen one character at a time, as the parser reads it.     *)
(* Next to the parser runs a reference: the stack of Values that are open  *)
(* at this point of a JSON document, and the tree the document denotes.    *)
(* For an arbitrary text, kind = "any", the reference stands still.         *)
(*                                                                         *)
(* The documents are not all of JSON.  A plain one is an object; a value   *)
(* in it is a string, an array, or an object directly inside an array; a   *)
(* string is not empty, is ASCII, and has none of  , : { } [ ]  and no     *)
(* \\ in it; blanks stand anywhere outside strings.  With Nested an object *)
(* is the value of a key, too; the parser does not read such documents.    *)
(* Nor would it read other strings, which are cut at structural characters *)
(* (pasertool.cpp:62-70, 83-113), or end too late after \\, or have nothing *)
(* to print (json.cpp:378).  Numbers, true, false, null and a top-level    *)
(* array are no part of a document here either: the parser cuts off a      *)
(* number's first digit, makes no Value of a literal and skips to the      *)
(* first brace.                                                            *)
(***************************************************************************)
EXTENDS Integers, Sequences, FiniteSets

CONSTANTS
    MaxText,    \* bound: characters of a "document" and of "any" text
    Nested,     \* TRUE: in documents, an object may be the value of a key
    MaxParses   \* bound: calls of Set, each followed by Paser

Kinds == DOMAIN MaxText

ASSUME JsonAssumption ==
    /\ Kinds \subseteq {"document", "any"}
    /\ \A k \in Kinds : MaxText[k] \in Nat
    /\ Nested \in BOOLEAN
    /\ MaxParses \in Nat

\* Characters, by what the parser tells apart: q is the quote, b the backslash,
\* d a digit or '-', h a byte above 127, x anything else.  Nul ends the text.
Special == {"{", "}", "[", "]", ",", ":", "q", "d"}
Char == Special \cup {"b", "h", "x"}
None == "none"

VARIABLES
    parses,     \* how many texts were parsed
    kind,       \* of the text: a JSON document or anything
    outcome,    \* "idle", "run", what Paser returned, or where it went wrong
    pos,        \* textPos - m_text, in characters
    begin,      \* beginPos - m_text
    prev,       \* prevChar
    here,       \* the character to be looked at again, after `continue`
    state,      \* m_currentState
    expect,     \* m_expectNextValueType
    values,     \* the Values allocated for this text, in order
    root, cur,  \* m_root and m_currentValue: indices of values, or 0
    phase,      \* reference: what may come next
    open,       \* reference: indices of the open Values, outermost first
    tree        \* reference: the Values of the document so far

parserVars == <<prev, begin, pos, here>>
treeVars == <<values, root, cur, expect>>
refVars == <<phase, open, tree>>
textVars == <<parses, kind>>
vars == <<textVars, outcome, parserVars, state, treeVars, refVars>>

Role == {"KEY", "VALUE", "ARRAY", "OBJECT"}
Running == outcome = "run"

\* A Value with its parent and its data: text positions from..to, none if to = 0.
NewValue(role, parent) == [role |-> role, parent |-> parent, from |-> 0, to |-> 0]

TypeOK ==
    /\ parses \in 0 .. MaxParses
    /\ outcome \in {"idle", "run", "true", "false", "object", "assert", "null", "print"}
    /\ kind \in Kinds
    /\ pos \in 0 .. MaxText[kind]
    /\ begin \in 0 .. pos
    /\ prev \in Char \cup {None}
    /\ here \in Special \cup {None}
    /\ state \in {"IN_ELEM", "OUT_ELEM"}
    /\ expect \in {"KEY", "VALUE"}
    /\ root \in 0 .. Len(values)
    /\ cur \in 0 .. Len(values)
    /\ \A i \in DOMAIN values :
        /\ values[i].role \in Role
        /\ values[i].parent \in 0 .. (i - 1)
        /\ values[i].from <= values[i].to /\ values[i].to <= pos

Init ==
    /\ parses = 0 /\ kind \in Kinds
    /\ outcome = "idle"
    /\ pos = 0 /\ begin = 0
    /\ prev = None /\ here = None
    /\ state = "OUT_ELEM"
    /\ expect = "KEY"
    /\ values = <<>>
    /\ root = 0 /\ cur = 0
    /\ phase = "start"
    /\ open = <<>>
    /\ tree = <<>>

-----------------------------------------------------------------------------
(***************************************************************************)
(* The reference: documents and the tree they denote.                      *)
(***************************************************************************)
Top == open[Len(open)]
TopRole == IF open = <<>> THEN None ELSE tree[Top].role
Front(s) == SubSeq(s, 1, Len(s) - 1)
InString == phase \in {"string", "escape"}

Push(role, next) ==
    /\ tree' = Append(tree, [NewValue(role, IF open = <<>> THEN 0 ELSE Top) EXCEPT !.from = pos + 1])
    /\ open' = Append(open, Len(tree) + 1)
    /\ phase' = next

\* A value ends; with it the key it belongs to.
Pop ==
    LET rest == Front(open)
        left == IF rest # <<>> /\ tree[rest[Len(rest)]].role = "KEY" THEN Front(rest) ELSE rest
    IN  /\ open' = left
        /\ phase' = IF left = <<>> THEN "end" ELSE "after"

\* The character c of a document, at position pos.
Follows(c) ==
    \/ phase = "start" /\ c = "{" /\ Push("OBJECT", "firstKey")
    \/ phase \in {"firstKey", "key"} /\ c = "q" /\ Push("KEY", "string")
    \/ /\ phase \in {"value", "firstValue"}
       /\ \/ c = "q" /\ Push("VALUE", "string")
          \/ c = "[" /\ Push("ARRAY", "firstValue")
          \/ c = "{" /\ (Nested \/ TopRole = "ARRAY") /\ Push("OBJECT", "firstKey")
    \/ ~InString /\ c = "x" /\ UNCHANGED refVars
    \/ /\ phase = "string" /\ c \in {"x", "d", "b"}
       /\ phase' = IF c = "b" THEN "escape" ELSE "string"
       /\ UNCHANGED <<open, tree>>
    \/ /\ phase = "escape" /\ c \in {"x", "q"}
       /\ phase' = "string" /\ UNCHANGED <<open, tree>>
    \/ /\ phase = "string" /\ c = "q" /\ pos > tree[Top].from
       /\ tree' = [tree EXCEPT ![Top].to = pos]
       /\ IF TopRole = "KEY" THEN phase' = "colon" /\ UNCHANGED open ELSE Pop
    \/ phase = "colon" /\ c = ":" /\ phase' = "value" /\ UNCHANGED <<open, tree>>
    \/ /\ phase = "after" /\ c = ","
       /\ phase' = IF TopRole = "OBJECT" THEN "key" ELSE "value"
       /\ UNCHANGED <<open, tree>>
    \/ /\ \/ TopRole = "OBJECT" /\ c = "}" /\ phase \in {"firstKey", "after"}
          \/ TopRole = "ARRAY" /\ c = "]" /\ phase \in {"firstValue", "after"}
       /\ Pop /\ UNCHANGED tree

-----------------------------------------------------------------------------
(***************************************************************************)
(* StateMachine: which characters matter, and what they mean.              *)
(***************************************************************************)
\* Plausible bug: an escaped quote ends a string.
isSpecialCharNoEscape(c) == c \in Special /\ ~(state = "IN_ELEM" /\ c = "d")

isSpecialChar(c) ==
    /\ c \in Special
    /\ prev # "b"
    /\ ~(state = "IN_ELEM" /\ c = "d")

\* Next(): the action of a character.  A string or a number that is cut short
\* by '}', ']' or ',' is left first, and the character is looked at again.
\* isSpecialChar lets no digit through inside an element.
Cuts(c) == c \in {"}", "]", ","} /\ state = "IN_ELEM"
Action(c) ==
    CASE Cuts(c) -> "GET_OUT_ELEM"
      [] c = "q" -> IF state = "IN_ELEM" THEN "GET_OUT_ELEM" ELSE "INTO_ELEM"
      [] c = "d" -> "INTO_ELEM"
      [] c = "{" -> "INTO_OBJECT"
      [] c = "[" -> "INTO_ARRAY"
      [] c = "}" /\ ~Cuts(c) -> "GET_OUT_OBJECT"
      [] c = "]" /\ ~Cuts(c) -> "GET_OUT_ARRAY"
      [] c \in {",", ":"} /\ ~Cuts(c) -> "NEXT_ELEM"
NextState(c) == IF Action(c) = "INTO_ELEM" THEN "IN_ELEM" ELSE "OUT_ELEM"

-----------------------------------------------------------------------------
(***************************************************************************)
(* Json::onAction and its handlers, on the Values vs (after Value::Set).   *)
(***************************************************************************)
\* The Values below m_root; printing a string without data is undefined.
Unprintable(vs) ==
    root # 0 /\ \E i \in root .. Len(vs) : vs[i].role \in {"KEY", "VALUE"} /\ vs[i].to = 0

Stops(how) == outcome' = how /\ UNCHANGED <<root, cur, expect>>
Parent(vs, i) == vs[i].parent
RoleOf(vs, i) == IF i = 0 THEN None ELSE vs[i].role
\* From a key to the object it is in; from anything else nowhere.
AboveKey(vs, i) == IF RoleOf(vs, i) = "KEY" THEN Parent(vs, i) ELSE i

\* new Value(role), AddChild, and on to the child.
AddChild(vs, role) ==
    /\ values' = Append(vs, NewValue(role, cur))
    /\ cur' = Len(vs) + 1

\* Plausible bugs: m_expectNextValueType is not set; every object is the root.
onIntoObjectExpects(vs) ==
    /\ AddChild(vs, "OBJECT")
    /\ root' = IF cur = 0 THEN Len(vs) + 1 ELSE root
    /\ UNCHANGED <<expect, outcome>>

onIntoObjectRoots(vs) ==
    /\ AddChild(vs, "OBJECT")
    /\ root' = Len(vs) + 1
    /\ expect' = "KEY"
    /\ UNCHANGED outcome

onIntoObject(vs) ==
    /\ AddChild(vs, "OBJECT")
    /\ root' = IF cur = 0 THEN Len(vs) + 1 ELSE root
    /\ expect' = "KEY"
    /\ UNCHANGED outcome

onGetOutObject(vs) ==
    /\ values' = vs
    /\ CASE cur = 0 -> Stops("false")
         [] cur # 0 /\ RoleOf(vs, cur) # "OBJECT" -> Stops("object")
         [] OTHER -> cur' = Parent(vs, cur) /\ UNCHANGED <<root, expect, outcome>>

onIntoArray(vs) ==
    IF cur = 0 THEN values' = vs /\ Stops("null")
    ELSE AddChild(vs, "ARRAY") /\ expect' = "VALUE" /\ UNCHANGED <<root, outcome>>

\* Plausible bug, the one onGetOutObject has: the key is not left with its value.
onGetOutArrayKey(vs) ==
    /\ values' = vs
    /\ CASE cur = 0 -> Stops("null")
         [] cur # 0 /\ RoleOf(vs, cur) # "ARRAY" -> Stops("assert")
         [] OTHER -> cur' = Parent(vs, cur) /\ UNCHANGED <<root, expect, outcome>>

onGetOutArray(vs) ==
    /\ values' = vs
    /\ CASE cur = 0 -> Stops("null")
         [] cur # 0 /\ RoleOf(vs, cur) # "ARRAY" -> Stops("assert")
         [] OTHER -> cur' = AboveKey(vs, Parent(vs, cur)) /\ UNCHANGED <<root, expect, outcome>>

onIntoElement(vs) ==
    IF cur = 0 THEN values' = vs /\ Stops("assert")
    ELSE AddChild(vs, expect) /\ UNCHANGED <<root, expect, outcome>>

onGetOutElement(vs) ==
    /\ values' = vs
    /\ CASE cur = 0 -> Stops("false")
         [] RoleOf(vs, cur) = "KEY" -> UNCHANGED <<root, cur, expect, outcome>>
         [] OTHER -> cur' = AboveKey(vs, Parent(vs, cur)) /\ UNCHANGED <<root, expect, outcome>>

onNextElement(vs) ==
    /\ values' = vs
    /\ IF cur = 0 THEN Stops("null")
       ELSE /\ expect' = IF RoleOf(vs, cur) \in {"KEY", "ARRAY"} THEN "VALUE" ELSE "KEY"
            /\ UNCHANGED <<root, cur, outcome>>

onAction(action, vs) ==
    IF Unprintable(vs) THEN values' = vs /\ Stops("print")
    ELSE CASE action = "INTO_OBJECT" -> onIntoObject(vs)
           [] action = "GET_OUT_OBJECT" -> onGetOutObject(vs)
           [] action = "INTO_ARRAY" -> onIntoArray(vs)
           [] action = "GET_OUT_ARRAY" -> onGetOutArray(vs)
           [] action = "INTO_ELEM" -> onIntoElement(vs)
           [] action = "GET_OUT_ELEM" -> onGetOutElement(vs)
           [] action = "NEXT_ELEM" -> onNextElement(vs)

-----------------------------------------------------------------------------
(***************************************************************************)
(* The calls: Set, and the loop of Paser.                                  *)
(***************************************************************************)
\* Plausible bug: m_currentValue still points into the old tree.
SetKeepsCurrent ==
    /\ outcome \in {"idle", "true", "false"}
    /\ parses < MaxParses
    /\ parses' = parses + 1 /\ kind' \in Kinds
    /\ outcome' = "run"
    /\ values' = <<>> /\ root' = 0
    /\ pos' = 0 /\ begin' = 0 /\ prev' = None /\ here' = None
    /\ phase' = "start" /\ open' = <<>> /\ tree' = <<>>
    /\ UNCHANGED <<state, expect, cur>>

\* Set drops the tree of the previous text, if that parse has returned; the
\* state machine and m_expectNextValueType keep what it left in them.
Set ==
    /\ outcome \in {"idle", "true", "false"}
    /\ parses < MaxParses
    /\ parses' = parses + 1 /\ kind' \in Kinds
    /\ outcome' = "run"
    /\ values' = <<>> /\ root' = 0 /\ cur' = 0
    /\ pos' = 0 /\ begin' = 0 /\ prev' = None /\ here' = None
    /\ phase' = "start" /\ open' = <<>> /\ tree' = <<>>
    /\ UNCHANGED <<state, expect>>

\* Everything before the first '{' is skipped: in a document, blanks.
Skipping == values = <<>>
Skip(c) ==
    /\ Running /\ Skipping
    /\ c # "{" /\ (kind = "document" => c = "x")
    /\ pos < MaxText[kind]
    /\ pos' = pos + 1 /\ begin' = pos + 1
    /\ UNCHANGED <<textVars, outcome, prev, here, state, treeVars, refVars>>

\* The character under textPos: read for the first time, or looked at again.
At(c) ==
    /\ Running
    /\ IF here # None THEN c = here /\ UNCHANGED refVars
       ELSE /\ pos < MaxText[kind]
            /\ Skipping => c = "{"
            /\ IF kind = "document" THEN Follows(c) ELSE UNCHANGED refVars
    /\ UNCHANGED textVars

\* A byte above 127 is negative as a char, and CharMap reads in front of its
\* array (pasertool.cpp:286-290): what is there may call the byte special.  No
\* case of Next() is for it, so there is no action, and onAction asserts.
HighByte ==
    /\ At("h")
    /\ prev # "b"
    /\ outcome' = IF Unprintable(values) THEN "print" ELSE "assert"
    /\ UNCHANGED <<parserVars, state, treeVars>>

Ordinary(c) ==
    /\ At(c)
    /\ ~isSpecialChar(c)
    /\ prev' = c /\ pos' = pos + 1
    /\ UNCHANGED <<outcome, begin, here, state, treeVars>>

\* Leaving an element gives it its data, unless there is none.
WithData(action) ==
    IF action = "GET_OUT_ELEM" /\ cur # 0 /\ pos > begin
    THEN [values EXCEPT ![cur].from = begin, ![cur].to = pos] ELSE values

Significant(c) ==
    /\ At(c)
    /\ isSpecialChar(c)
    /\ state' = NextState(c)
    /\ onAction(Action(c), WithData(Action(c)))
    /\ IF Cuts(c)
       THEN here' = c /\ UNCHANGED <<prev, pos, begin>>
       ELSE here' = None /\ prev' = c /\ pos' = pos + 1 /\ begin' = pos + 1

\* The end of the text: Paser prints the tree and returns true.
EndOfText ==
    /\ Running /\ here = None
    /\ kind = "document" => phase = "end"
    /\ outcome' = IF Skipping THEN "false" ELSE IF Unprintable(values) THEN "print" ELSE "true"
    /\ UNCHANGED <<textVars, parserVars, state, treeVars, refVars>>

Next ==
    \/ Set \/ EndOfText \/ HighByte
    \/ \E c \in Char : Skip(c) \/ Ordinary(c) \/ Significant(c)

Spec == Init /\ [][Next]_vars

-----------------------------------------------------------------------------
(***************************************************************************)
(* Properties.                                                             *)
(***************************************************************************)
\* On a plain document (Nested = FALSE; see the top of this module) the parser
\* stands where the document is: m_currentValue is the innermost open Value, and
\* the tree built so far is the one the document denotes, with the same parents
\* and the same data (json.cpp:117-297), whatever text was parsed before.
TreeMatches ==
    kind = "document" /\ outcome = "run" /\ here = None =>
        /\ cur = (IF open = <<>> THEN 0 ELSE Top)
        /\ Len(values) = Len(tree)
        /\ \A i \in DOMAIN tree :
            /\ values[i].role = tree[i].role
            /\ values[i].parent = tree[i].parent
            /\ values[i].to = tree[i].to
            /\ tree[i].to # 0 => values[i].from = tree[i].from

\* No plain document is refused, none runs into an assertion or a null pointer,
\* and at every special character the tree has data wherever Print reads it.
Accepts == kind = "document" => outcome \in {"idle", "run", "true"}

\* For any text: what hangs below m_root is one tree, m_currentValue is in it or
\* null, and an element is open only while it is the current Value, a leaf.
OneTree ==
    Running =>
        /\ \A i \in DOMAIN values : i > root => values[i].parent >= root
        /\ cur = 0 \/ cur >= root
        /\ state = "IN_ELEM" /\ values # <<>> =>
              /\ RoleOf(values, cur) \in {"KEY", "VALUE"}
              /\ \A i \in DOMAIN values : values[i].parent # cur

\* A text is parsed as if it were the first: whatever state the previous text
\* left behind, the first '{' (json.cpp:76-83) starts from the same state.
FreshStart ==
    Len(values) = 1 /\ here = None /\ pos = begin /\ Running =>
        root = 1 /\ cur \in {0, 1} /\ state = "OUT_ELEM" /\ (cur = 1 => expect = "KEY")

\* A closing brace meets an open object: the assertion at json.cpp:192 holds.
ObjectIsOpen == outcome # "object"
=============================================================================
