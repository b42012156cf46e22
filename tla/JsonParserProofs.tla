-------------------------- MODULE JsonParserProofs --------------------------
(***************************************************************************)
(* Proofs about JsonParser, for texts of any length and any number of      *)
(* parses.                                                                 *)
(*                                                                         *)
(* ParserInv holds for every text: where m_root and m_currentValue are in  *)
(* the tree, and what is true of an element that is open.                  *)
(*                                                                         *)
(* DocInv holds while the text is a plain document: the parser's tree      *)
(* mirrors the reference's, the open Values are a path in it that ends at  *)
(* m_currentValue, and the phase of the document says what the parser's    *)
(* state is.  Opening a Value (Pushing) and closing one (Popping) keep     *)
(* the two together.                                                       *)
(***************************************************************************)
EXTENDS JsonParser, SequenceTheorems, TLAPS

-----------------------------------------------------------------------------
(***************************************************************************)
(* Any text.                                                               *)
(***************************************************************************)
Value == [role : Role, parent : Nat, from : Nat, to : Nat]

\* Values, each behind its parent and with data that was read already.
IsTree(vs) ==
    /\ vs \in Seq(Value)
    /\ \A i \in DOMAIN vs : vs[i].parent < i /\ vs[i].from <= vs[i].to /\ vs[i].to <= pos

Shapes == TypeOK /\ IsTree(values) /\ pos \in Nat /\ begin \in Nat

\* A character that is looked at again is special for a second time.
Again ==
    here # None =>
        /\ here \in {"}", "]", ","} /\ state = "OUT_ELEM" /\ prev # "b"
        /\ pos < MaxText[kind] /\ values # <<>>

Start == values = <<>> => root = 0 /\ cur = 0 /\ prev = None /\ here = None /\ begin = pos

\* m_root is an object without a parent, with a tree below it that contains
\* m_currentValue.
Rooted ==
    values # <<>> =>
        /\ root \in DOMAIN values /\ values[root].role = "OBJECT" /\ values[root].parent = 0
        /\ \A i \in DOMAIN values : i > root => values[i].parent >= root
        /\ cur = 0 \/ cur >= root

\* An element is open only as the current Value, a leaf.
Leaf ==
    state = "IN_ELEM" /\ values # <<>> =>
        /\ RoleOf(values, cur) \in {"KEY", "VALUE"}
        /\ \A i \in DOMAIN values : values[i].parent # cur

\* As long as the root has no children nothing of an earlier text shows.
First ==
    Len(values) = 1 => root = 1 /\ cur \in {0, 1} /\ state = "OUT_ELEM" /\ (cur = 1 => expect = "KEY")

TextInv == Running => Again /\ Start /\ Rooted /\ Leaf /\ First
ParserInv == Shapes /\ TextInv

LEMMA Positions ==
    ASSUME Shapes
    PROVE  /\ kind \in Kinds /\ MaxText[kind] \in Nat
           /\ pos \in Nat /\ pos <= MaxText[kind] /\ begin \in Nat /\ begin <= pos
           /\ prev \in Char \cup {None}
<1>1. kind \in Kinds /\ pos \in 0 .. MaxText[kind] /\ begin \in 0 .. pos
  BY DEF Shapes, TypeOK
<1>2. MaxText[kind] \in Nat
  BY <1>1, JsonAssumption
<1>3. QED
  BY <1>1, <1>2 DEF Shapes, TypeOK

\* What leaving an element does to the Values: one of them gets its data.
SameTree(vs) ==
    /\ IsTree(vs) /\ Len(vs) = Len(values) /\ DOMAIN vs = DOMAIN values
    /\ \A i \in DOMAIN values : vs[i].role = values[i].role /\ vs[i].parent = values[i].parent

LEMMA DataFits ==
    ASSUME Shapes, NEW action
    PROVE  SameTree(WithData(action))
<1>1. CASE action = "GET_OUT_ELEM" /\ cur # 0 /\ pos > begin
  <2>1. cur \in 1 .. Len(values) /\ values \in Seq(Value) /\ DOMAIN values = 1 .. Len(values)
    BY <1>1 DEF Shapes, TypeOK, IsTree
  <2>2. DEFINE v == [values[cur] EXCEPT !.from = begin, !.to = pos]
  <2>3. values[cur] \in Value
    BY <2>1, ElementOfSeq
  <2>4. /\ v \in Value /\ v.role = values[cur].role /\ v.parent = values[cur].parent
        /\ v.from = begin /\ v.to = pos
    BY <2>3 DEF Value, Shapes
  <2>5. WithData(action) = [values EXCEPT ![cur] = v]
    BY <1>1, <2>1 DEF WithData
  <2> HIDE DEF v
  <2>6. /\ [values EXCEPT ![cur] = v] \in Seq(Value)
        /\ Len([values EXCEPT ![cur] = v]) = Len(values)
        /\ \A j \in 1 .. Len(values) :
              [values EXCEPT ![cur] = v][j] = IF j = cur THEN v ELSE values[j]
    BY <2>1, <2>4, ExceptSeq
  <2>7. DOMAIN [values EXCEPT ![cur] = v] = DOMAIN values
    OBVIOUS
  <2>8. begin <= pos
    BY DEF Shapes, TypeOK
  <2>9. QED
    BY <2>1, <2>4, <2>5, <2>6, <2>7, <2>8 DEF SameTree, IsTree, Shapes
<1>2. CASE ~(action = "GET_OUT_ELEM" /\ cur # 0 /\ pos > begin)
  BY <1>2 DEF WithData, SameTree, Shapes
<1>3. QED
  BY <1>1, <1>2

-----------------------------------------------------------------------------
(***************************************************************************)
(* What an action does, by its effect on the tree.                         *)
(***************************************************************************)
Halts(vs) ==
    /\ outcome' \in {"false", "object", "assert", "null", "print"}
    /\ values' = vs /\ UNCHANGED <<root, cur, expect>>

Grows(vs) ==
    /\ outcome' = outcome /\ cur' = Len(vs) + 1
    /\ \E role \in Role :
        /\ values' = Append(vs, NewValue(role, cur))
        /\ \/ role = "OBJECT" /\ expect' = "KEY" /\ state' = "OUT_ELEM"
              /\ root' = IF cur = 0 THEN Len(vs) + 1 ELSE root
           \/ role = "ARRAY" /\ expect' = "VALUE" /\ state' = "OUT_ELEM"
              /\ cur # 0 /\ root' = root
           \/ role = expect /\ expect' = expect /\ state' = "IN_ELEM"
              /\ cur # 0 /\ root' = root

Moves(vs) ==
    /\ outcome' = outcome /\ values' = vs /\ root' = root /\ state' = "OUT_ELEM" /\ cur # 0
    /\ \/ cur' = cur /\ expect' = expect /\ RoleOf(vs, cur) = "KEY"
       \/ cur' = cur /\ expect' = IF RoleOf(vs, cur) \in {"KEY", "ARRAY"} THEN "VALUE" ELSE "KEY"
       \/ /\ cur' \in {Parent(vs, cur), AboveKey(vs, Parent(vs, cur))} /\ expect' = expect

LEMMA Effects ==
    ASSUME Shapes, NEW c \in Char, Significant(c)
    PROVE  \/ Halts(WithData(Action(c))) \/ Grows(WithData(Action(c)))
           \/ Moves(WithData(Action(c)))
<1> DEFINE vs == WithData(Action(c))
<1> SUFFICES Halts(vs) \/ Grows(vs) \/ Moves(vs)
  OBVIOUS
<1>0. /\ isSpecialChar(c) /\ state' = NextState(c) /\ onAction(Action(c), vs)
      /\ expect \in {"KEY", "VALUE"} /\ state \in {"IN_ELEM", "OUT_ELEM"} /\ c \in Special
  BY DEF Significant, Shapes, TypeOK, isSpecialChar
<1> HIDE DEF vs
<1>1. /\ Action(c) \in {"INTO_OBJECT", "GET_OUT_OBJECT", "INTO_ARRAY", "GET_OUT_ARRAY",
                        "INTO_ELEM", "GET_OUT_ELEM", "NEXT_ELEM"}
      /\ state' = IF Action(c) = "INTO_ELEM" THEN "IN_ELEM" ELSE "OUT_ELEM"
  BY <1>0 DEF Action, Cuts, Special, NextState
<1>2. CASE Unprintable(vs)
  BY <1>0, <1>2 DEF onAction, Stops, Halts
<1>3. CASE ~Unprintable(vs)
  <2>1. CASE Action(c) = "INTO_OBJECT"
    BY <1>0, <1>1, <1>3, <2>1 DEF onAction, onIntoObject, AddChild, Grows, Role
  <2>2. CASE Action(c) = "GET_OUT_OBJECT"
    BY <1>0, <1>1, <1>3, <2>2 DEF onAction, onGetOutObject, Stops, Halts, Moves
  <2>3. CASE Action(c) = "INTO_ARRAY"
    BY <1>0, <1>1, <1>3, <2>3 DEF onAction, onIntoArray, AddChild, Stops, Halts, Grows, Role
  <2>4. CASE Action(c) = "GET_OUT_ARRAY"
    BY <1>0, <1>1, <1>3, <2>4 DEF onAction, onGetOutArray, Stops, Halts, Moves
  <2>5. CASE Action(c) = "INTO_ELEM"
    BY <1>0, <1>1, <1>3, <2>5 DEF onAction, onIntoElement, AddChild, Stops, Halts, Grows, Role
  <2>6. CASE Action(c) = "GET_OUT_ELEM"
    BY <1>0, <1>1, <1>3, <2>6 DEF onAction, onGetOutElement, Stops, Halts, Moves, RoleOf, None
  <2>7. CASE Action(c) = "NEXT_ELEM"
    BY <1>0, <1>1, <1>3, <2>7 DEF onAction, onNextElement, Stops, Halts, Moves
  <2>8. QED
    BY <1>1, <2>1, <2>2, <2>3, <2>4, <2>5, <2>6, <2>7
<1>4. QED
  BY <1>2, <1>3

-----------------------------------------------------------------------------
LEMMA Appended ==
    ASSUME NEW vs \in Seq(Value), NEW v \in Value
    PROVE  /\ Append(vs, v) \in Seq(Value) /\ Len(Append(vs, v)) = Len(vs) + 1
           /\ Append(vs, v)[Len(vs) + 1] = v
           /\ \A i \in DOMAIN vs : Append(vs, v)[i] = vs[i]
           /\ DOMAIN Append(vs, v) = DOMAIN vs \cup {Len(vs) + 1}
           /\ DOMAIN vs = 1 .. Len(vs) /\ Len(vs) \in Nat
<1>1. Append(vs, v) \in Seq(Value)
  BY AppendProperties
<1>2. DOMAIN Append(vs, v) = 1 .. Len(Append(vs, v)) /\ DOMAIN vs = 1 .. Len(vs) /\ Len(vs) \in Nat
  BY <1>1, LenProperties
<1>3. QED
  BY <1>2, AppendProperties

LEMMA NewValueFits ==
    ASSUME NEW role \in Role, NEW parent \in Nat
    PROVE  /\ NewValue(role, parent) \in Value
           /\ NewValue(role, parent).role = role /\ NewValue(role, parent).parent = parent
           /\ NewValue(role, parent).from = 0 /\ NewValue(role, parent).to = 0
BY DEF NewValue, Value

\* Reading on keeps a tree a tree.
LEMMA ReadOn ==
    ASSUME Shapes, NEW vs, IsTree(vs), pos' \in Nat, pos <= pos'
    PROVE  IsTree(vs)'
<1> SUFFICES ASSUME NEW i \in DOMAIN vs
             PROVE  vs[i].parent < i /\ vs[i].from <= vs[i].to /\ vs[i].to <= pos'
  BY DEF IsTree
<1>1. vs[i] \in Value /\ pos \in Nat
  BY LenProperties, ElementOfSeq DEF IsTree, Shapes
<1>2. vs[i].to \in Nat
  BY <1>1 DEF Value
<1>3. QED
  BY <1>1, <1>2 DEF IsTree

LEMMA SameTreeFits ==
    ASSUME Shapes, NEW vs, SameTree(vs)
    PROVE  /\ IsTree(vs) /\ vs \in Seq(Value) /\ Len(vs) = Len(values) /\ Len(values) \in Nat
           /\ DOMAIN vs = 1 .. Len(values) /\ DOMAIN values = 1 .. Len(values)
           /\ (values = <<>> <=> Len(values) = 0)
           /\ \A i \in DOMAIN values :
                /\ vs[i].role = values[i].role /\ vs[i].parent = values[i].parent
                /\ values[i] \in Value /\ vs[i] \in Value /\ vs[i].parent < i
<1>1. values \in Seq(Value) /\ vs \in Seq(Value)
  BY DEF SameTree, IsTree, Shapes
<1>2. DOMAIN vs = 1 .. Len(vs) /\ DOMAIN values = 1 .. Len(values) /\ Len(values) \in Nat
  BY <1>1, LenProperties
<1>3. values = <<>> <=> Len(values) = 0
  BY <1>1, EmptySeq
<1>4. \A i \in DOMAIN values : values[i] \in Value
  BY <1>1, <1>2, ElementOfSeq
<1>5. \A i \in DOMAIN vs : vs[i] \in Value
  BY <1>1, <1>2, ElementOfSeq
<1>6. QED
  BY <1>1, <1>2, <1>3, <1>4, <1>5 DEF SameTree, IsTree

\* What every significant character does to the places in the text.
Reads ==
    /\ kind' = kind /\ parses' = parses
    /\ pos' \in Nat /\ pos <= pos' /\ pos' <= MaxText[kind]
    /\ begin' \in Nat /\ begin' <= pos'
    /\ prev' \in Char \cup {None} /\ here' \in Special \cup {None}
    /\ state' \in {"IN_ELEM", "OUT_ELEM"}
    /\ Again'

LEMMA HaltsKeep ==
    ASSUME ParserInv, NEW vs, SameTree(vs), Halts(vs), Reads
    PROVE  ParserInv'
<1>1. Shapes /\ IsTree(vs) /\ Len(vs) = Len(values) /\ DOMAIN vs = DOMAIN values
  BY DEF ParserInv, SameTree
<1>2. IsTree(vs)' /\ values' = vs
  BY <1>1, ReadOn DEF Halts, Reads
<1>3. IsTree(values)'
  BY <1>2 DEF IsTree
<1>4. TypeOK'
  <2>1. \A i \in DOMAIN values' :
              /\ values'[i].role \in Role
              /\ values'[i].parent \in 0 .. (i - 1)
              /\ values'[i].from <= values'[i].to /\ values'[i].to <= pos'
    <3>1. \A i \in DOMAIN vs : vs[i] \in Value
      BY <1>1, LenProperties, ElementOfSeq DEF IsTree
    <3>2. QED
      BY <1>1, <1>2, <3>1, LenProperties DEF IsTree, Value
  <2>2. QED
    BY <1>1, <1>2, <2>1 DEF TypeOK, Shapes, Halts, Reads
<1>5. QED
  BY <1>1, <1>3, <1>4 DEF ParserInv, Shapes, TextInv, Running, Halts, Reads

LEMMA GrowsKeep ==
    ASSUME ParserInv, Running, NEW vs, SameTree(vs), Grows(vs), Reads
    PROVE  ParserInv'
<1>0. /\ Shapes /\ Again /\ Start /\ Rooted /\ Leaf /\ First /\ expect \in {"KEY", "VALUE"}
      /\ outcome = "run" /\ outcome' = "run" /\ cur \in 0 .. Len(values)
  BY DEF ParserInv, TextInv, Shapes, TypeOK, Grows, Running
<1>1. /\ IsTree(vs) /\ vs \in Seq(Value) /\ Len(vs) = Len(values) /\ Len(values) \in Nat
      /\ DOMAIN vs = 1 .. Len(values) /\ DOMAIN values = 1 .. Len(values)
      /\ (values = <<>> <=> Len(values) = 0)
      /\ \A i \in DOMAIN values :
           /\ vs[i].role = values[i].role /\ vs[i].parent = values[i].parent
           /\ values[i] \in Value /\ vs[i] \in Value /\ vs[i].parent < i
  BY <1>0, SameTreeFits
<1>2. PICK role \in Role :
        /\ values' = Append(vs, NewValue(role, cur))
        /\ \/ role = "OBJECT" /\ expect' = "KEY" /\ state' = "OUT_ELEM"
              /\ root' = IF cur = 0 THEN Len(vs) + 1 ELSE root
           \/ role = "ARRAY" /\ expect' = "VALUE" /\ state' = "OUT_ELEM"
              /\ cur # 0 /\ root' = root
           \/ role = expect /\ expect' = expect /\ state' = "IN_ELEM"
              /\ cur # 0 /\ root' = root
  BY DEF Grows
<1>3. DEFINE n == Len(values) + 1
             new == NewValue(role, cur)
<1>4. /\ new \in Value /\ new.role = role /\ new.parent = cur /\ new.from = 0 /\ new.to = 0
  BY <1>0, <1>1, NewValueFits
<1> HIDE DEF new
<1>5. /\ values' \in Seq(Value) /\ Len(values') = n /\ values'[n] = new
      /\ \A i \in DOMAIN values : values'[i] = vs[i]
      /\ DOMAIN values' = 1 .. n /\ n \in Nat
      /\ cur' = n /\ cur < n /\ cur \in Nat
  <2>1. /\ Append(vs, new) \in Seq(Value) /\ Len(Append(vs, new)) = Len(vs) + 1
        /\ Append(vs, new)[Len(vs) + 1] = new
        /\ \A i \in DOMAIN vs : Append(vs, new)[i] = vs[i]
        /\ DOMAIN Append(vs, new) = DOMAIN vs \cup {Len(vs) + 1}
    BY <1>1, <1>4, Appended
  <2>2. values' = Append(vs, new) /\ cur' = Len(vs) + 1
    BY <1>2 DEF Grows, new
  <2>3. QED
    BY <1>0, <1>1, <2>1, <2>2
<1> HIDE DEF n
<1>6. IsTree(values)'
  <2>1. IsTree(vs)' /\ pos' \in Nat
    BY <1>0, <1>1, ReadOn DEF Reads
  <2>2. \A i \in DOMAIN values' : (i \in DOMAIN values /\ values'[i] = vs[i]) \/ (i = n /\ values'[i] = new)
    BY <1>1, <1>5 DEF n
  <2>3. QED
    BY <1>1, <1>4, <1>5, <2>1, <2>2 DEF IsTree
<1>7. TypeOK'
  <2>1. \A i \in DOMAIN values' :
              /\ values'[i].role \in Role
              /\ values'[i].parent \in 0 .. (i - 1)
              /\ values'[i].from <= values'[i].to /\ values'[i].to <= pos'
    <3>1. \A i \in DOMAIN values' : values'[i] \in Value
      BY <1>5, ElementOfSeq
    <3>2. QED
      BY <1>5, <1>6, <3>1 DEF IsTree, Value
  <2>2. root' \in 0 .. Len(values')
    BY <1>0, <1>1, <1>2, <1>5 DEF Shapes, TypeOK, n
  <2>3. cur' \in 0 .. Len(values') /\ expect' \in {"KEY", "VALUE"}
    BY <1>0, <1>2, <1>5
  <2>4. QED
    BY <1>0, <1>6, <2>1, <2>2, <2>3 DEF TypeOK, Shapes, Reads
<1>8. values' # <<>> /\ \A i \in DOMAIN values : values'[i].role = values[i].role /\ values'[i].parent = values[i].parent
  BY <1>1, <1>5, EmptySeq
<1>9. Rooted'
  <2>1. CASE cur = 0 /\ role = "OBJECT"
    <3>1. root' = n /\ values'[n].role = "OBJECT" /\ values'[n].parent = 0
      BY <1>1, <1>2, <1>4, <1>5, <2>1 DEF n
    <3>2. QED
      BY <1>5, <3>1 DEF Rooted
  <2>2. CASE cur # 0
    <3>1. values # <<>> /\ root' = root /\ cur >= root
      BY <1>0, <1>1, <1>2, <2>2 DEF Rooted, Start
    <3>2. /\ root \in DOMAIN values /\ values[root].role = "OBJECT" /\ values[root].parent = 0
          /\ \A i \in DOMAIN values : i > root => values[i].parent >= root
      BY <1>0, <3>1 DEF Rooted
    <3>3. root \in DOMAIN values' /\ values'[root].role = "OBJECT" /\ values'[root].parent = 0
      BY <1>1, <1>5, <1>8, <3>2 DEF n
    <3>4. \A i \in DOMAIN values' : i > root => values'[i].parent >= root
      BY <1>1, <1>4, <1>5, <1>8, <3>1, <3>2 DEF n
    <3>5. cur' >= root
      BY <1>1, <1>5, <3>2 DEF n
    <3>6. QED
      BY <3>1, <3>3, <3>4, <3>5 DEF Rooted
  <2>3. QED
    BY <1>0, <1>2, <2>1, <2>2
<1>10. Leaf'
  <2>1. ASSUME state' = "IN_ELEM"
        PROVE  values'[n].role \in {"KEY", "VALUE"}
    BY <1>0, <1>2, <1>4, <1>5, <2>1
  <2>2. \A i \in DOMAIN values' : values'[i].parent < n
    <3>1. \A i \in DOMAIN values : values'[i].parent \in Nat /\ values'[i].parent < i /\ i < n
      BY <1>1, <1>8 DEF n, Value
    <3>2. values'[n].parent < n
      BY <1>4, <1>5
    <3>3. \A i \in DOMAIN values' : i \in DOMAIN values \/ i = n
      BY <1>1, <1>5 DEF n
    <3>4. QED
      BY <1>1, <1>5, <3>1, <3>2, <3>3
  <2>3. \A i \in DOMAIN values' : values'[i].parent # n
    <3>1. \A i \in DOMAIN values' : values'[i] \in Value
      BY <1>5, ElementOfSeq
    <3>2. QED
      BY <1>5, <2>2, <3>1 DEF Value
  <2>4. QED
    BY <1>1, <1>5, <2>1, <2>3 DEF Leaf, RoleOf, n
<1>11. First'
  <2>1. ASSUME Len(values') = 1
        PROVE  n = 1 /\ values = <<>> /\ cur = 0 /\ root = 0
    BY <1>0, <1>1, <1>5, <2>1 DEF n, Start
  <2>2. QED
    BY <1>0, <1>1, <1>2, <1>5, <2>1 DEF First, n
<1>12. Start'
  BY <1>8 DEF Start
<1>13. Shapes'
  BY <1>6, <1>7 DEF Shapes, Reads
<1>14. QED
  BY <1>0, <1>9, <1>10, <1>11, <1>12, <1>13 DEF ParserInv, TextInv, Reads

LEMMA MovesKeep ==
    ASSUME ParserInv, Running, NEW vs, SameTree(vs), Moves(vs), Reads
    PROVE  ParserInv'
<1>0. /\ Shapes /\ Again /\ Start /\ Rooted /\ Leaf /\ First /\ expect \in {"KEY", "VALUE"}
      /\ outcome = "run" /\ outcome' = "run" /\ cur \in 1 .. Len(values)
      /\ values' = vs /\ root' = root /\ state' = "OUT_ELEM"
  BY DEF ParserInv, TextInv, Shapes, TypeOK, Moves, Running
<1>1. /\ IsTree(vs) /\ vs \in Seq(Value) /\ Len(vs) = Len(values) /\ Len(values) \in Nat
      /\ DOMAIN vs = 1 .. Len(values) /\ DOMAIN values = 1 .. Len(values)
      /\ (values = <<>> <=> Len(values) = 0)
      /\ \A i \in DOMAIN values :
           /\ vs[i].role = values[i].role /\ vs[i].parent = values[i].parent
           /\ values[i] \in Value /\ vs[i] \in Value /\ vs[i].parent < i
  BY <1>0, SameTreeFits
<1>2. \A i \in DOMAIN values : values[i].parent \in Nat
  BY <1>1 DEF Value
<1>3. values # <<>> /\ values' # <<>>
  BY <1>0, <1>1, EmptySeq
<1>4. /\ root \in DOMAIN values /\ values[root].role = "OBJECT" /\ values[root].parent = 0
      /\ \A i \in DOMAIN values : i > root => values[i].parent >= root
      /\ cur >= root
  BY <1>0, <1>3 DEF Rooted
<1>5. values[cur].parent \in 0 .. Len(values)
      /\ (cur > root => values[cur].parent >= root) /\ (cur = root => values[cur].parent = 0)
  BY <1>0, <1>1, <1>2, <1>4
<1>6. AboveKey(vs, values[cur].parent) \in 0 .. Len(values)
      /\ (AboveKey(vs, values[cur].parent) = 0 \/ AboveKey(vs, values[cur].parent) >= root)
      /\ (cur = root => AboveKey(vs, values[cur].parent) = 0)
  <2>1. CASE values[cur].parent = 0
    BY <1>1, <2>1 DEF AboveKey, RoleOf, None
  <2>2. CASE values[cur].parent # 0
    <3>1. /\ values[cur].parent \in DOMAIN values /\ values[cur].parent >= root
          /\ cur # root
      BY <1>0, <1>1, <1>4, <1>5, <2>2
    <3>2. CASE values[values[cur].parent].role = "KEY"
      <4>1. values[cur].parent > root
        BY <1>4, <3>1, <3>2, <1>1
      <4>2. AboveKey(vs, values[cur].parent) = values[values[cur].parent].parent
        BY <1>1, <2>2, <3>1, <3>2 DEF AboveKey, RoleOf, Parent
      <4>3. values[values[cur].parent].parent >= root
            /\ values[values[cur].parent].parent \in 0 .. Len(values)
        BY <1>1, <1>2, <1>4, <3>1, <4>1
      <4>4. QED
        BY <3>1, <4>2, <4>3
    <3>3. CASE values[values[cur].parent].role # "KEY"
      <4>1. AboveKey(vs, values[cur].parent) = values[cur].parent
        BY <1>1, <2>2, <3>1, <3>3 DEF AboveKey, RoleOf
      <4>2. QED
        BY <1>5, <3>1, <4>1
    <3>4. QED
      BY <3>2, <3>3
  <2>3. QED
    BY <2>1, <2>2
<1>7. /\ cur' \in 0 .. Len(values) /\ (cur' = 0 \/ cur' >= root)
      /\ expect' \in {"KEY", "VALUE"}
      /\ cur = root => cur' \in {0, root} /\ (cur' = root => expect' \in {expect, "KEY"})
  <2>1. Parent(vs, cur) = values[cur].parent /\ (cur = root => RoleOf(vs, cur) = "OBJECT")
    BY <1>0, <1>1, <1>4 DEF Parent, RoleOf
  <2>2. CASE cur' = cur
    BY <1>0, <1>1, <1>4, <2>1, <2>2 DEF Moves
  <2>3. CASE cur' # cur
    <3>1. cur' \in {values[cur].parent, AboveKey(vs, values[cur].parent)} /\ expect' = expect
      BY <2>1, <2>3 DEF Moves
    <3>2. QED
      BY <1>0, <1>1, <1>4, <1>5, <1>6, <3>1
  <2>4. QED
    BY <2>2, <2>3
<1>8. IsTree(values)'
  <2>1. IsTree(vs)'
    BY <1>0, <1>1, ReadOn DEF Reads
  <2>2. QED
    BY <1>0, <2>1 DEF IsTree
<1>9. TypeOK'
  <2>1. \A i \in DOMAIN values' :
              /\ values'[i].role \in Role
              /\ values'[i].parent \in 0 .. (i - 1)
              /\ values'[i].from <= values'[i].to /\ values'[i].to <= pos'
    <3>1. \A i \in DOMAIN values' : values'[i].parent \in 0 .. (i - 1) /\ values'[i] \in Value
      BY <1>0, <1>1, <1>2
    <3>2. QED
      BY <1>8, <3>1 DEF IsTree, Value
  <2>2. QED
    BY <1>0, <1>1, <1>7, <2>1 DEF TypeOK, Shapes, Reads
<1>10. Rooted'
  BY <1>0, <1>1, <1>4, <1>7 DEF Rooted
<1>11. First'
  <2>1. ASSUME Len(values) = 1
        PROVE  root = 1 /\ cur = root /\ expect = "KEY"
    BY <1>0, <2>1 DEF First
  <2>2. Len(values') = Len(values)
    BY <1>0, <1>1
  <2>3. QED
    BY <1>0, <1>7, <2>1, <2>2 DEF First
<1>12. Start' /\ Leaf'
  BY <1>0, <1>3 DEF Start, Leaf
<1>13. Shapes'
  BY <1>8, <1>9 DEF Shapes, Reads
<1>14. QED
  BY <1>0, <1>10, <1>11, <1>12, <1>13 DEF ParserInv, TextInv, Reads

-----------------------------------------------------------------------------
(***************************************************************************)
(* The steps.                                                              *)
(***************************************************************************)
LEMMA SignificantKeeps ==
    ASSUME ParserInv, NEW c \in Char, Significant(c)
    PROVE  ParserInv'
<1>0. /\ Shapes /\ Again /\ Start /\ Running
      /\ kind' = kind /\ parses' = parses /\ state' = NextState(c)
      /\ isSpecialChar(c) /\ c \in Special
      /\ IF here # None THEN c = here ELSE pos < MaxText[kind]
      /\ IF Cuts(c) THEN here' = c /\ UNCHANGED <<prev, pos, begin>>
         ELSE here' = None /\ prev' = c /\ pos' = pos + 1 /\ begin' = pos + 1
  BY DEF ParserInv, TextInv, Significant, At, textVars, isSpecialChar
<1>1. /\ MaxText[kind] \in Nat /\ pos \in Nat /\ begin \in Nat /\ begin <= pos /\ pos < MaxText[kind]
      /\ prev \in Char \cup {None} /\ pos <= MaxText[kind]
  BY <1>0, Positions DEF Again
<1> DEFINE vs == WithData(Action(c))
<1>2. SameTree(vs) /\ Len(vs) = Len(values) /\ vs \in Seq(Value) /\ values \in Seq(Value)
  BY <1>0, DataFits DEF SameTree, IsTree, Shapes
<1>3. Halts(vs) \/ Grows(vs) \/ Moves(vs)
  BY <1>0, Effects
<1> HIDE DEF vs
<1>4. NextState(c) \in {"IN_ELEM", "OUT_ELEM"}
  BY DEF NextState
<1>5. ASSUME Cuts(c) PROVE NextState(c) = "OUT_ELEM" /\ values # <<>>
  BY <1>0, <1>5 DEF Cuts, NextState, Action, Start, Significant, At, Skipping
<1>6. Again'
  <2>1. CASE Cuts(c) /\ ~Halts(vs)
    <3>1. values' # <<>>
      <4>1. CASE Grows(vs)
        BY <1>2, <4>1, AppendProperties, EmptySeq, NewValueFits, <1>0 DEF Grows, Shapes, TypeOK
      <4>2. CASE Moves(vs)
        BY <1>2, <1>5, <2>1, <4>2, EmptySeq DEF Moves
      <4>3. QED
        BY <1>3, <2>1, <4>1, <4>2
    <3>2. QED
      BY <1>0, <1>1, <1>5, <2>1, <3>1 DEF Again, Cuts, isSpecialChar
  <2>2. CASE ~Cuts(c)
    BY <1>0, <2>2 DEF Again
  <2>3. CASE Cuts(c) /\ Halts(vs)
    BY <1>0, <1>1, <1>2, <1>5, <2>3, EmptySeq DEF Again, Cuts, isSpecialChar, Halts
  <2>4. QED
    BY <2>1, <2>2, <2>3
<1>7. Reads
  BY <1>0, <1>1, <1>4, <1>6 DEF Reads
<1>8. QED
  BY <1>0, <1>2, <1>3, <1>7, HaltsKeep, GrowsKeep, MovesKeep

LEMMA SetKeeps ==
    ASSUME ParserInv, Set
    PROVE  ParserInv'
<1>1. <<>> \in Seq(Value) /\ Len(<<>>) = 0 /\ DOMAIN <<>> = {}
  BY EmptySeq
<1>2. kind' \in Kinds /\ MaxText[kind'] \in Nat
  BY JsonAssumption DEF Set
<1>3. Shapes'
  <2>1. 0 \in 0 .. MaxText[kind'] /\ parses' \in 0 .. MaxParses
    BY <1>2, JsonAssumption DEF Set, ParserInv, Shapes, TypeOK
  <2>2. TypeOK'
    BY <1>1, <1>2, <2>1 DEF ParserInv, Shapes, TypeOK, Set
  <2>3. QED
    BY <1>1, <2>2 DEF Shapes, IsTree, Set
<1>4. TextInv'
  BY <1>1 DEF TextInv, Again, Start, Rooted, Leaf, First, Set
<1>5. QED
  BY <1>3, <1>4 DEF ParserInv

LEMMA EndKeeps ==
    ASSUME ParserInv, EndOfText
    PROVE  ParserInv'
BY DEF ParserInv, Shapes, TypeOK, IsTree, TextInv, Running, EndOfText,
              parserVars, treeVars, textVars

LEMMA SkipKeeps ==
    ASSUME ParserInv, NEW c \in Char, Skip(c)
    PROVE  ParserInv'
<1>1. Shapes /\ TextInv /\ Running /\ Start /\ values = <<>> /\ Len(values) = 0
  BY EmptySeq DEF ParserInv, TextInv, Skip, Skipping
<1>2. Shapes'
  <2>1. pos' = pos + 1 /\ begin' = pos + 1 /\ pos < MaxText[kind]
    BY DEF Skip
  <2>2. MaxText[kind] \in Nat /\ pos \in Nat
    BY <1>1, Positions
  <2>3. pos' \in Nat /\ begin' \in Nat /\ pos' \in 0 .. MaxText[kind] /\ begin' \in 0 .. pos'
    BY <2>1, <2>2
  <2>4. /\ values' = <<>> /\ TypeOK
        /\ UNCHANGED <<parses, kind, outcome, prev, here, state, expect, root, cur>>
    BY <1>1 DEF Skip, treeVars, textVars, Shapes
  <2>5. DOMAIN <<>> = {} /\ Len(<<>>) = 0 /\ <<>> \in Seq(Value)
    BY EmptySeq
  <2>6. TypeOK'
    BY <1>1, <2>3, <2>4, <2>5 DEF TypeOK
  <2>7. IsTree(values)'
    BY <2>4, <2>5 DEF IsTree
  <2>8. QED
    BY <2>3, <2>6, <2>7 DEF Shapes
<1>3. Running' /\ TextInv'
  BY <1>1 DEF TextInv, Running, Again, Start, Rooted, Leaf, First, Skip, treeVars, textVars
<1>4. QED
  BY <1>2, <1>3 DEF ParserInv

LEMMA OrdinaryKeeps ==
    ASSUME ParserInv, NEW c \in Char, Ordinary(c)
    PROVE  ParserInv'
<1>1. /\ Shapes /\ Running /\ Again /\ Start /\ Rooted /\ Leaf /\ First
      /\ kind' = kind /\ parses' = parses /\ pos' = pos + 1 /\ prev' = c
      /\ UNCHANGED <<outcome, begin, here, state, values, root, cur, expect>>
      /\ ~isSpecialChar(c)
      /\ IF here # None THEN c = here ELSE pos < MaxText[kind] /\ (values = <<>> => c = "{")
  BY DEF ParserInv, TextInv, Ordinary, At, textVars, treeVars, Skipping
<1>2. here = None
  BY <1>1 DEF isSpecialChar, Again, Special
<1>3. values # <<>>
  BY <1>1, <1>2 DEF isSpecialChar, Start, Special, None
<1>4. /\ IsTree(values) /\ pos \in Nat /\ pos' = pos + 1 /\ begin \in Nat /\ begin <= pos
      /\ MaxText[kind] \in Nat
  BY <1>1, Positions DEF Shapes
<1>5. pos < MaxText[kind]
  BY <1>1, <1>2
<1>6. pos' \in Nat /\ pos <= pos' /\ pos' \in 0 .. MaxText[kind] /\ begin \in 0 .. pos'
  BY <1>4, <1>5
<1>7. IsTree(values)'
  <2>1. IsTree(values)' <=> /\ values \in Seq(Value)
                            /\ \A i \in DOMAIN values : /\ values[i].parent < i
                                  /\ values[i].from <= values[i].to /\ values[i].to <= pos'
    BY <1>1 DEF IsTree
  <2>2. \A i \in DOMAIN values : values[i].to \in Nat
    <3>1. \A i \in DOMAIN values : values[i] \in Value
      BY <1>4, LenProperties, ElementOfSeq DEF IsTree
    <3>2. QED
      BY <3>1 DEF Value
  <2>3. QED
    BY <1>4, <1>6, <2>1, <2>2 DEF IsTree
<1>8. TypeOK'
  <2>1. \A i \in DOMAIN values' : values'[i].from <= values'[i].to /\ values'[i].to <= pos'
    BY <1>7 DEF IsTree
  <2>2. /\ TypeOK /\ begin' = begin /\ prev' \in Char
        /\ UNCHANGED <<parses, kind, outcome, here, state, expect, values, root, cur>>
    BY <1>1 DEF Shapes
  <2>3. QED
    BY <1>6, <2>1, <2>2 DEF TypeOK
<1>9. TextInv'
  BY <1>1, <1>2, <1>3 DEF TextInv, Running, Again, Start, Rooted, Leaf, First, RoleOf
<1>10. QED
  BY <1>1, <1>4, <1>6, <1>7, <1>8, <1>9 DEF ParserInv, Shapes

LEMMA HighByteKeeps ==
    ASSUME ParserInv, HighByte
    PROVE  ParserInv'
<1>1. /\ outcome' \in {"print", "assert"}
      /\ UNCHANGED <<parses, kind, pos, begin, prev, here, state, values, root, cur, expect>>
  BY DEF HighByte, At, textVars, parserVars, treeVars
<1>2. Shapes /\ Shapes'
  BY <1>1 DEF ParserInv, Shapes, TypeOK, IsTree
<1>3. QED
  BY <1>1, <1>2 DEF ParserInv, TextInv, Running

\* Whatever characters arrive and however often a text is set, the parser is in
\* one of the states that its handlers were written for (json.cpp:117-297).
THEOREM ParserSound == Spec => []ParserInv
<1>1. Init => ParserInv
  <2> SUFFICES ASSUME Init PROVE ParserInv
    OBVIOUS
  <2>1. <<>> \in Seq(Value) /\ Len(<<>>) = 0 /\ DOMAIN <<>> = {}
    BY EmptySeq
  <2>2. QED
    BY <2>1, JsonAssumption
       DEF Init, ParserInv, Shapes, TypeOK, IsTree, TextInv, Running
<1>2. ParserInv /\ [Next]_vars => ParserInv'
  <2> SUFFICES ASSUME ParserInv, [Next]_vars PROVE ParserInv'
    OBVIOUS
  <2>1. CASE Next
    BY <2>1, SignificantKeeps, SetKeeps, EndKeeps, SkipKeeps, HighByteKeeps, OrdinaryKeeps
       DEF Next
  <2>2. CASE UNCHANGED vars
    BY <2>2 DEF vars, textVars, parserVars, treeVars, refVars, ParserInv, Shapes, TypeOK, IsTree,
                TextInv, Running, Again, Start, Rooted, Leaf, First, RoleOf
  <2>3. QED
    BY <2>1, <2>2
<1>3. QED
  BY <1>1, <1>2, PTL DEF Spec

\* Every variable keeps its type: the places stay inside the text, and every
\* Value is behind its parent and has data from what was read, for texts of any
\* length (json.cpp:66-115).
THEOREM TypeCorrect == Spec => []TypeOK
<1>1. ParserInv => TypeOK
  BY DEF ParserInv, Shapes
<1>2. QED
  BY <1>1, ParserSound, PTL

\* Whatever the text, what is below m_root is one tree that m_currentValue is in
\* (json.cpp:164-297).
THEOREM TreeIsOne == Spec => []OneTree
<1>1. ParserInv => OneTree
  BY EmptySeq DEF ParserInv, TextInv, Start, Rooted, Leaf, OneTree
<1>2. QED
  BY <1>1, ParserSound, PTL

\* The first '{' of a text is met in the same state whatever was parsed before
\* (json.cpp:76-83).
THEOREM StartsFresh == Spec => []FreshStart
<1>1. ParserInv => FreshStart
  BY DEF ParserInv, TextInv, First, FreshStart
<1>2. QED
  BY <1>1, ParserSound, PTL

-----------------------------------------------------------------------------
(***************************************************************************)
(* Plain documents.                                                        *)
(***************************************************************************)
RoleAt(k) == tree[open[k]].role
Above(k) == IF k = 1 THEN 0 ELSE open[k - 1]

\* The parser's tree is the reference's.
Mirror ==
    /\ tree \in Seq(Value) /\ Len(values) = Len(tree)
    /\ \A i \in DOMAIN tree :
        /\ values[i].role = tree[i].role
        /\ values[i].parent = tree[i].parent
        /\ values[i].to = tree[i].to
        /\ tree[i].to # 0 => values[i].from = tree[i].from

\* The open Values are a path from the root to m_currentValue.
Path ==
    /\ open \in Seq(Nat)
    /\ \A k \in DOMAIN open : open[k] \in DOMAIN tree /\ tree[open[k]].parent = Above(k)

AtTop == cur = IF open = <<>> THEN 0 ELSE Top

Nesting ==
    \A k \in DOMAIN open :
        /\ RoleAt(k) = "OBJECT" => k = 1 \/ RoleAt(k - 1) = "ARRAY"
        /\ RoleAt(k) = "KEY" => k > 1 /\ RoleAt(k - 1) = "OBJECT"
        /\ RoleAt(k) \in {"VALUE", "ARRAY"} => k > 1 /\ RoleAt(k - 1) \in {"KEY", "ARRAY"}

\* What the phase of the document says about the innermost Value and the parser.
Phases ==
    /\ phase = "start" <=> values = <<>>
    /\ phase = "start" \/ (state = IF InString THEN "IN_ELEM" ELSE "OUT_ELEM")
    /\ phase = "escape" <=> prev = "b"
    /\ open = <<>> <=> phase \in {"start", "end"}
    /\ phase \in {"start", "end", "firstKey", "key", "value", "firstValue", "string", "escape",
                  "colon", "after"}
    /\ phase \in {"firstKey", "key"} => TopRole = "OBJECT" /\ expect = "KEY"
    /\ phase \in {"value", "firstValue"} => TopRole \in {"KEY", "ARRAY"} /\ expect = "VALUE"
    /\ phase = "firstValue" => TopRole = "ARRAY"
    /\ InString => TopRole \in {"KEY", "VALUE"} /\ tree[Top].from = begin
    /\ phase = "colon" => TopRole = "KEY"
    /\ phase = "after" => TopRole \in {"OBJECT", "ARRAY"}

\* Only the string that is being read has no data yet.
Printed ==
    \A i \in DOMAIN values :
        values[i].role \in {"KEY", "VALUE"} /\ values[i].to = 0 => InString /\ i = cur

DocRun == here = None /\ Mirror /\ Path /\ AtTop /\ Nesting /\ Phases /\ Printed
DocInv == kind = "document" => outcome \in {"idle", "run", "true"} /\ (Running => DocRun)

\* The last of the open Values.
LEMMA Tops ==
    ASSUME Mirror, Path, AtTop, open # <<>>
    PROVE  /\ Len(open) \in Nat /\ Len(open) >= 1 /\ Len(open) \in DOMAIN open
           /\ DOMAIN open = 1 .. Len(open)
           /\ cur = open[Len(open)] /\ cur \in DOMAIN tree /\ cur \in Nat /\ cur # 0
           /\ TopRole = RoleAt(Len(open)) /\ TopRole = tree[cur].role
           /\ tree[cur].parent = Above(Len(open))
<1>1. Len(open) \in Nat \ {0} /\ DOMAIN open = 1 .. Len(open)
  BY EmptySeq, LenProperties DEF Path
<1>2. DOMAIN tree = 1 .. Len(tree) /\ Len(tree) \in Nat
  BY LenProperties DEF Mirror
<1>3. Len(open) \in DOMAIN open
  BY <1>1
<1>4. cur = open[Len(open)] /\ cur \in DOMAIN tree /\ tree[cur].parent = Above(Len(open))
  BY <1>1, <1>3 DEF AtTop, Top, Path
<1>5. QED
  BY <1>1, <1>2, <1>3, <1>4 DEF TopRole, Top, RoleAt

LEMMA Mirrored ==
    ASSUME Shapes, Mirror
    PROVE  /\ values \in Seq(Value) /\ tree \in Seq(Value)
           /\ DOMAIN values = 1 .. Len(values) /\ DOMAIN tree = 1 .. Len(values)
           /\ Len(values) \in Nat /\ Len(tree) = Len(values)
           /\ (values = <<>> <=> Len(values) = 0)
           /\ \A i \in DOMAIN tree : values[i] \in Value /\ tree[i] \in Value /\ tree[i].parent < i
           /\ \A i \in DOMAIN tree : /\ RoleOf(values, i) = tree[i].role
                                     /\ Parent(values, i) = tree[i].parent
<1>1. values \in Seq(Value) /\ tree \in Seq(Value)
  BY DEF Mirror, Shapes, IsTree
<1>2. /\ DOMAIN values = 1 .. Len(values) /\ DOMAIN tree = 1 .. Len(tree)
      /\ Len(values) \in Nat /\ Len(tree) = Len(values)
  BY <1>1, LenProperties DEF Mirror
<1>3. values = <<>> <=> Len(values) = 0
  BY <1>1, EmptySeq
<1>4. /\ \A i \in 1 .. Len(values) : values[i] \in Value
      /\ \A i \in 1 .. Len(tree) : tree[i] \in Value
  BY <1>1, ElementOfSeq
<1>5. \A i \in DOMAIN tree : values[i].parent < i
  BY <1>2 DEF Shapes, IsTree
<1>6. \A i \in DOMAIN tree : RoleOf(values, i) = tree[i].role /\ Parent(values, i) = tree[i].parent
  BY <1>2 DEF Mirror, RoleOf, Parent
<1>7. QED
  BY <1>1, <1>2, <1>3, <1>4, <1>5, <1>6 DEF Mirror

\* A tree with data for one more Value.
LEMMA DataStored ==
    ASSUME Shapes, cur # 0, pos > begin
    PROVE  LET vs == WithData("GET_OUT_ELEM")
           IN  /\ \A i \in DOMAIN values : i # cur => vs[i] = values[i]
               /\ cur \in DOMAIN values /\ vs[cur].from = begin /\ vs[cur].to = pos
<1>1. cur \in 1 .. Len(values) /\ values \in Seq(Value) /\ DOMAIN values = 1 .. Len(values)
  BY LenProperties DEF Shapes, TypeOK, IsTree
<1>2. DEFINE v == [values[cur] EXCEPT !.from = begin, !.to = pos]
<1>3. values[cur] \in Value
  BY <1>1, ElementOfSeq
<1>4. v.from = begin /\ v.to = pos
  BY <1>3 DEF Value
<1>5. WithData("GET_OUT_ELEM") = [values EXCEPT ![cur] = v]
  BY <1>1 DEF WithData
<1> HIDE DEF v
<1>6. \A i \in DOMAIN values : [values EXCEPT ![cur] = v][i] = IF i = cur THEN v ELSE values[i]
  OBVIOUS
<1>7. QED
  BY <1>1, <1>4, <1>5, <1>6

\* A Value opens, in both trees.
Placed == Mirror /\ Path /\ AtTop /\ Nesting

LEMMA Pushing ==
    ASSUME Shapes, Placed, NEW role \in Role, NEW next, Push(role, next),
           values' = Append(values, NewValue(role, cur)), cur' = Len(values) + 1,
           open = <<>> => role = "OBJECT",
           open # <<>> => /\ role = "OBJECT" => TopRole = "ARRAY"
                          /\ role = "KEY" => TopRole = "OBJECT"
                          /\ role \in {"VALUE", "ARRAY"} => TopRole \in {"KEY", "ARRAY"}
    PROVE  /\ Placed' /\ phase' = next /\ open' # <<>> /\ TopRole' = role
           /\ tree'[Top'].from = pos + 1
<1>0. Mirror /\ Path /\ AtTop /\ Nesting /\ pos + 1 \in Nat /\ cur \in Nat
  BY DEF Placed, Shapes, TypeOK
<1>1. PICK n, m : n = Len(values) + 1 /\ m = Len(open) + 1
  OBVIOUS
<1> DEFINE parent == NewValue(role, cur)
           mark == [parent EXCEPT !.from = pos + 1]
<1>2. parent \in Value /\ parent.role = role /\ parent.parent = cur /\ parent.from = 0 /\ parent.to = 0
  BY <1>0, NewValueFits
<1>3. mark \in Value /\ mark.role = role /\ mark.parent = cur /\ mark.from = pos + 1 /\ mark.to = 0
  BY <1>0, <1>2 DEF Value
<1>4. /\ values \in Seq(Value) /\ tree \in Seq(Value)
      /\ DOMAIN values = 1 .. Len(values) /\ DOMAIN tree = 1 .. Len(values)
      /\ Len(values) \in Nat /\ Len(tree) = Len(values)
  BY <1>0, Mirrored
<1>5. tree' = Append(tree, mark) /\ open' = Append(open, n) /\ phase' = next
  BY <1>1, <1>0, <1>4 DEF Push, AtTop, parent, mark
<1> HIDE DEF mark, parent
<1>6. /\ values' \in Seq(Value) /\ Len(values') = n /\ values'[n] = parent
      /\ \A i \in DOMAIN values : values'[i] = values[i]
      /\ n \in Nat
  BY <1>1, <1>2, <1>4, Appended DEF parent
<1>7. /\ tree' \in Seq(Value) /\ Len(tree') = n /\ tree'[n] = mark
      /\ \A i \in DOMAIN tree : tree'[i] = tree[i]
      /\ DOMAIN tree' = 1 .. n
  <2>1. tree' \in Seq(Value) /\ Len(tree') = Len(tree) + 1 /\ tree'[Len(tree) + 1] = mark
        /\ \A i \in DOMAIN tree : tree'[i] = tree[i]
    BY <1>3, <1>4, <1>5, Appended
  <2>2. DOMAIN tree' = 1 .. Len(tree')
    BY <2>1, LenProperties
  <2>3. QED
    BY <1>1, <1>4, <2>1, <2>2
<1>8. /\ open' \in Seq(Nat) /\ Len(open') = m /\ open'[m] = n /\ open' # <<>>
      /\ \A k \in DOMAIN open : open'[k] = open[k]
      /\ DOMAIN open = 1 .. Len(open) /\ DOMAIN open' = 1 .. m /\ Len(open) \in Nat
  <2>1. open \in Seq(Nat) /\ n \in Nat
    BY <1>0, <1>6 DEF Path
  <2>2. open' \in Seq(Nat) /\ Len(open') = m /\ open'[m] = n /\ open' # <<>>
    BY <1>1, <1>5, <2>1, AppendProperties
  <2>3. DOMAIN open = 1 .. Len(open) /\ Len(open) \in Nat /\ DOMAIN open' = 1 .. Len(open')
    BY <2>1, <2>2, LenProperties
  <2>4. \A k \in 1 .. Len(open) : open'[k] = open[k]
    BY <1>5, <2>1, AppendProperties
  <2>5. QED
    BY <2>2, <2>3, <2>4
<1>9. \A i \in DOMAIN tree' : i \in DOMAIN tree \/ i = n
  BY <1>1, <1>4, <1>7
<1>10. \A k \in DOMAIN open' : (k \in DOMAIN open /\ open'[k] = open[k] /\ open[k] \in DOMAIN tree)
                               \/ (k = m /\ open'[k] = n)
  BY <1>1, <1>0, <1>8 DEF Path
<1>11. Mirror'
  BY <1>0, <1>2, <1>3, <1>4, <1>6, <1>7, <1>9 DEF Mirror
<1>12. Above(m)' = cur
  BY <1>1, <1>0, <1>8 DEF Above, AtTop, Top
<1>13. \A k \in DOMAIN open : Above(k)' = Above(k) /\ RoleAt(k)' = RoleAt(k)
  BY <1>1, <1>7, <1>8, <1>10 DEF Above, RoleAt
<1>14. Path'
  <2>1. \A k \in DOMAIN open' : open'[k] \in DOMAIN tree' /\ tree'[open'[k]].parent = Above(k)'
    <3>1. ASSUME NEW k \in DOMAIN open
          PROVE  open'[k] \in DOMAIN tree' /\ tree'[open'[k]].parent = Above(k)'
      BY <1>1, <1>0, <1>4, <1>7, <1>8, <1>13 DEF Path
    <3>2. n \in DOMAIN tree' /\ tree'[n].parent = Above(m)'
      BY <1>1, <1>3, <1>6, <1>7, <1>12, <1>4
    <3>3. QED
      BY <1>8, <1>10, <3>1, <3>2
  <2>2. QED
    BY <1>8, <2>1 DEF Path
<1>15. Top' = n /\ AtTop'
  BY <1>1, <1>8, <1>6 DEF AtTop, Top
<1>16. TopRole' = role /\ tree'[Top'].from = pos + 1 /\ RoleAt(m)' = role
  BY <1>3, <1>7, <1>8, <1>15 DEF TopRole, RoleAt
<1>17. Nesting'
  <2>1. ASSUME NEW k \in DOMAIN open
        PROVE  /\ RoleAt(k)' = "OBJECT" => k = 1 \/ RoleAt(k - 1)' = "ARRAY"
               /\ RoleAt(k)' = "KEY" => k > 1 /\ RoleAt(k - 1)' = "OBJECT"
               /\ RoleAt(k)' \in {"VALUE", "ARRAY"} => k > 1 /\ RoleAt(k - 1)' \in {"KEY", "ARRAY"}
    <3>1. k > 1 => RoleAt(k - 1)' = RoleAt(k - 1)
      BY <1>8, <1>13
    <3>2. k >= 1 /\ k \in Nat
      BY <1>8
    <3>3. QED
      BY <1>0, <1>13, <3>1, <3>2 DEF Nesting
  <2>2. CASE open = <<>>
    <3>1. DOMAIN open = {} /\ m = 1
      BY <1>1, <1>8, <2>2, EmptySeq
    <3>2. QED
      BY <1>10, <1>16, <2>2, <3>1 DEF Nesting
  <2>3. CASE open # <<>>
    <3>1. RoleAt(m - 1)' = TopRole /\ m > 1
      <4>1. Len(open) \in DOMAIN open /\ TopRole = RoleAt(Len(open)) /\ Len(open) >= 1
        BY <1>0, <2>3, Tops
      <4>2. QED
        BY <1>1, <1>8, <1>13, <4>1
    <3>2. /\ RoleAt(m)' = "OBJECT" => m = 1 \/ RoleAt(m - 1)' = "ARRAY"
          /\ RoleAt(m)' = "KEY" => m > 1 /\ RoleAt(m - 1)' = "OBJECT"
          /\ RoleAt(m)' \in {"VALUE", "ARRAY"} => m > 1 /\ RoleAt(m - 1)' \in {"KEY", "ARRAY"}
      BY <1>16, <2>3, <3>1
    <3>3. QED
      BY <1>10, <2>1, <3>2 DEF Nesting
  <2>4. QED
    BY <2>2, <2>3
<1>18. QED
  BY <1>5, <1>8, <1>11, <1>14, <1>15, <1>16, <1>17 DEF Placed

\* A Value closes, and the key it belongs to.
LEMMA Fronts ==
    ASSUME NEW s \in Seq(Nat), s # <<>>
    PROVE  /\ Front(s) \in Seq(Nat) /\ Len(Front(s)) = Len(s) - 1
           /\ Len(s) \in Nat /\ Len(s) >= 1
           /\ DOMAIN Front(s) = 1 .. (Len(s) - 1)
           /\ \A k \in 1 .. (Len(s) - 1) : Front(s)[k] = s[k]
           /\ (Front(s) = <<>> <=> Len(s) = 1)
<1>1. PICK n \in Nat : n = Len(s) /\ n >= 1
  <2>1. Len(s) \in Nat \ {0}
    BY EmptySeq
  <2>2. QED
    BY <2>1
<1>2. \A k \in 1 .. (n - 1) : s[k] \in Nat
  BY <1>1, ElementOfSeq
<1>3. /\ Front(s) \in Seq(Nat)
      /\ Len(Front(s)) = IF 1 <= n - 1 THEN n - 1 - 1 + 1 ELSE 0
      /\ \A k \in 1 .. n - 1 - 1 + 1 : Front(s)[k] = s[1 + k - 1]
  BY <1>1, <1>2, SubSeqProperties DEF Front
<1>4. n - 1 - 1 + 1 = n - 1 /\ (1 <= n - 1 \/ n - 1 = 0)
  BY <1>1
<1>5. Len(Front(s)) = n - 1
  BY <1>3, <1>4
<1>6. DOMAIN Front(s) = 1 .. Len(Front(s))
  BY <1>3, LenProperties
<1>7. ASSUME NEW k \in 1 .. (n - 1)
      PROVE  Front(s)[k] = s[k]
  <2>1. k \in 1 .. n - 1 - 1 + 1 /\ 1 + k - 1 = k
    BY <1>1
  <2>2. QED
    BY <1>3, <2>1
<1>8. Front(s) = <<>> <=> Len(Front(s)) = 0
  BY <1>3, EmptySeq
<1>9. QED
  BY <1>1, <1>3, <1>5, <1>6, <1>7, <1>8

LEMMA Popping ==
    ASSUME Shapes, Placed, open # <<>>, Pop, TopRole # "KEY", Mirror',
           DOMAIN tree' = DOMAIN tree,
           \A i \in DOMAIN tree : tree'[i].role = tree[i].role /\ tree'[i].parent = tree[i].parent,
           cur' = AboveKey(values, Parent(values, cur))
    PROVE  /\ Placed' /\ phase' \in {"end", "after"} /\ (open' = <<>> <=> phase' = "end")
           /\ open' # <<>> => TopRole' \in {"OBJECT", "ARRAY"}
<1>0. Mirror /\ Path /\ AtTop /\ Nesting /\ open \in Seq(Nat)
  BY DEF Placed, Path
<1>1. PICK n \in Nat : n = Len(open) /\ n >= 1 /\ n \in DOMAIN open /\ DOMAIN open = 1 .. n
  BY <1>0, Tops
<1>2. /\ cur = open[n] /\ cur \in DOMAIN tree /\ TopRole = RoleAt(n) /\ tree[cur].parent = Above(n)
      /\ tree[cur].role = TopRole
  BY <1>0, <1>1, Tops
<1>3. /\ Front(open) \in Seq(Nat) /\ Len(Front(open)) = n - 1
      /\ \A k \in 1 .. (n - 1) : Front(open)[k] = open[k]
      /\ (Front(open) = <<>> <=> n = 1)
  BY <1>0, <1>1, Fronts
<1>4. /\ \A i \in DOMAIN tree : RoleOf(values, i) = tree[i].role /\ Parent(values, i) = tree[i].parent
      /\ DOMAIN tree = 1 .. Len(values) /\ Len(values) \in Nat
      /\ \A i \in DOMAIN tree : tree[i].role \in Role
  BY <1>0, Mirrored DEF Value
<1>5. cur' = AboveKey(values, Above(n))
  BY <1>2, <1>4
<1>6. \A k \in DOMAIN open : open[k] \in DOMAIN tree /\ tree[open[k]].parent = Above(k)
  BY <1>0 DEF Path
<1>7. PICK m \in 0 .. (n - 1) :
        /\ open' \in Seq(Nat) /\ Len(open') = m
        /\ \A k \in 1 .. m : open'[k] = open[k]
        /\ open' = <<>> <=> m = 0
        /\ cur' = IF m = 0 THEN 0 ELSE open[m]
        /\ m > 0 => RoleAt(m) \in {"OBJECT", "ARRAY"}
  <2>1. CASE n = 1
    <3>1. open' = Front(open) /\ Front(open) = <<>>
      BY <1>3, <2>1 DEF Pop
    <3>2. cur' = 0
      BY <1>5, <2>1 DEF Above, AboveKey, RoleOf, None
    <3>3. QED
      BY <1>3, <2>1, <3>1, <3>2
  <2>2. CASE n > 1 /\ RoleAt(n - 1) # "KEY"
    <3>1. Front(open)[Len(Front(open))] = open[n - 1] /\ Front(open) # <<>>
      BY <1>1, <1>3, <2>2
    <3>2. open' = Front(open)
      BY <2>2, <3>1 DEF Pop, RoleAt
    <3>3. n - 1 \in DOMAIN open /\ open[n - 1] \in DOMAIN tree /\ open[n - 1] # 0
      BY <1>1, <1>4, <1>6, <2>2
    <3>4. cur' = open[n - 1]
      BY <1>4, <1>5, <2>2, <3>3 DEF Above, AboveKey, RoleAt
    <3>5. RoleAt(n - 1) \in {"OBJECT", "ARRAY"}
      <4>1. RoleAt(n) \in Role /\ RoleAt(n) # "KEY"
        BY <1>1, <1>2, <1>4, <1>6 DEF RoleAt
      <4>2. QED
        BY <1>0, <1>1, <2>2, <4>1 DEF Nesting, Role
    <3>6. QED
      BY <1>1, <1>3, <2>2, <3>2, <3>4, <3>5
  <2>3. CASE n > 1 /\ RoleAt(n - 1) = "KEY"
    <3>1. n - 1 \in DOMAIN open /\ open[n - 1] \in DOMAIN tree /\ open[n - 1] # 0
      BY <1>1, <1>4, <1>6, <2>3
    <3>2. n - 1 > 1 /\ RoleAt(n - 2) = "OBJECT"
      <4>1. n - 1 > 1 /\ RoleAt((n - 1) - 1) = "OBJECT"
        BY <1>0, <2>3, <3>1 DEF Nesting
      <4>2. (n - 1) - 1 = n - 2
        BY <1>1
      <4>3. QED
        BY <1>1, <4>1, <4>2
    <3>3. Front(open)[Len(Front(open))] = open[n - 1] /\ Front(open) # <<>>
      BY <1>1, <1>3, <2>3
    <3>4. open' = Front(Front(open))
      BY <2>3, <3>3 DEF Pop, RoleAt
    <3>5. /\ Front(Front(open)) \in Seq(Nat) /\ Len(Front(Front(open))) = n - 2
          /\ \A k \in 1 .. (n - 2) : Front(Front(open))[k] = Front(open)[k]
          /\ (Front(Front(open)) = <<>> <=> n - 1 = 1)
      BY <1>3, <3>3, Fronts
    <3>6. cur' = open[n - 2]
      <4>1. Above(n) = open[n - 1] /\ tree[open[n - 1]].parent = open[n - 2]
        BY <1>6, <2>3, <3>1, <3>2 DEF Above
      <4>2. QED
        BY <1>4, <1>5, <2>3, <3>1, <4>1 DEF AboveKey, RoleAt
    <3>7. n - 2 \in 0 .. (n - 1) /\ n - 2 > 0
      BY <1>1, <3>2
    <3>8. \A k \in 1 .. (n - 2) : open'[k] = open[k]
      BY <1>1, <1>3, <3>4, <3>5
    <3>9. WITNESS n - 2 \in 0 .. (n - 1)
    <3>10. QED
      BY <3>2, <3>4, <3>5, <3>6, <3>7, <3>8
  <2>4. QED
    BY <1>1, <2>1, <2>2, <2>3
<1>8. DOMAIN open' = 1 .. m /\ m \in Nat
  BY <1>7, LenProperties
<1>9. \A k \in DOMAIN open' : /\ k \in DOMAIN open /\ RoleAt(k)' = RoleAt(k) /\ Above(k)' = Above(k)
                              /\ k >= 1 /\ (k > 1 => k - 1 \in DOMAIN open')
  <2>1. ASSUME NEW k \in DOMAIN open'
        PROVE  k \in DOMAIN open /\ open'[k] = open[k] /\ k >= 1 /\ k \in Nat
    BY <1>1, <1>7, <1>8
  <2>2. ASSUME NEW k \in DOMAIN open'
        PROVE  RoleAt(k)' = RoleAt(k)
    BY <1>6, <2>1 DEF RoleAt
  <2>3. ASSUME NEW k \in DOMAIN open', k > 1
        PROVE  k - 1 \in DOMAIN open' /\ open'[k - 1] = open[k - 1]
    BY <1>7, <1>8, <2>3
  <2>4. QED
    BY <2>1, <2>2, <2>3 DEF Above
<1>10. Path'
  <2>1. ASSUME NEW k \in DOMAIN open'
        PROVE  open'[k] \in DOMAIN tree' /\ tree'[open'[k]].parent = Above(k)'
    BY <1>6, <1>7, <1>8, <1>9
  <2>2. QED
    BY <1>7, <2>1 DEF Path
<1>11. AtTop'
  BY <1>7, <1>8 DEF AtTop, Top
<1>12. Nesting'
  BY <1>0, <1>9 DEF Nesting
<1>13. open' # <<>> => TopRole' \in {"OBJECT", "ARRAY"}
  BY <1>7, <1>8, <1>9 DEF TopRole, Top, RoleAt
<1>14. phase' \in {"end", "after"} /\ (open' = <<>> <=> phase' = "end")
  BY DEF Pop
<1>15. QED
  BY <1>10, <1>11, <1>12, <1>13, <1>14 DEF Placed

-----------------------------------------------------------------------------
(***************************************************************************)
(* The steps on a document.                                                *)
(***************************************************************************)
\* A significant character has been read, for good.
Consumed(c) == here' = None /\ prev' = c /\ pos' = pos + 1 /\ begin' = pos + 1

LEMMA Opens ==
    ASSUME Shapes, DocRun, ~InString, NEW role \in Role, NEW next, Push(role, next),
           values' = Append(values, NewValue(role, cur)), cur' = Len(values) + 1,
           open = <<>> => role = "OBJECT",
           open # <<>> => /\ role = "OBJECT" => TopRole = "ARRAY"
                          /\ role = "KEY" => TopRole = "OBJECT"
                          /\ role \in {"VALUE", "ARRAY"} => TopRole \in {"KEY", "ARRAY"},
           \/ next = "firstKey" /\ role = "OBJECT" /\ expect' = "KEY" /\ state' = "OUT_ELEM"
           \/ next = "firstValue" /\ role = "ARRAY" /\ expect' = "VALUE" /\ state' = "OUT_ELEM"
           \/ next = "string" /\ role \in {"KEY", "VALUE"} /\ state' = "IN_ELEM",
           NEW c, c # "b", Consumed(c)
    PROVE  DocRun'
<1>0. Mirror /\ Printed /\ Placed
  BY DEF DocRun, Placed
<1>1. /\ Placed' /\ phase' = next /\ open' # <<>> /\ TopRole' = role
      /\ tree'[Top'].from = pos + 1
  BY <1>0, Pushing
<1>2. values \in Seq(Value) /\ DOMAIN values = 1 .. Len(values) /\ Len(values) \in Nat
  BY <1>0, Mirrored
<1>3. NewValue(role, cur) \in Value /\ NewValue(role, cur).role = role
  BY NewValueFits DEF Shapes, TypeOK
<1>4. /\ \A i \in DOMAIN values : values'[i] = values[i]
      /\ DOMAIN values' = DOMAIN values \cup {cur'}
      /\ values'[cur'].role = role /\ values' # <<>>
  BY <1>2, <1>3, Appended, AppendProperties
<1>5. Phases'
  BY <1>1, <1>4 DEF Phases, InString, Consumed
<1>6. Printed'
  BY <1>0, <1>1, <1>4 DEF Printed, InString
<1>7. QED
  BY <1>1, <1>5, <1>6 DEF DocRun, Placed, Consumed

LEMMA Closes ==
    ASSUME Shapes, DocRun, open # <<>>, Pop, TopRole # "KEY", Mirror',
           DOMAIN tree' = DOMAIN tree,
           \A i \in DOMAIN tree : tree'[i].role = tree[i].role /\ tree'[i].parent = tree[i].parent,
           cur' = AboveKey(values, Parent(values, cur)), state' = "OUT_ELEM", values' # <<>>,
           \A i \in DOMAIN values' : values'[i].role \in {"KEY", "VALUE"} => values'[i].to # 0,
           NEW c, c # "b", Consumed(c)
    PROVE  DocRun'
<1>1. /\ Placed' /\ phase' \in {"end", "after"} /\ (open' = <<>> <=> phase' = "end")
      /\ open' # <<>> => TopRole' \in {"OBJECT", "ARRAY"}
  BY Popping DEF DocRun, Placed
<1>2. Phases'
  BY <1>1 DEF Phases, InString, Consumed
<1>3. Printed'
  BY DEF Printed
<1>4. QED
  BY <1>1, <1>2, <1>3 DEF DocRun, Placed, Consumed

\* Outside strings every key and value can be printed.
LEMMA Prints ==
    ASSUME Shapes, DocRun, ~InString
    PROVE  /\ \A i \in DOMAIN values : values[i].role \in {"KEY", "VALUE"} => values[i].to # 0
           /\ ~Unprintable(values)
<1>1. Printed /\ Mirror /\ root \in 0 .. Len(values)
  BY DEF DocRun, Shapes, TypeOK
<1>2. \A i \in DOMAIN values : values[i].role \in {"KEY", "VALUE"} => values[i].to # 0
  BY <1>1 DEF Printed
<1>3. DOMAIN values = 1 .. Len(values) /\ Len(values) \in Nat
  BY <1>1, Mirrored
<1>4. ~Unprintable(values)
  BY <1>1, <1>2, <1>3 DEF Unprintable
<1>5. QED
  BY <1>2, <1>4

\* At its closing quote a string gets the same data in both trees.
LEMMA StringEnds ==
    ASSUME Shapes, DocRun, phase = "string", pos > tree[Top].from,
           tree' = [tree EXCEPT ![Top].to = pos]
    PROVE  LET vs == WithData("GET_OUT_ELEM")
           IN  /\ values' = vs => Mirror'
               /\ DOMAIN tree' = DOMAIN tree /\ DOMAIN vs = DOMAIN values
               /\ \A i \in DOMAIN tree : /\ tree'[i].role = tree[i].role
                                         /\ tree'[i].parent = tree[i].parent
                                         /\ RoleOf(vs, i) = RoleOf(values, i)
                                         /\ Parent(vs, i) = Parent(values, i)
               /\ \A i \in DOMAIN vs : vs[i].role \in {"KEY", "VALUE"} => vs[i].to # 0
               /\ ~Unprintable(vs)
<1>0. /\ Mirror /\ Path /\ AtTop /\ Printed /\ open # <<>> /\ begin = tree[Top].from /\ Top = cur
      /\ root \in 0 .. Len(values) /\ pos \in Nat /\ begin \in Nat
  BY DEF DocRun, Phases, InString, AtTop, Shapes, TypeOK
<1>1. cur \in DOMAIN tree /\ cur # 0 /\ pos > begin /\ pos # 0
  BY <1>0, Tops
<1>2. PICK vs : vs = WithData("GET_OUT_ELEM")
  OBVIOUS
<1>3. /\ vs \in Seq(Value) /\ DOMAIN vs = 1 .. Len(values) /\ Len(vs) = Len(values)
      /\ DOMAIN values = 1 .. Len(values)
      /\ \A i \in DOMAIN values : vs[i].role = values[i].role /\ vs[i].parent = values[i].parent
  BY <1>2, DataFits, SameTreeFits
<1>4. /\ \A i \in DOMAIN values : i # cur => vs[i] = values[i]
      /\ cur \in DOMAIN values /\ vs[cur].from = begin /\ vs[cur].to = pos
  BY <1>1, <1>2, DataStored
<1>5. /\ DOMAIN tree = 1 .. Len(values) /\ Len(tree) = Len(values) /\ tree \in Seq(Value)
      /\ tree[cur] \in Value /\ Len(values) \in Nat
  BY <1>0, <1>1, Mirrored
<1>6. PICK mark \in Value : /\ mark.to = pos /\ mark.from = begin
                            /\ mark.role = tree[cur].role /\ mark.parent = tree[cur].parent
                            /\ mark = [tree[cur] EXCEPT !.to = pos]
  <2>1. [tree[cur] EXCEPT !.to = pos] \in Value
    BY <1>0, <1>5 DEF Value
  <2>2. QED
    BY <1>0, <1>5, <2>1 DEF Value
<1>7. /\ tree' \in Seq(Value) /\ Len(tree') = Len(tree) /\ DOMAIN tree' = DOMAIN tree
      /\ tree'[cur] = mark /\ \A i \in DOMAIN tree : i # cur => tree'[i] = tree[i]
  <2>1. tree' = [tree EXCEPT ![cur] = mark]
    BY <1>0, <1>6
  <2>2. /\ [tree EXCEPT ![cur] = mark] \in Seq(Value)
        /\ Len([tree EXCEPT ![cur] = mark]) = Len(tree)
        /\ \A j \in 1 .. Len(tree) :
              [tree EXCEPT ![cur] = mark][j] = IF j = cur THEN mark ELSE tree[j]
    BY <1>1, <1>5, ExceptSeq
  <2>3. DOMAIN [tree EXCEPT ![cur] = mark] = DOMAIN tree
    OBVIOUS
  <2>4. QED
    BY <1>1, <1>5, <2>1, <2>2, <2>3
<1>8. values' = vs => Mirror'
  BY <1>0, <1>3, <1>4, <1>5, <1>6, <1>7 DEF Mirror
<1>9. \A i \in DOMAIN tree : /\ tree'[i].role = tree[i].role /\ tree'[i].parent = tree[i].parent
                             /\ RoleOf(vs, i) = RoleOf(values, i)
                             /\ Parent(vs, i) = Parent(values, i)
  BY <1>3, <1>5, <1>6, <1>7 DEF RoleOf, Parent
<1>10. \A i \in DOMAIN vs : vs[i].role \in {"KEY", "VALUE"} => vs[i].to # 0
  BY <1>0, <1>1, <1>3, <1>4 DEF Printed
<1>11. ~Unprintable(vs)
  BY <1>0, <1>3, <1>5, <1>10 DEF Unprintable
<1>12. QED
  BY <1>2, <1>3, <1>7, <1>8, <1>9, <1>10, <1>11

\* What the handlers do when the character is the one the document has here.
LEMMA Acts ==
    ASSUME Shapes, NEW c \in Char, Significant(c), state \in {"IN_ELEM", "OUT_ELEM"}
    PROVE  /\ ~Unprintable(values) =>
                /\ c = "{" => onIntoObject(values) /\ state' = "OUT_ELEM" /\ Consumed(c)
                /\ c = "[" => onIntoArray(values) /\ state' = "OUT_ELEM" /\ Consumed(c)
                /\ state = "OUT_ELEM" =>
                    /\ c = "q" => onIntoElement(values) /\ state' = "IN_ELEM" /\ Consumed(c)
                    /\ c = "}" => onGetOutObject(values) /\ state' = "OUT_ELEM" /\ Consumed(c)
                    /\ c = "]" => onGetOutArray(values) /\ state' = "OUT_ELEM" /\ Consumed(c)
                    /\ c \in {",", ":"} =>
                            onNextElement(values) /\ state' = "OUT_ELEM" /\ Consumed(c)
           /\ ~Unprintable(WithData("GET_OUT_ELEM")) /\ state = "IN_ELEM" /\ c = "q" =>
                onGetOutElement(WithData("GET_OUT_ELEM")) /\ state' = "OUT_ELEM" /\ Consumed(c)
<1>0. /\ state' = NextState(c) /\ onAction(Action(c), WithData(Action(c)))
      /\ ~Cuts(c) => Consumed(c)
  BY DEF Significant, Consumed
<1>1. ASSUME NEW action, action # "GET_OUT_ELEM"
      PROVE  WithData(action) = values
  BY <1>1 DEF WithData
<1>2. ASSUME c = "{", ~Unprintable(values)
      PROVE  onIntoObject(values) /\ state' = "OUT_ELEM" /\ Consumed(c)
  <2>1. Action(c) = "INTO_OBJECT" /\ ~Cuts(c)
    BY <1>2 DEF Action, Cuts
  <2>2. QED
    BY <1>0, <1>1, <1>2, <2>1 DEF onAction, NextState
<1>3. ASSUME c = "[", ~Unprintable(values)
      PROVE  onIntoArray(values) /\ state' = "OUT_ELEM" /\ Consumed(c)
  <2>1. Action(c) = "INTO_ARRAY" /\ ~Cuts(c)
    BY <1>3 DEF Action, Cuts
  <2>2. QED
    BY <1>0, <1>1, <1>3, <2>1 DEF onAction, NextState
<1>4. ASSUME c = "q", state = "OUT_ELEM", ~Unprintable(values)
      PROVE  onIntoElement(values) /\ state' = "IN_ELEM" /\ Consumed(c)
  <2>1. Action(c) = "INTO_ELEM" /\ ~Cuts(c)
    BY <1>4 DEF Action, Cuts
  <2>2. QED
    BY <1>0, <1>1, <1>4, <2>1 DEF onAction, NextState
<1>5. ASSUME c = "}", state = "OUT_ELEM", ~Unprintable(values)
      PROVE  onGetOutObject(values) /\ state' = "OUT_ELEM" /\ Consumed(c)
  <2>1. Action(c) = "GET_OUT_OBJECT" /\ ~Cuts(c)
    BY <1>5 DEF Action, Cuts
  <2>2. QED
    BY <1>0, <1>1, <1>5, <2>1 DEF onAction, NextState
<1>6. ASSUME c = "]", state = "OUT_ELEM", ~Unprintable(values)
      PROVE  onGetOutArray(values) /\ state' = "OUT_ELEM" /\ Consumed(c)
  <2>1. Action(c) = "GET_OUT_ARRAY" /\ ~Cuts(c)
    BY <1>6 DEF Action, Cuts
  <2>2. QED
    BY <1>0, <1>1, <1>6, <2>1 DEF onAction, NextState
<1>7. ASSUME c \in {",", ":"}, state = "OUT_ELEM", ~Unprintable(values)
      PROVE  onNextElement(values) /\ state' = "OUT_ELEM" /\ Consumed(c)
  <2>1. Action(c) = "NEXT_ELEM" /\ ~Cuts(c)
    BY <1>7 DEF Action, Cuts
  <2>2. QED
    BY <1>0, <1>1, <1>7, <2>1 DEF onAction, NextState
<1>8. ASSUME c = "q", state = "IN_ELEM", ~Unprintable(WithData("GET_OUT_ELEM"))
      PROVE  onGetOutElement(WithData("GET_OUT_ELEM")) /\ state' = "OUT_ELEM" /\ Consumed(c)
  <2>1. Action(c) = "GET_OUT_ELEM" /\ ~Cuts(c)
    BY <1>8 DEF Action, Cuts
  <2>2. QED
    BY <1>0, <1>8, <2>1 DEF onAction, NextState
<1>9. QED
  BY <1>2, <1>3, <1>4, <1>5, <1>6, <1>7, <1>8

LEMMA DocSignificant ==
    ASSUME ~Nested, Shapes, Running, kind = "document", DocRun, NEW c \in Char, Significant(c)
    PROVE  Running' /\ DocRun'
<1>0. /\ Follows(c) /\ isSpecialChar(c) /\ c \in Special /\ prev # "b" /\ c # "b"
      /\ ~(state = "IN_ELEM" /\ c = "d")
      /\ Mirror /\ Path /\ AtTop /\ Nesting /\ Phases /\ Printed /\ outcome = "run"
      /\ state \in {"IN_ELEM", "OUT_ELEM"} /\ Significant(c) /\ cur \in Nat
      /\ expect \in {"KEY", "VALUE"}
  <2>1. /\ isSpecialChar(c) /\ (here = None => Follows(c)) /\ here = None
    BY DEF Significant, At, DocRun
  <2>2. /\ c \in Special /\ prev # "b" /\ c # "b" /\ ~(state = "IN_ELEM" /\ c = "d")
    BY <2>1 DEF isSpecialChar, Special
  <2>3. /\ state \in {"IN_ELEM", "OUT_ELEM"} /\ cur \in Nat /\ expect \in {"KEY", "VALUE"}
    BY DEF Shapes, TypeOK
  <2>4. QED
    BY <2>1, <2>2, <2>3 DEF DocRun, Running
<1>1. /\ phase # "escape" /\ (InString => state = "IN_ELEM")
      /\ (~InString => ~Unprintable(values))
      /\ (~InString /\ phase # "start" => state = "OUT_ELEM")
  BY <1>0, Prints DEF Phases, InString
<1>2. open # <<>> => cur # 0 /\ cur \in DOMAIN tree /\ TopRole = tree[cur].role
                     /\ RoleOf(values, cur) = TopRole /\ Parent(values, cur) = tree[cur].parent
                     /\ values # <<>>
  BY <1>0, Tops, Mirrored, EmptySeq
<1>3. CASE phase = "start" /\ c = "{" /\ Push("OBJECT", "firstKey")
  <2>1. onIntoObject(values) /\ state' = "OUT_ELEM" /\ Consumed(c) /\ open = <<>>
    BY <1>0, <1>1, <1>3, Acts DEF InString, Phases
  <2>2. /\ values' = Append(values, NewValue("OBJECT", cur)) /\ cur' = Len(values) + 1
        /\ expect' = "KEY" /\ outcome' = outcome
    BY <2>1 DEF onIntoObject, AddChild
  <2>3. ~InString /\ "OBJECT" \in Role
    BY <1>3 DEF InString, Role
  <2>4. DocRun'
    BY <1>0, <1>3, <2>1, <2>2, <2>3, Opens
  <2>5. QED
    BY <1>0, <2>2, <2>4 DEF Running
<1>4. CASE phase \in {"firstKey", "key"} /\ c = "q" /\ Push("KEY", "string")
  <2>1. /\ onIntoElement(values) /\ state' = "IN_ELEM" /\ Consumed(c)
        /\ open # <<>> /\ TopRole = "OBJECT" /\ expect = "KEY"
    BY <1>0, <1>1, <1>4, Acts DEF InString, Phases
  <2>2. /\ values' = Append(values, NewValue("KEY", cur)) /\ cur' = Len(values) + 1
        /\ outcome' = outcome
    BY <1>2, <2>1 DEF onIntoElement, AddChild
  <2>3. ~InString /\ "KEY" \in Role
    BY <1>4 DEF InString, Role
  <2>4. DocRun'
    BY <1>0, <1>4, <2>1, <2>2, <2>3, Opens
  <2>5. QED
    BY <1>0, <2>2, <2>4 DEF Running
<1>5. CASE phase \in {"value", "firstValue"} /\ c = "q" /\ Push("VALUE", "string")
  <2>1. /\ onIntoElement(values) /\ state' = "IN_ELEM" /\ Consumed(c)
        /\ open # <<>> /\ TopRole \in {"KEY", "ARRAY"} /\ expect = "VALUE"
    BY <1>0, <1>1, <1>5, Acts DEF InString, Phases
  <2>2. /\ values' = Append(values, NewValue("VALUE", cur)) /\ cur' = Len(values) + 1
        /\ outcome' = outcome
    BY <1>2, <2>1 DEF onIntoElement, AddChild
  <2>3. ~InString /\ "VALUE" \in Role
    BY <1>5 DEF InString, Role
  <2>4. DocRun'
    BY <1>0, <1>5, <2>1, <2>2, <2>3, Opens
  <2>5. QED
    BY <1>0, <2>2, <2>4 DEF Running
<1>6. CASE phase \in {"value", "firstValue"} /\ c = "[" /\ Push("ARRAY", "firstValue")
  <2>1. /\ onIntoArray(values) /\ state' = "OUT_ELEM" /\ Consumed(c)
        /\ open # <<>> /\ TopRole \in {"KEY", "ARRAY"}
    BY <1>0, <1>1, <1>6, Acts DEF InString, Phases
  <2>2. /\ values' = Append(values, NewValue("ARRAY", cur)) /\ cur' = Len(values) + 1
        /\ expect' = "VALUE" /\ outcome' = outcome
    BY <1>2, <2>1 DEF onIntoArray, AddChild
  <2>3. ~InString /\ "ARRAY" \in Role
    BY <1>6 DEF InString, Role
  <2>4. DocRun'
    BY <1>0, <1>6, <2>1, <2>2, <2>3, Opens
  <2>5. QED
    BY <1>0, <2>2, <2>4 DEF Running
<1>7. CASE /\ phase \in {"value", "firstValue"} /\ c = "{" /\ TopRole = "ARRAY"
           /\ Push("OBJECT", "firstKey")
  <2>1. onIntoObject(values) /\ state' = "OUT_ELEM" /\ Consumed(c) /\ open # <<>>
    BY <1>0, <1>1, <1>7, Acts DEF InString, Phases
  <2>2. /\ values' = Append(values, NewValue("OBJECT", cur)) /\ cur' = Len(values) + 1
        /\ expect' = "KEY" /\ outcome' = outcome
    BY <2>1 DEF onIntoObject, AddChild
  <2>3. ~InString /\ "OBJECT" \in Role
    BY <1>7 DEF InString, Role
  <2>4. DocRun'
    BY <1>0, <1>7, <2>1, <2>2, <2>3, Opens
  <2>5. QED
    BY <1>0, <2>2, <2>4 DEF Running
<1>8. CASE /\ phase = "string" /\ c = "q" /\ pos > tree[Top].from
           /\ tree' = [tree EXCEPT ![Top].to = pos]
           /\ IF TopRole = "KEY" THEN phase' = "colon" /\ UNCHANGED open ELSE Pop
  <2>1. PICK vs : vs = WithData("GET_OUT_ELEM")
    OBVIOUS
  <2>2. /\ values' = vs => Mirror'
        /\ DOMAIN tree' = DOMAIN tree /\ DOMAIN vs = DOMAIN values
        /\ \A i \in DOMAIN tree : /\ tree'[i].role = tree[i].role
                                  /\ tree'[i].parent = tree[i].parent
                                  /\ RoleOf(vs, i) = RoleOf(values, i)
                                  /\ Parent(vs, i) = Parent(values, i)
        /\ \A i \in DOMAIN vs : vs[i].role \in {"KEY", "VALUE"} => vs[i].to # 0
        /\ ~Unprintable(vs)
    BY <1>8, <2>1, StringEnds
  <2>3. /\ onGetOutElement(vs) /\ state' = "OUT_ELEM" /\ Consumed(c)
        /\ open # <<>> /\ TopRole \in {"KEY", "VALUE"}
    BY <1>0, <1>1, <1>8, <2>1, <2>2, Acts DEF InString, Phases
  <2>4. cur # 0 /\ RoleOf(vs, cur) = TopRole /\ values' = vs /\ values' # <<>> /\ Mirror'
    <3>1. cur # 0 /\ RoleOf(vs, cur) = TopRole /\ values' = vs /\ Mirror'
      BY <1>2, <2>2, <2>3 DEF onGetOutElement
    <3>2. values # <<>> => DOMAIN values # {}
      BY <1>0, Mirrored, EmptySeq
    <3>3. DOMAIN <<>> = {}
      BY EmptySeq
    <3>4. QED
      BY <1>2, <2>2, <2>3, <3>1, <3>2, <3>3
  <2>5. CASE TopRole = "KEY"
    <3>1. UNCHANGED <<cur, outcome, expect>> /\ phase' = "colon" /\ open' = open
      BY <1>8, <2>3, <2>4, <2>5 DEF onGetOutElement
    <3>2. Path' /\ AtTop' /\ Nesting' /\ TopRole' = TopRole
      <4>1. \A k \in DOMAIN open : RoleAt(k)' = RoleAt(k) /\ Above(k)' = Above(k)
        BY <1>0, <2>2, <3>1 DEF Path, RoleAt, Above
      <4>2. Path' /\ AtTop'
        BY <1>0, <2>2, <3>1, <4>1 DEF Path, AtTop, Top
      <4>3. TopRole' = TopRole
        BY <1>0, <2>2, <2>3, <3>1, Tops DEF TopRole, Top
      <4>4. Nesting'
        <5>1. \A k \in DOMAIN open : k > 1 => k - 1 \in DOMAIN open
          BY <1>0, <2>3, Tops
        <5>2. \A k \in DOMAIN open : k >= 1 /\ k \in Nat
          BY <1>0, <2>3, Tops
        <5>3. QED
          BY <1>0, <3>1, <4>1, <5>1, <5>2 DEF Nesting
      <4>5. QED
        BY <4>2, <4>3, <4>4
    <3>3. Phases'
      BY <1>0, <2>3, <2>4, <2>5, <3>1, <3>2 DEF Phases, InString, Consumed
    <3>4. Printed'
      BY <2>2, <2>4 DEF Printed
    <3>5. QED
      BY <1>0, <2>3, <2>4, <3>1, <3>2, <3>3, <3>4 DEF DocRun, Running, Consumed
  <2>6. CASE TopRole # "KEY"
    <3>1. cur' = AboveKey(vs, Parent(vs, cur)) /\ outcome' = outcome /\ Pop
      BY <1>8, <2>3, <2>4, <2>6 DEF onGetOutElement
    <3>2. AboveKey(vs, Parent(vs, cur)) = AboveKey(values, Parent(values, cur))
      <4>1. Parent(vs, cur) = Parent(values, cur)
        BY <1>2, <2>2, <2>3
      <4>2. Parent(values, cur) = 0 \/ Parent(values, cur) \in DOMAIN tree
        BY <1>0, <1>2, <2>3, Tops DEF Path, Above
      <4>3. QED
        BY <2>2, <4>1, <4>2 DEF AboveKey, RoleOf, None
    <3>3. DocRun'
      BY <1>0, <1>8, <2>2, <2>3, <2>4, <2>6, <3>1, <3>2, Closes
    <3>4. QED
      BY <1>0, <3>1, <3>3 DEF Running
  <2>7. QED
    BY <2>5, <2>6
<1>9. CASE phase = "colon" /\ c = ":" /\ phase' = "value" /\ UNCHANGED <<open, tree>>
  <2>1. /\ onNextElement(values) /\ state' = "OUT_ELEM" /\ Consumed(c)
        /\ open # <<>> /\ TopRole = "KEY"
    BY <1>0, <1>1, <1>9, Acts DEF InString, Phases
  <2>2. expect' = "VALUE" /\ UNCHANGED <<values, root, cur, outcome>>
    BY <1>2, <2>1 DEF onNextElement
  <2>3. Placed' /\ TopRole' = TopRole
    BY <1>0, <1>9, <2>2 DEF Placed, Mirror, Path, AtTop, Nesting, Top, TopRole, RoleAt, Above
  <2>4. Phases' /\ Printed'
    BY <1>0, <1>2, <1>9, <2>1, <2>2, <2>3 DEF Phases, InString, Printed, Consumed
  <2>5. QED
    BY <1>0, <2>1, <2>2, <2>3, <2>4 DEF DocRun, Placed, Running, Consumed
<1>10. CASE /\ phase = "after" /\ c = ","
            /\ phase' = IF TopRole = "OBJECT" THEN "key" ELSE "value"
            /\ UNCHANGED <<open, tree>>
  <2>1. /\ onNextElement(values) /\ state' = "OUT_ELEM" /\ Consumed(c)
        /\ open # <<>> /\ TopRole \in {"OBJECT", "ARRAY"}
    BY <1>0, <1>1, <1>10, Acts DEF InString, Phases
  <2>2. /\ expect' = IF TopRole = "ARRAY" THEN "VALUE" ELSE "KEY"
        /\ UNCHANGED <<values, root, cur, outcome>>
    BY <1>2, <2>1 DEF onNextElement
  <2>3. Placed' /\ TopRole' = TopRole
    BY <1>0, <1>10, <2>2 DEF Placed, Mirror, Path, AtTop, Nesting, Top, TopRole, RoleAt, Above
  <2>4. Phases' /\ Printed'
    BY <1>0, <1>2, <1>10, <2>1, <2>2, <2>3 DEF Phases, InString, Printed, Consumed
  <2>5. QED
    BY <1>0, <2>1, <2>2, <2>3, <2>4 DEF DocRun, Placed, Running, Consumed
<1>11. CASE /\ TopRole = "OBJECT" /\ c = "}" /\ phase \in {"firstKey", "after"}
            /\ Pop /\ UNCHANGED tree
  <2>1. onGetOutObject(values) /\ state' = "OUT_ELEM" /\ Consumed(c) /\ open # <<>> /\ ~InString
    BY <1>0, <1>1, <1>11, Acts DEF InString, Phases
  <2>2. /\ cur' = Parent(values, cur) /\ values' = values /\ outcome' = outcome
    BY <1>2, <1>11, <2>1 DEF onGetOutObject
  <2>3. AboveKey(values, Parent(values, cur)) = Parent(values, cur)
    <3>1. PICK n \in Nat : /\ n = Len(open) /\ n >= 1 /\ n \in DOMAIN open /\ DOMAIN open = 1 .. n
                           /\ RoleAt(n) = "OBJECT" /\ Parent(values, cur) = Above(n)
      BY <1>0, <1>2, <1>11, <2>1, Tops
    <3>2. CASE n = 1
      BY <3>1, <3>2 DEF Above, AboveKey, RoleOf, None
    <3>3. CASE n > 1
      <4>1. RoleAt(n - 1) = "ARRAY" /\ open[n - 1] \in DOMAIN tree
        <5>1. n - 1 \in DOMAIN open /\ n # 1
          BY <3>1, <3>3
        <5>2. RoleAt(n - 1) = "ARRAY"
          BY <1>0, <3>1, <5>1 DEF Nesting
        <5>3. QED
          BY <1>0, <5>1, <5>2 DEF Path
      <4>2. RoleOf(values, open[n - 1]) = "ARRAY"
        BY <1>0, <4>1, Mirrored DEF RoleAt
      <4>3. QED
        BY <3>1, <3>3, <4>2 DEF Above, AboveKey
    <3>4. QED
      BY <3>1, <3>2, <3>3
  <2>4. Mirror'
    BY <1>0, <1>11, <2>2 DEF Mirror
  <2>5. \A i \in DOMAIN values' : values'[i].role \in {"KEY", "VALUE"} => values'[i].to # 0
    BY <2>1, <2>2, Prints
  <2>6. DocRun'
    BY <1>0, <1>2, <1>11, <2>1, <2>2, <2>3, <2>4, <2>5, Closes
  <2>7. QED
    BY <1>0, <2>2, <2>6 DEF Running
<1>12. CASE /\ TopRole = "ARRAY" /\ c = "]" /\ phase \in {"firstValue", "after"}
            /\ Pop /\ UNCHANGED tree
  <2>1. onGetOutArray(values) /\ state' = "OUT_ELEM" /\ Consumed(c) /\ open # <<>> /\ ~InString
    BY <1>0, <1>1, <1>12, Acts DEF InString, Phases
  <2>2. /\ cur' = AboveKey(values, Parent(values, cur)) /\ values' = values /\ outcome' = outcome
    BY <1>2, <1>12, <2>1 DEF onGetOutArray
  <2>3. Mirror'
    BY <1>0, <1>12, <2>2 DEF Mirror
  <2>4. \A i \in DOMAIN values' : values'[i].role \in {"KEY", "VALUE"} => values'[i].to # 0
    BY <2>1, <2>2, Prints
  <2>5. DocRun'
    BY <1>0, <1>2, <1>12, <2>1, <2>2, <2>3, <2>4, Closes
  <2>6. QED
    BY <1>0, <2>2, <2>5 DEF Running
<1>13. ~(phase = "string" /\ c \in {"x", "d", "b"}) /\ phase # "escape" /\ c # "x"
  BY <1>0, <1>1 DEF InString, Special
<1>14. QED
  BY <1>0, <1>3, <1>4, <1>5, <1>6, <1>7, <1>8, <1>9, <1>10, <1>11, <1>12, <1>13 DEF Follows

\* A character with no meaning of its own: in a string, or a blank.
LEMMA DocOrdinary ==
    ASSUME ~Nested, Shapes, Running, kind = "document", DocRun, NEW c \in Char, Ordinary(c)
    PROVE  Running' /\ DocRun'
<1>0. /\ Follows(c) /\ ~isSpecialChar(c) /\ here = None /\ here' = here /\ prev' = c
      /\ UNCHANGED <<outcome, begin, state, values, root, cur, expect>>
      /\ Mirror /\ Path /\ AtTop /\ Nesting /\ Phases /\ Printed /\ (values = <<>> => c = "{")
  BY DEF DocRun, Ordinary, At, treeVars, Skipping
<1>1. /\ UNCHANGED <<open, tree>> /\ phase # "start"
      /\ phase = "string" => c \in {"x", "d", "b"} /\ phase' = IF c = "b" THEN "escape" ELSE "string"
      /\ phase = "escape" => c \in {"x", "q"} /\ phase' = "string"
      /\ ~InString => c = "x" /\ phase' = phase
  <2>1. phase = "string" => c \in {"x", "d", "b", "q"} /\ prev # "b"
    BY <1>0 DEF Follows, Phases, InString
  <2>2. phase # "escape" => prev # "b" /\ (c \in Special => state = "IN_ELEM" /\ c = "d")
    BY <1>0 DEF isSpecialChar, Phases
  <2>3. phase # "start"
    BY <1>0, <2>2 DEF Phases, Special
  <2>4. ~InString => c = "x"
    <3>1. ~InString => state = "OUT_ELEM" /\ c \notin Special
      BY <1>0, <2>2, <2>3 DEF Phases, InString
    <3>2. ~InString => c \in Special \cup {"x"}
      BY <1>0 DEF Follows, Special, InString
    <3>3. QED
      BY <3>1, <3>2
  <2>5. phase = "string" => c # "q"
    BY <2>2 DEF Special
  <2>6. QED
    BY <1>0, <2>1, <2>3, <2>4, <2>5 DEF Follows, InString, refVars
<1>2. Placed' /\ TopRole' = TopRole /\ tree'[Top'] = tree[Top]
  BY <1>0, <1>1 DEF Placed, Mirror, Path, AtTop, Nesting, Top, TopRole, RoleAt, Above
<1>3. Phases'
  BY <1>0, <1>1, <1>2 DEF Phases, InString
<1>4. Printed'
  BY <1>0, <1>1 DEF Printed, InString
<1>5. QED
  BY <1>0, <1>2, <1>3, <1>4 DEF DocRun, Placed, Running

\* A plain document has no byte above 127.
LEMMA DocAscii ==
    ASSUME ~Nested, kind = "document", DocRun
    PROVE  ~HighByte
BY DEF DocRun, HighByte, At, Follows, InString

LEMMA DocEnd ==
    ASSUME Shapes, Running, kind = "document", DocRun, EndOfText
    PROVE  outcome' = "true"
<1>1. phase = "end" /\ values # <<>>
  BY DEF EndOfText, DocRun, Phases
<1>2. ~Unprintable(values)
  BY <1>1, Prints DEF InString
<1>3. QED
  BY <1>1, <1>2 DEF EndOfText, Skipping

LEMMA DocKeeps == ~Nested /\ ParserInv /\ DocInv /\ [Next]_vars => DocInv'
<1> SUFFICES ASSUME ~Nested, ParserInv, DocInv, [Next]_vars PROVE DocInv'
  OBVIOUS
<1>0. Shapes
  BY DEF ParserInv
<1>1. CASE Set
  <2>1. <<>> \in Seq(Value) /\ <<>> \in Seq(Nat) /\ DOMAIN <<>> = {} /\ Len(<<>>) = 0
    BY EmptySeq
  <2>2. Placed' /\ Printed'
    BY <1>1, <2>1 DEF Set, Placed, Mirror, Path, AtTop, Nesting, Printed
  <2>3. Phases'
    BY <1>1 DEF Set, Phases, InString, None
  <2>4. QED
    BY <1>1, <2>2, <2>3 DEF DocInv, DocRun, Placed, Set
<1>2. CASE EndOfText
  BY <1>0, <1>2, DocEnd DEF DocInv, EndOfText, textVars, Running
<1>3. ASSUME NEW c \in Char, Skip(c) PROVE DocInv'
  <2>1. /\ UNCHANGED <<kind, outcome, prev, here, state, values, root, cur, expect>>
        /\ UNCHANGED <<phase, open, tree>> /\ values = <<>>
    BY <1>3 DEF Skip, Skipping, textVars, treeVars, refVars
  <2>2. ASSUME DocRun PROVE DocRun'
    <3>1. phase = "start" /\ ~InString
      BY <2>1, <2>2 DEF DocRun, Phases, InString
    <3>2. Phases'
      BY <2>1, <2>2, <3>1 DEF DocRun, Phases, InString, TopRole, Top
    <3>3. Placed' /\ Printed' /\ here' = None
      BY <2>1, <2>2 DEF DocRun, Placed, Mirror, Path, AtTop, Top, Nesting, RoleAt, Above, Printed,
                        InString
    <3>4. QED
      BY <3>2, <3>3 DEF DocRun, Placed
  <2>3. QED
    BY <2>1, <2>2 DEF DocInv, Running
<1>4. ASSUME NEW c \in Char, Ordinary(c) PROVE DocInv'
  <2>1. kind' = kind /\ Running
    BY <1>4 DEF Ordinary, At, textVars
  <2>2. QED
    BY <1>0, <1>4, <2>1, DocOrdinary DEF DocInv, Running
<1>5. ASSUME NEW c \in Char, Significant(c) PROVE DocInv'
  <2>1. kind' = kind /\ Running
    BY <1>5 DEF Significant, At, textVars
  <2>2. QED
    BY <1>0, <1>5, <2>1, DocSignificant DEF DocInv, Running
<1>6. CASE UNCHANGED vars
  BY <1>6 DEF vars, textVars, parserVars, treeVars, refVars, DocInv, Running, DocRun, Mirror, Path,
              AtTop, Top, Nesting, RoleAt, Above, Phases, InString, TopRole, Printed
<1>7. CASE HighByte
  <2>1. kind' = kind /\ Running
    BY <1>7 DEF HighByte, At, textVars
  <2>2. QED
    BY <1>7, <2>1, DocAscii DEF DocInv
<1>8. QED
  BY <1>1, <1>2, <1>3, <1>4, <1>5, <1>6, <1>7 DEF Next

LEMMA DocSound == ~Nested => (Spec => []DocInv)
<1>1. Init => DocInv
  BY DEF Init, DocInv, Running
<1>2. ~Nested /\ []ParserInv /\ Init /\ [][Next]_vars => []DocInv
  <2>1. SUFFICES ASSUME ~Nested PROVE []ParserInv /\ Init /\ [][Next]_vars => []DocInv
    OBVIOUS
  <2>2. ParserInv /\ DocInv /\ [Next]_vars => DocInv'
    BY <2>1, DocKeeps
  <2>3. QED
    BY <1>1, <2>2, PTL
<1>3. QED
  BY <1>2, ParserSound, PTL DEF Spec

\* Every plain document, as long as it may be, is accepted: no handler meets a
\* Value of another kind or a null pointer, and the tree can be printed at every
\* special character (json.cpp:66-115).  Plain is a document whose values are
\* strings, arrays, and objects directly inside arrays, and whose strings are
\* not empty and ASCII, with none of  , : { } [ ]  and no escaped backslash.
THEOREM DocumentsAccepted == ~Nested => (Spec => []Accepts)
<1>1. DocInv => Accepts
  BY DEF DocInv, Accepts
<1>2. QED
  BY <1>1, DocSound, PTL

\* On such a document m_currentValue is the innermost open Value and the tree is
\* the one the document denotes, at every character, whatever was parsed before.
THEOREM TreeIsTheDocuments == ~Nested => (Spec => []TreeMatches)
<1>1. DocInv => TreeMatches
  BY DEF DocInv, DocRun, Mirror, AtTop, Running, TreeMatches
<1>2. QED
  BY <1>1, DocSound, PTL
=============================================================================
