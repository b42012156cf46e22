----------------------------- MODULE ByteStream -----------------------------
(***************************************************************************)
(* What a server promises about the connections it accepts: a reliable     *)
(* stream each.  What the peer sends is given to the callback in order,    *)
(* piece by piece, without a gap and once, and all of it, until the loop   *)
(* is closed.  It is what test/utils/net/socket_test.cpp:57-82 relies on.  *)
(***************************************************************************)
EXTENDS Naturals, Sequences

CONSTANTS Connections, MaxChunks

VARIABLES
    sent,   \* per connection: how many pieces the peer has sent
    given,  \* per connection: the pieces the callback was given
    closed

vars == <<sent, given, closed>>

Init ==
    /\ sent = [c \in Connections |-> 0]
    /\ given = [c \in Connections |-> <<>>]
    /\ closed = FALSE

Send(c) ==
    /\ ~closed
    /\ sent[c] < MaxChunks
    /\ sent' = [sent EXCEPT ![c] = @ + 1]
    /\ UNCHANGED <<given, closed>>

Give(c) ==
    /\ ~closed
    /\ Len(given[c]) < sent[c]
    /\ given' = [given EXCEPT ![c] = Append(@, Len(@) + 1)]
    /\ UNCHANGED <<sent, closed>>

Close ==
    /\ closed' = TRUE
    /\ UNCHANGED <<sent, given>>

Next == Close \/ \E c \in Connections : Send(c) \/ Give(c)

\* Nothing that was sent waits for ever.
Spec == Init /\ [][Next]_vars /\ \A c \in Connections : WF_vars(Give(c))
=============================================================================
