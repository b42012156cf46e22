----------------------------- MODULE MCLogLine -----------------------------
(***************************************************************************)
(* LogLine for TLC: one cell written by strftime, two by snprintf, and a   *)
(* buffer that the longest prefix just does not fit.                       *)
(***************************************************************************)
EXTENDS LogLine, TLC

MCCellLen == ("d" :> 2) @@ ("F" :> 2) @@ ("l" :> 1)

\* Without a directive, with an escaped one, with too many, and too long.
MCFormats == {
    <<"x">>,
    <<"%", "d", "x", "%", "F">>,
    <<"\\", "%", "d", "%", "l">>,
    <<"%", "F", "%", "F", "%", "l", "%", "d">>,
    <<"%", "F", "%", "d", "%", "d">>}

MCSymmetry == Permutations(Threads)
=============================================================================
