---------------------------- MODULE MCJsonParser ----------------------------
(* JsonParser for TLC: the lengths of the texts of each kind.              *)
EXTENDS JsonParser

MCMaxText == [document |-> 17, any |-> 8]
MCMaxDocument == [document |-> 18]
=============================================================================
