---------------------------- MODULE MCFtpControl ----------------------------
(* FtpControl for TLC: the pairs of connection mode and callback.          *)
EXTENDS FtpControl

\* A client that transfers in passive mode, and one that is connected back to
\* and has a callback.
MCOptions == {<<"passive", FALSE>>, <<"port", TRUE>>}
=============================================================================
