----------------------------- MODULE MCStreamCall -----------------------------
(***************************************************************************)
(* Small instances of one stream: a client that has no model yet.          *)
(***************************************************************************)
EXTENDS StreamCall

TwoRounds == {1, 2}
=============================================================================
