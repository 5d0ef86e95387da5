---------------------------- MODULE MCRegistration ----------------------------
(***************************************************************************)
(* Small instances of registration: clients x and y, certificates A and B. *)
(***************************************************************************)
EXTENDS Registration

TwoClients == {"x", "y"}
TwoCertificates == {"A", "B"}
=============================================================================
