----------------------------- MODULE MCKeyRotation -----------------------------
(***************************************************************************)
(* Small instances of key rotation.                                        *)
(***************************************************************************)
EXTENDS KeyRotation

OneAdmin == {"a"}
=============================================================================
