-------------------------- MODULE MCPersistentStore ---------------------------
(***************************************************************************)
(* Small instances of the store with its file.                             *)
(***************************************************************************)
EXTENDS PersistentStore

CONSTANTS c1, w1

W1TrainsC1 == [w \in {w1} |-> c1]

(* One or two clients at a time in a single round. *)
OneOrTwoPlanned == {[target |-> 1, planned |-> p, min |-> 1] : p \in {1, 2}}
=============================================================================
