---------------------------- MODULE MCControlPlane ----------------------------
(***************************************************************************)
(* Small instances of the composed control plane.                          *)
(***************************************************************************)
EXTENDS ControlPlane, TLC

CONSTANTS c1, c2, w1, a1

TwoClients == {c1, c2}
W1TrainsC1 == [w \in {w1} |-> c1]
NoTrainers == [w \in {} |-> c1]

(* Both clients plan to take part and both are needed. *)
PairJob == {[target |-> 2, planned |-> 2, min |-> 2]}
PairJobOneRound == {[target |-> 1, planned |-> 2, min |-> 2]}
(* ... or only one client at a time has a place. *)
PairOrSingleJob == PairJob \union {[target |-> 2, planned |-> 1, min |-> 1]}
(* Either client alone closes a round. *)
SoloJob == {[target |-> 2, planned |-> 2, min |-> 1]}

ClientSymmetry == Permutations({c1, c2})
=============================================================================
