---------------------------- MODULE FederationBase ----------------------------
(***************************************************************************)
(* What every module of the control plane shares: one tenant/model scope,  *)
(* its clients, and the rounds they train in.  Every lookup of the code    *)
(* filters by scope, so scopes do not interact.                            *)
(***************************************************************************)
EXTENDS Naturals, Sequences, FiniteSets

CONSTANTS
    Clients,   \* client identifiers
    MaxRound   \* bound on round indices

ASSUME FederationAssumption == MaxRound \in Nat

Rounds == 1 .. MaxRound

=============================================================================
