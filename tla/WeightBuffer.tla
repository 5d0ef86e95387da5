----------------------------- MODULE WeightBuffer -----------------------------
(***************************************************************************)
(* The in-memory round buffer (server/weight_buffer.cpp) and the encrypted *)
(* checkpoint files it writes, for one tenant/model scope.                 *)
(*                                                                         *)
(* A tensor is abstracted to its provenance: the set of buffered entries   *)
(* it was aggregated from.  {} is "no weights", which is also what a       *)
(* missing checkpoint file holds.                                          *)
(***************************************************************************)
EXTENDS FederationBase

CONSTANT
    Tensors    \* payload kinds: "ok", "alt" (another dimension), "nan" (a value
               \* that is not finite), "garbled" (cannot be decrypted)

ASSUME BufferAssumption ==
    Tensors \subseteq {"ok", "alt", "nan", "garbled"}

VARIABLES
    roundWeights,     \* round_weights_: what each round has buffered
    completedRounds,  \* completed_rounds_
    latest,           \* latest_models_[scope]
    checkpoints       \* the files global_model_round_<r>.bin

bufferVars == <<roundWeights, completedRounds, latest, checkpoints>>

(* asg is the assignment the weights were submitted under; the buffer does *)
(* not store it, it is kept to say where the weights came from.            *)
Entry == [client : Clients, asg : Nat, tensor : Tensors]

NoModel == [round |-> 0, version |-> 0, weights |-> {}]
Snapshot == [round : 0 .. MaxRound, version : Nat, weights : SUBSET Entry]

IsRoundCompleted(r) == r \in completedRounds
HasClientSubmission(r, c) == \E e \in roundWeights[r] : e.client = c

WithEntry(r, e) == {f \in roundWeights[r] : f.client # e.client} \union {e}
WithoutClient(r, c) == {f \in roundWeights[r] : f.client # c}

(* One dimension and no non-finite value across all buffered tensors. *)
ValidateWeights(entries) ==
    /\ \A e \in entries : e.tensor # "nan"
    /\ \A e, f \in entries : e.tensor = f.tensor

(* Mutant: off by one. *)
ThresholdMissesOne(required) == IF required > 1 THEN required - 1 ELSE 1
Threshold(required) == IF required > 1 THEN required ELSE 1

(* AddWeightAndCheckAggregate holds the buffer mutex from the insertion to *)
(* the end; what others (or a restart) see of it is the checkpoint file and*)
(* the call into the store, hence the three steps of an aggregation.       *)

BelowThreshold(r, e, required) ==
    Cardinality(WithEntry(r, e)) < Threshold(required)

(* Not enough clients yet: the weights wait in the buffer. *)
WeightsWait(r, e, required) ==
    /\ ~IsRoundCompleted(r)
    /\ BelowThreshold(r, e, required)
    /\ roundWeights' = [roundWeights EXCEPT ![r] = WithEntry(r, e)]
    /\ UNCHANGED <<completedRounds, latest, checkpoints>>

(* Validation of the whole round fails: the last submission is removed. *)
WeightsInvalid(r, e, required) ==
    /\ ~IsRoundCompleted(r)
    /\ ~BelowThreshold(r, e, required)
    /\ ~ValidateWeights(WithEntry(r, e))
    /\ roundWeights' = [roundWeights EXCEPT ![r] = WithoutClient(r, e.client)]
    /\ UNCHANGED <<completedRounds, latest, checkpoints>>

Aggregates(r, e, required) ==
    /\ ~IsRoundCompleted(r)
    /\ ~BelowThreshold(r, e, required)
    /\ ValidateWeights(WithEntry(r, e))

(* The last submission is removed, the file keeps its content. *)
CheckpointNotOpened(r, e, required) ==
    /\ Aggregates(r, e, required)
    /\ roundWeights' = [roundWeights EXCEPT ![r] = WithoutClient(r, e.client)]
    /\ UNCHANGED <<completedRounds, latest, checkpoints>>

(* Opening the file truncates it. *)
CheckpointOpened(r, e, required) ==
    /\ Aggregates(r, e, required)
    /\ roundWeights' = [roundWeights EXCEPT ![r] = WithEntry(r, e)]
    /\ checkpoints' = [checkpoints EXCEPT ![r] = {}]
    /\ UNCHANGED <<completedRounds, latest>>

(* Mutant: the aggregate is taken before the last submission is inserted. *)
CheckpointWrittenEarly(r, e) ==
    /\ checkpoints' = [checkpoints EXCEPT ![r] = WithoutClient(r, e.client)]
    /\ UNCHANGED <<roundWeights, completedRounds, latest>>
CheckpointWritten(r, e) ==
    /\ checkpoints' = [checkpoints EXCEPT ![r] = roundWeights[r]]
    /\ UNCHANGED <<roundWeights, completedRounds, latest>>

(* The file is removed, and so is the last submission. *)
CheckpointNotWritten(r, e) ==
    /\ roundWeights' = [roundWeights EXCEPT ![r] = WithoutClient(r, e.client)]
    /\ UNCHANGED <<completedRounds, latest, checkpoints>>

(* After the store has recorded the model as `version`. *)
AggregatePublished(r, version) ==
    /\ latest' = [round |-> r, version |-> version, weights |-> roundWeights[r]]
    /\ completedRounds' = completedRounds \union {r}
    /\ UNCHANGED <<roundWeights, checkpoints>>

(* completed_rounds_ is left alone. *)
RestoreLatestGlobalModel(r, version, weights) ==
    /\ latest' = [round |-> r, version |-> version, weights |-> weights]
    /\ UNCHANGED <<roundWeights, completedRounds, checkpoints>>

(* A new process starts with an empty buffer and restores the model the    *)
(* store calls active, if its checkpoint can be read.                      *)
(* Mutant: round and version are taken for the same number. *)
BufferRestartedAtRound(r, version) ==
    /\ roundWeights' = [q \in Rounds |-> {}]
    /\ completedRounds' = {}
    /\ latest' = IF version # 0 /\ checkpoints[r] # {}
                 THEN [round |-> r, version |-> r, weights |-> checkpoints[r]]
                 ELSE NoModel
    /\ UNCHANGED checkpoints
BufferRestarted(r, version) ==
    /\ roundWeights' = [q \in Rounds |-> {}]
    /\ completedRounds' = {}
    /\ latest' = IF version # 0 /\ checkpoints[r] # {}
                 THEN [round |-> r, version |-> version, weights |-> checkpoints[r]]
                 ELSE NoModel
    /\ UNCHANGED checkpoints

BufferInit ==
    /\ roundWeights = [r \in Rounds |-> {}]
    /\ completedRounds = {}
    /\ latest = NoModel
    /\ checkpoints = [r \in Rounds |-> {}]

BufferTypeOK ==
    /\ roundWeights \in [Rounds -> SUBSET Entry]
    /\ completedRounds \subseteq Rounds
    /\ latest \in Snapshot
    /\ checkpoints \in [Rounds -> SUBSET Entry]

=============================================================================
