------------------------------ MODULE MCTraining ------------------------------
(***************************************************************************)
(* A Python client and a reference worker training a job on a server that  *)
(* was restarted after an earlier job of one round, so that there is a     *)
(* base model from the start.                                              *)
(***************************************************************************)
EXTENDS Training

CONSTANTS c1, c2, w1

OneOfEach == {c1, c2}
W1TrainsC2 == [w \in {w1} |-> c2]
(* Two rounds that either closes alone, or one that needs both.            *)
SoloRoundsOrPairRound == {[target |-> 2, planned |-> 2, min |-> 1],
                          [target |-> 1, planned |-> 2, min |-> 2]}

Contribution(c, i) == [client |-> c, asg |-> i, tensor |-> "ok"]
FirstModel == {Contribution(c1, 1), Contribution(c2, 2)}
Aggregated(c) == [job |-> 1, client |-> c, round |-> 1, base |-> 0,
                  status |-> "aggregated", due |-> FALSE]

RestartedInit ==
    /\ jobs = <<[target |-> 1, planned |-> 2, min |-> 2, status |-> "completed",
                 round |-> 2, completed |-> 1, model |-> 1]>>
    /\ assignments = <<Aggregated(c1), Aggregated(c2)>>
    /\ models = <<[round |-> 1, active |-> TRUE]>>
    /\ workers = [w \in Workers |-> [status |-> "idle", task |-> 0]]
    /\ tasks = <<[worker |-> w1, asg |-> 2, status |-> "aggregated"]>>
    /\ roundWeights = [r \in Rounds |-> {}]
    /\ completedRounds = {}
    /\ checkpoints = [r \in Rounds |-> IF r = 1 THEN FirstModel ELSE {}]
    /\ latest = [round |-> 1, version |-> 1, weights |-> FirstModel]
    /\ call = IdleCall
    /\ lease = [w \in Workers |-> IdleLease]
    /\ rollback = [m \in Admins |-> IdleRollback]
    /\ reply = "none"
    /\ rollbacks = 0
    /\ restarts = 1
    /\ recorded = <<FirstModel>>
    /\ program = [p \in Programs |-> Stopped]

RestartedSpec == RestartedInit /\ TrainingSteps
=============================================================================
