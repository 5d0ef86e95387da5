----------------------------- MODULE ControlPlane -----------------------------
(***************************************************************************)
(* The PQ-FL server: the handlers of server/federated_service.cpp,         *)
(* server/worker_service.cpp and server/admin_service.cpp over the state   *)
(* store and the weight buffer, for one tenant/model scope.                *)
(*                                                                         *)
(* FederatedLearning calls come from completion-queue threads, but each    *)
(* event is handled under proceed_mutex_, so at most one is in progress:   *)
(* `call`.  WorkerCoordinator and Admin calls are synchronous gRPC methods *)
(* on threads of their own; they interleave with `call` and each other     *)
(* between any two of their calls into the store, buffer and crypto        *)
(* engine, which lock separately.                                          *)
(***************************************************************************)
EXTENDS StateStore, WeightBuffer

CONSTANTS
    Admins,        \* administrators with a rollback in progress at a time
    AdHocRounds,   \* rounds a client may submit for outside any job
    MaxRollbacks,  \* bound on rollbacks
    MaxRestarts,   \* bound on server restarts
    DiskFaults     \* whether writing or reading a checkpoint may fail

ASSUME ControlPlaneAssumption ==
    /\ AdHocRounds \subseteq Rounds
    /\ MaxRollbacks \in Nat /\ MaxRestarts \in Nat
    /\ DiskFaults \in BOOLEAN

VARIABLES
    call,       \* the FederatedLearning event being handled
    lease,      \* per worker, the LeaseTrainingTask in progress
    rollback,   \* per administrator, the RollbackModel in progress
    reply,      \* the answer to the last SubmitWeights
    rollbacks,  \* number of rollbacks started
    restarts,   \* number of server restarts
    recorded    \* history: the weights each model version was recorded with

callVars == <<call, reply>>
adminVars == <<rollback, rollbacks>>
vars == <<storeVars, bufferVars, call, lease, rollback, reply, rollbacks,
          restarts, recorded>>

NoRequest == [client |-> "none", job |-> 0, asg |-> 0, round |-> 0, base |-> 0]

(* The handler's local variables: where it is, what it read. *)
IdleCall == [at |-> "idle", req |-> NoRequest, tensor |-> "none", version |-> 0,
             scheduled |-> FALSE, required |-> 0, aggregated |-> FALSE]
IdleLease == [at |-> "idle", version |-> 0, asg |-> 0]
IdleRollback == [at |-> "idle", version |-> 0, weights |-> {}]

Reply == {"none", "rejected", "accepted", "triggered"}

Answer(r) == /\ call' = IdleCall
             /\ reply' = r
At(pc) == call.at = pc

-----------------------------------------------------------------------------
(* GetTrainingConfig: the active version is read, then a lease is asked for *)

ConfigReadVersion(c) ==
    /\ At("idle")
    /\ call' = [IdleCall EXCEPT !.at = "config", !.req.client = c,
                                !.version = ActiveModelVersion]
    /\ UNCHANGED <<storeVars, bufferVars, lease, adminVars, reply, restarts, recorded>>

ConfigLease ==
    /\ At("config")
    /\ LeaseTrainingAssignment(call.req.client, call.version)
    /\ call' = IdleCall
    /\ UNCHANGED <<bufferVars, lease, adminVars, reply, restarts, recorded>>

-----------------------------------------------------------------------------
(* SubmitWeights *)

(* Requests turned away for their identifiers, sizes, certificate or       *)
(* missing registration touch no state and are left out.                   *)
(*                                                                         *)
(* A client submits what its configuration told it: the assignment and the *)
(* assignment's job, round and base version; or, ad hoc, only a round.     *)
AssignedRequest(i) ==
    [client |-> assignments[i].client, job |-> assignments[i].job, asg |-> i,
     round |-> assignments[i].round, base |-> assignments[i].base]
AdHocRequest(c, r) == [client |-> c, job |-> 0, asg |-> 0, round |-> r, base |-> 0]
Requests == {AssignedRequest(i) : i \in {k \in DOMAIN assignments :
                                             assignments[k].round \in Rounds}}
            \union {AdHocRequest(c, r) : c \in Clients, r \in AdHocRounds}

(* Mutant: only versions yet to come are refused. *)
StaleOnlyAhead(req, version) == req.base > version
Stale(req, version) == req.base > 0 /\ version > 0 /\ req.base # version

SubmitReadVersion(req, tensor) ==
    /\ At("idle")
    /\ IF Stale(req, ActiveModelVersion)
       THEN Answer("rejected")
       ELSE /\ call' = [IdleCall EXCEPT !.at = "job", !.req = req, !.tensor = tensor,
                                        !.version = ActiveModelVersion]
            /\ UNCHANGED reply
    /\ UNCHANGED <<storeVars, bufferVars, lease, adminVars, restarts, recorded>>

SubmitReadJob ==
    /\ At("job")
    /\ call' = [call EXCEPT
           !.at = IF HasActiveJob THEN "validate" ELSE "check",
           !.scheduled = HasActiveJob,
           !.required = IF HasActiveJob /\ jobs[ActiveJob].min > 0
                        THEN jobs[ActiveJob].min ELSE DefaultMinClients]
    /\ UNCHANGED <<storeVars, bufferVars, lease, adminVars, reply, restarts, recorded>>

SubmitValidate ==
    /\ At("validate")
    /\ ValidateTrainingAssignmentSubmission(call.req)
    /\ IF HasActiveJob /\ ~Submittable(call.req)
       THEN Answer("rejected")
       ELSE /\ call' = [call EXCEPT !.at = "check"]
            /\ UNCHANGED reply
    /\ UNCHANGED <<bufferVars, lease, adminVars, restarts, recorded>>

(* Mutant: a client's second submission is not noticed. *)
SubmitCheckRoundOnly ==
    /\ At("check")
    /\ IF IsRoundCompleted(call.req.round) \/ call.tensor = "garbled"
       THEN Answer("rejected") /\ UNCHANGED storeVars
       ELSE /\ call' = [call EXCEPT !.at = "add"]
            /\ RecordWeightSubmission
            /\ UNCHANGED reply
    /\ UNCHANGED <<bufferVars, lease, adminVars, restarts, recorded>>
(* Round and duplicate checks, and decryption; then the submission is      *)
(* booked and saved, before it is known whether it will be accepted.       *)
SubmitCheckRound ==
    /\ At("check")
    /\ IF \/ IsRoundCompleted(call.req.round)
          \/ HasClientSubmission(call.req.round, call.req.client)
          \/ call.tensor = "garbled"
       THEN Answer("rejected") /\ UNCHANGED storeVars
       ELSE /\ call' = [call EXCEPT !.at = "add"]
            /\ RecordWeightSubmission
            /\ UNCHANGED reply
    /\ UNCHANGED <<bufferVars, lease, adminVars, restarts, recorded>>

Submitted == [client |-> call.req.client, asg |-> call.req.asg, tensor |-> call.tensor]

(* Mutant: the version to come is taken for the version recorded. *)
AfterBufferNextVersion(aggregated, version) ==
    IF call.scheduled
    THEN /\ call' = [call EXCEPT !.at = "accept", !.aggregated = aggregated,
                                 !.version = version + 1]
         /\ UNCHANGED reply
    ELSE Answer(IF aggregated THEN "triggered" ELSE "accepted")
AfterBuffer(aggregated, version) ==
    IF call.scheduled
    THEN /\ call' = [call EXCEPT !.at = "accept", !.aggregated = aggregated,
                                 !.version = version]
         /\ UNCHANGED reply
    ELSE Answer(IF aggregated THEN "triggered" ELSE "accepted")

SubmitWait ==
    /\ At("add")
    /\ WeightsWait(call.req.round, Submitted, call.required)
    /\ AfterBuffer(FALSE, latest.version)
    /\ UNCHANGED <<storeVars, lease, adminVars, restarts, recorded>>

(* Mutant: the buffer's refusal is not passed on. *)
SubmitNotAggregatedUnnoticed ==
    /\ At("add")
    /\ \/ WeightsInvalid(call.req.round, Submitted, call.required)
       \/ DiskFaults /\ CheckpointNotOpened(call.req.round, Submitted, call.required)
    /\ AfterBuffer(FALSE, latest.version)
    /\ UNCHANGED <<storeVars, lease, adminVars, restarts, recorded>>
SubmitNotAggregated ==
    /\ At("add")
    /\ \/ WeightsInvalid(call.req.round, Submitted, call.required)
       \/ DiskFaults /\ CheckpointNotOpened(call.req.round, Submitted, call.required)
    /\ Answer("rejected")
    /\ UNCHANGED <<storeVars, lease, adminVars, restarts, recorded>>

SubmitOpenCheckpoint ==
    /\ At("add")
    /\ CheckpointOpened(call.req.round, Submitted, call.required)
    /\ call' = [call EXCEPT !.at = "write"]
    /\ UNCHANGED <<storeVars, lease, adminVars, reply, restarts, recorded>>

SubmitWriteCheckpoint ==
    /\ At("write")
    /\ CheckpointWritten(call.req.round, Submitted)
    /\ call' = [call EXCEPT !.at = "record"]
    /\ UNCHANGED <<storeVars, lease, adminVars, reply, restarts, recorded>>

SubmitNotWritten ==
    /\ DiskFaults
    /\ At("write")
    /\ CheckpointNotWritten(call.req.round, Submitted)
    /\ Answer("rejected")
    /\ UNCHANGED <<storeVars, lease, adminVars, restarts, recorded>>

(* Nothing can see latest_models_ between the store's call and the unlock. *)
SubmitRecordModel ==
    /\ At("record")
    /\ RecordAggregatedModel(call.req.round)
    /\ AggregatePublished(call.req.round, Len(models) + 1)
    /\ recorded' = Append(recorded, roundWeights[call.req.round])
    /\ AfterBuffer(TRUE, Len(models) + 1)
    /\ UNCHANGED <<lease, adminVars, restarts>>

(* Mutant: the earlier validation is trusted. *)
SubmitAcceptUnchecked ==
    /\ At("accept")
    /\ assignments' = [assignments EXCEPT ![call.req.asg].status = "submitted"]
    /\ IF call.aggregated
       THEN call' = [call EXCEPT !.at = "advance"] /\ UNCHANGED reply
       ELSE Answer("accepted")
    /\ UNCHANGED <<jobs, models, workers, tasks, bufferVars, lease, adminVars,
                   restarts, recorded>>
SubmitAccept ==
    /\ At("accept")
    /\ AcceptTrainingAssignmentSubmission(call.req)
    /\ IF HasActiveJob /\ ~Submittable(call.req)
       THEN Answer("rejected")
       ELSE IF call.aggregated
       THEN call' = [call EXCEPT !.at = "advance"] /\ UNCHANGED reply
       ELSE Answer("accepted")
    /\ UNCHANGED <<bufferVars, lease, adminVars, restarts, recorded>>

(* Mutant: the job is not advanced when the model was rolled back meanwhile. *)
SubmitAdvanceUnlessRolledBack ==
    /\ At("advance")
    /\ IF call.version = ActiveModelVersion
       THEN AdvanceTrainingJobRound(call.req.round, call.version)
       ELSE UNCHANGED storeVars
    /\ Answer("triggered")
    /\ UNCHANGED <<bufferVars, lease, adminVars, restarts, recorded>>
SubmitAdvance ==
    /\ At("advance")
    /\ AdvanceTrainingJobRound(call.req.round, call.version)
    /\ Answer("triggered")
    /\ UNCHANGED <<bufferVars, lease, adminVars, restarts, recorded>>

SubmitStep ==
    \/ SubmitReadJob \/ SubmitValidate \/ SubmitCheckRound \/ SubmitWait
    \/ SubmitNotAggregated \/ SubmitOpenCheckpoint \/ SubmitWriteCheckpoint
    \/ SubmitNotWritten \/ SubmitRecordModel \/ SubmitAccept \/ SubmitAdvance

-----------------------------------------------------------------------------
(* WorkerCoordinator *)

RegisterWorker(w) ==
    /\ lease[w].at = "idle"
    /\ UpsertWorker(w)
    /\ UNCHANGED <<bufferVars, callVars, lease, adminVars, restarts, recorded>>

TaskReadVersion(w) ==
    /\ lease[w].at = "idle"
    /\ workers[w].status # "unregistered"
    /\ lease' = [lease EXCEPT ![w] = [at |-> "lease", version |-> ActiveModelVersion,
                                      asg |-> 0]]
    /\ UNCHANGED <<storeVars, bufferVars, callVars, adminVars, restarts, recorded>>

TaskLeaseRefused(w) ==
    /\ lease[w].at = "lease"
    /\ LeaseWithoutJob \/ LeaseRefused(TrainerOf[w])
    /\ lease' = [lease EXCEPT ![w] = IdleLease]
    /\ UNCHANGED <<bufferVars, callVars, adminVars, restarts, recorded>>

TaskLeaseGranted(w, a) ==
    /\ lease[w].at = "lease"
    /\ \/ LeaseReused(TrainerOf[w], a)
       \/ a = Len(assignments) + 1 /\ LeaseIssued(TrainerOf[w], lease[w].version)
    /\ lease' = [lease EXCEPT ![w] = [@ EXCEPT !.at = "task", !.asg = a]]
    /\ UNCHANGED <<bufferVars, callVars, adminVars, restarts, recorded>>

TaskLease(w) ==
    /\ lease[w].at = "task"
    /\ LeaseWorkerTask(w, lease[w].asg)
    /\ lease' = [lease EXCEPT ![w] = IdleLease]
    /\ UNCHANGED <<bufferVars, callVars, adminVars, restarts, recorded>>

ReportTaskStatus(w, t, s) ==
    /\ UpdateWorkerTaskStatus(w, t, s)
    /\ UNCHANGED <<bufferVars, callVars, lease, adminVars, restarts, recorded>>

Heartbeat(w, t) ==
    /\ RecordWorkerHeartbeat(w, t)
    /\ UNCHANGED <<bufferVars, callVars, lease, adminVars, restarts, recorded>>

TaskStep(w) ==
    \/ TaskReadVersion(w) \/ TaskLeaseRefused(w)
    \/ \E a \in 1 .. MaxAssignments : TaskLeaseGranted(w, a)
    \/ TaskLease(w)

-----------------------------------------------------------------------------
(* Admin *)

AdminCreateTrainingJob(spec) ==
    /\ spec.planned >= spec.min
    /\ CreateTrainingJob(spec)
    /\ UNCHANGED <<bufferVars, callVars, lease, adminVars, restarts, recorded>>

(* The store activates the target before its checkpoint has been looked at. *)
RollbackActivate(m, v) ==
    /\ rollback[m].at = "idle"
    /\ rollbacks < MaxRollbacks
    /\ rollbacks' = rollbacks + 1
    /\ RollbackModel(v)
    /\ rollback' = [rollback EXCEPT ![m] = [@ EXCEPT !.at = "read", !.version = v]]
    /\ UNCHANGED <<bufferVars, callVars, lease, restarts, recorded>>

RollbackRead(m) ==
    LET file == checkpoints[models[rollback[m].version].round] IN
    /\ rollback[m].at = "read"
    /\ rollback' = [rollback EXCEPT ![m] =
           IF file = {} THEN IdleRollback
           ELSE [@ EXCEPT !.at = "restore", !.weights = file]]
    /\ UNCHANGED <<storeVars, bufferVars, callVars, lease, rollbacks, restarts, recorded>>

RollbackUnreadable(m) ==
    /\ DiskFaults
    /\ rollback[m].at = "read"
    /\ rollback' = [rollback EXCEPT ![m] = IdleRollback]
    /\ UNCHANGED <<storeVars, bufferVars, callVars, lease, rollbacks, restarts, recorded>>

(* Waits for the buffer mutex while an aggregation is being recorded. *)
RollbackRestore(m) ==
    /\ rollback[m].at = "restore"
    /\ ~At("write") /\ ~At("record")
    /\ RestoreLatestGlobalModel(models[rollback[m].version].round,
                                rollback[m].version, rollback[m].weights)
    /\ rollback' = [rollback EXCEPT ![m] = IdleRollback]
    /\ UNCHANGED <<storeVars, callVars, lease, rollbacks, restarts, recorded>>

RollbackStep(m) == RollbackRead(m) \/ RollbackUnreadable(m) \/ RollbackRestore(m)

-----------------------------------------------------------------------------
(* Time and restart *)

TimePasses ==
    /\ \E i \in DOMAIN assignments : LeaseRunsOut(i)
    /\ UNCHANGED <<bufferVars, callVars, lease, adminVars, restarts, recorded>>

(* The server process dies at any point and starts again: calls in         *)
(* progress and the buffer are gone, the store is loaded from its file and *)
(* the buffer gets the active model back from its checkpoint.              *)
Restart ==
    /\ restarts < MaxRestarts
    /\ restarts' = restarts + 1
    /\ Reload
    /\ BufferRestarted(IF ActiveModelVersion = 0 THEN 1
                       ELSE models[ActiveModelVersion].round, ActiveModelVersion)
    /\ call' = IdleCall
    /\ reply' = "none"
    /\ lease' = [w \in Workers |-> IdleLease]
    /\ rollback' = [m \in Admins |-> IdleRollback]
    /\ UNCHANGED <<rollbacks, recorded>>

-----------------------------------------------------------------------------
Init ==
    /\ StoreInit
    /\ BufferInit
    /\ call = IdleCall
    /\ lease = [w \in Workers |-> IdleLease]
    /\ rollback = [m \in Admins |-> IdleRollback]
    /\ reply = "none"
    /\ rollbacks = 0
    /\ restarts = 0
    /\ recorded = <<>>

Next ==
    \/ \E c \in Clients : ConfigReadVersion(c)
    \/ ConfigLease
    \/ \E req \in Requests, tensor \in Tensors : SubmitReadVersion(req, tensor)
    \/ SubmitStep
    \/ \E w \in Workers : RegisterWorker(w) \/ TaskStep(w)
    \/ \E w \in Workers, t \in DOMAIN tasks, s \in ReportableStatus :
          ReportTaskStatus(w, t, s)
    \/ \E w \in Workers : \E t \in {0} \union OwnTasks(w) : Heartbeat(w, t)
    \/ \E spec \in JobSpecs : AdminCreateTrainingJob(spec)
    \/ \E m \in Admins, v \in DOMAIN models : RollbackActivate(m, v)
    \/ \E m \in Admins : RollbackStep(m)
    \/ TimePasses
    \/ Restart

Spec == Init /\ [][Next]_vars

(* A client trains and submits the last assignment it was leased. *)
ClientSubmits(c) ==
    \E i \in DOMAIN assignments :
        /\ assignments[i].client = c
        /\ assignments[i].status = "leased"
        /\ \A k \in DOMAIN assignments :
              assignments[k].client = c => k <= i
        /\ SubmitReadVersion(AssignedRequest(i), "ok")

(* The completion queue's threads finish the event they handle, and every  *)
(* client keeps asking for assignments and submitting what it was leased;  *)
(* calls of different clients compete for proceed_mutex_, hence SF.        *)
FairSpec ==
    /\ Spec
    /\ WF_vars(ConfigLease)
    /\ WF_vars(SubmitStep)
    /\ \A c \in Clients : SF_vars(ConfigReadVersion(c)) /\ SF_vars(ClientSubmits(c))

-----------------------------------------------------------------------------
(* Properties *)

(* The composed state stays in its types; the handler's local variables    *)
(* always name existing assignments and versions.                          *)
TypeOK ==
    /\ StoreTypeOK
    /\ BufferTypeOK
    /\ call.at \in {"idle", "config", "job", "validate", "check", "add", "write", "record",
                    "accept", "advance"}
    /\ call.req.asg \in 0 .. Len(assignments)
    /\ call.version \in 0 .. Len(models)
    /\ \A w \in Workers : lease[w].asg \in 0 .. Len(assignments)
    /\ \A m \in Admins : rollback[m].version \in 0 .. Len(models)
    /\ reply \in Reply
    /\ Len(recorded) = Len(models)

(* Within one server process, an assignment the store calls "submitted"    *)
(* has its weights in the round buffer, whatever worker, administrator and *)
(* clock do between the buffer and the store (the two are updated under    *)
(* different locks, by different calls of SubmitWeights).                  *)
SubmittedIsBuffered ==
    \A i \in DOMAIN assignments :
        assignments[i].status = "submitted" =>
            \E e \in roundWeights[assignments[i].round] :
                e.client = assignments[i].client /\ e.asg = i

(* An assignment is only reported "aggregated" if a recorded model of its  *)
(* round was computed from the weights submitted under it.                 *)
AggregatedContributed ==
    \A i \in DOMAIN assignments :
        assignments[i].status = "aggregated" =>
            \E v \in DOMAIN models :
                /\ models[v].round = assignments[i].round
                /\ \E e \in recorded[v] : e.asg = i

(* Every stored model version can be rolled back to: the checkpoint file   *)
(* of its round still holds the weights the version was recorded with.     *)
CheckpointIntact ==
    \A v \in DOMAIN models : checkpoints[models[v].round] = recorded[v]

(* A model is never aggregated from fewer distinct clients than the least  *)
(* minimum ever in force: some created job's min_clients_per_round or the  *)
(* configured default.                                                     *)
EnoughContributors ==
    \A v \in DOMAIN models :
        \E min \in {jobs[j].min : j \in DOMAIN jobs} \union {DefaultMinClients} :
            Cardinality({e.client : e \in recorded[v]}) >= min

(* A job's round counter and its count of completed rounds move together:  *)
(* what it reports as completed are the rounds it ran.                     *)
JobRoundsInStep ==
    \A j \in DOMAIN jobs : jobs[j].round = jobs[j].completed + 1

(* Of one job and round, at most one assignment per client counts as taken *)
(* (submitted or aggregated).  The store alone does not see to it: a client*)
(* that has submitted may lease the round again.                           *)
Taken == {i \in DOMAIN assignments :
             assignments[i].status \in {"submitted", "aggregated"}}
OneSubmissionPerRound ==
    \A i, k \in Taken :
        /\ assignments[i].job = assignments[k].job
        /\ assignments[i].client = assignments[k].client
        /\ assignments[i].round = assignments[k].round
        => i = k

(* Between calls, the round an active job wants trained is still open in   *)
(* the buffer: otherwise every submission for it is rejected as "already   *)
(* aggregated" and the job can never finish.                               *)
ActiveRoundOpen ==
    At("idle") /\ HasActiveJob => jobs[ActiveJob].round \notin completedRounds

(* When nothing is being recorded or rolled back, the buffer serves the    *)
(* version the store calls active (and checks base_model_version against), *)
(* or, when the checkpoint was lost with the process, no model at all, but *)
(* never another version: clients would train on weights every submission  *)
(* of which is stale.                                                      *)
Quiescent == ~At("record") /\ \A m \in Admins : rollback[m].at = "idle"
StoreBufferAgree ==
    Quiescent => latest = NoModel \/ latest.version = ActiveModelVersion

(* What a client is told of its submission is true when it is told: the    *)
(* weights of an accepted one are in the buffer of their round, those of   *)
(* one that triggered aggregation are in a recorded model of their round,  *)
(* whatever happened between the buffer, the store and the answer.  (The   *)
(* converse does not hold: a rejected submission may have been counted.)   *)
AnswerTrue ==
    [][~At("idle") /\ ~At("config") /\ call'.at = "idle" /\ restarts' = restarts =>
          /\ reply' = "accepted" => Submitted \in roundWeights'[call.req.round]
          /\ reply' = "triggered" =>
                 \E v \in DOMAIN models' :
                     /\ models'[v].round = call.req.round
                     /\ Submitted \in recorded'[v]]_vars

(* While its clients keep training, a job runs the rounds it was created   *)
(* for.  proto/pqfl.proto calls target_rounds "Total FL rounds to          *)
(* complete".                                                              *)
JobProgress ==
    \A j \in 1 .. MaxJobs :
        j \in DOMAIN jobs ~>
            j \in DOMAIN jobs /\ jobs[j].status \in {"completed", "superseded"}

=============================================================================
