--------------------------- MODULE ControlPlaneProofs ---------------------------
(***************************************************************************)
(* Proofs about the composed server, for every set of clients, workers and *)
(* administrators and every value of the bounds: what its handlers do to   *)
(* the store is what the store allows (StoreSpec), so the store's theorems *)
(* hold of the server, and store, buffer and answers agree.                *)
(***************************************************************************)
EXTENDS ControlPlane, StateStoreProofs, FunctionTheorems

-----------------------------------------------------------------------------
(* Types of the handlers' local variables, and what these still say of the *)
(* store by the time they are used                                         *)

Steps == {"idle", "config", "job", "validate", "check", "add", "write", "record",
          "accept", "advance"}
CallRecord == [at : Steps,
               req : [client : Clients \union {"none"}, job : Nat, asg : Nat, round : Nat,
                      base : Nat],
               tensor : Tensors \union {"none"}, version : Nat, scheduled : BOOLEAN,
               required : Nat, aggregated : BOOLEAN]

(* A submission names an assignment as it was leased, or none. *)
CallInv ==
    /\ call \in CallRecord
    /\ call.version <= Len(models)
    /\ call.req.asg \in 0 .. Len(assignments)
    /\ At("config") => call.req.client \in Clients
    /\ ~At("idle") /\ ~At("config") => call.req \in Requests /\ call.tensor \in Tensors

(* A lease in progress is for the worker's own trainer. *)
LeaseInv ==
    /\ lease \in [Workers -> [at : {"idle", "lease", "task"}, version : Nat, asg : Nat]]
    /\ \A w \in Workers :
          /\ lease[w].version <= Len(models)
          /\ lease[w].asg \in 0 .. Len(assignments)
          /\ lease[w].at = "task" => /\ lease[w].asg \in DOMAIN assignments
                                     /\ assignments[lease[w].asg].client = TrainerOf[w]

RollbackInv ==
    /\ rollback \in [Admins -> [at : {"idle", "read", "restore"}, version : Nat,
                                weights : SUBSET Entry]]
    /\ \A m \in Admins :
          /\ rollback[m].version \in 0 .. Len(models)
          /\ rollback[m].at # "idle" => rollback[m].version \in DOMAIN models

RecordsInv ==
    /\ \A v \in DOMAIN models : models[v].round \in Rounds
    /\ \A i \in DOMAIN assignments : assignments[i].base \in 0 .. Len(models)
    /\ recorded \in Seq(SUBSET Entry)
    /\ Len(recorded) = Len(models)
    /\ latest.version \in 0 .. Len(models)

ServerInv ==
    /\ CoreInv /\ BufferTypeOK
    /\ CallInv /\ LeaseInv /\ RollbackInv /\ RecordsInv
    /\ reply \in Reply /\ restarts \in Nat

-----------------------------------------------------------------------------
(* Every step of the server is a step of the store, or leaves it alone. *)

LEMMA RoundsAreNat == Rounds \subseteq Nat /\ \A r \in Rounds : r <= MaxRound
BY FederationAssumption DEF Rounds

LEMMA UnchangedStore ==
    ASSUME UNCHANGED storeVars
    PROVE  [StoreNext]_storeVars
OBVIOUS

(* What SubmitWeights was sent is what the assignment it names was leased  *)
(* with.                                                                   *)
LEMMA RequestShape ==
    ASSUME CoreInv, RecordsInv, NEW req \in Requests
    PROVE  /\ req.round \in Rounds
           /\ req.client \in Clients
           /\ req.asg \in 0 .. Len(assignments)
           /\ req \in [client : Clients \union {"none"}, job : Nat, asg : Nat, round : Nat,
                       base : Nat]
           /\ req.asg \in DOMAIN assignments =>
                 /\ req = AssignedRequest(req.asg)
                 /\ req.base \in 0 .. Len(models)
<1>0. DOMAIN assignments = 1 .. Len(assignments) /\ Len(assignments) \in Nat
      /\ Rounds \subseteq Nat /\ AdHocRounds \subseteq Rounds /\ Len(models) \in Nat
    BY CoreTypes, RoundsAreNat, ControlPlaneAssumption
<1>1. CASE \E i \in DOMAIN assignments : assignments[i].round \in Rounds /\ req = AssignedRequest(i)
    <2>1. PICK i \in DOMAIN assignments :
              assignments[i].round \in Rounds /\ req = AssignedRequest(i)
        BY <1>1
    <2>2. assignments[i] \in Assignment /\ assignments[i].base \in 0 .. Len(models)
        BY CoreTypes DEF RecordsInv
    <2>3. /\ req.round = assignments[i].round /\ req.client = assignments[i].client
          /\ req.asg = i /\ req.base = assignments[i].base
        BY <2>1 DEF AssignedRequest
    <2>4. req \in [client : Clients \union {"none"}, job : Nat, asg : Nat, round : Nat,
                   base : Nat]
        BY <1>0, <2>1, <2>2 DEF AssignedRequest, Assignment
    <2> QED
        BY <1>0, <2>1, <2>2, <2>3, <2>4 DEF Assignment
<1>2. CASE \E c \in Clients, r \in AdHocRounds : req = AdHocRequest(c, r)
    <2>1. PICK c \in Clients, r \in AdHocRounds : req = AdHocRequest(c, r)
        BY <1>2
    <2>2. req.asg = 0 /\ req.client = c /\ req.round = r
        BY <2>1 DEF AdHocRequest
    <2>3. req \in [client : Clients \union {"none"}, job : Nat, asg : Nat, round : Nat,
                   base : Nat]
        BY <1>0, <2>1 DEF AdHocRequest
    <2> QED
        BY <1>0, <2>2, <2>3
<1> QED
    BY <1>1, <1>2 DEF Requests

LEMMA LeaseTrainingAssignmentAllowed ==
    ASSUME NEW c \in Clients, NEW v \in 0 .. Len(models), LeaseTrainingAssignment(c, v)
    PROVE  [StoreNext]_storeVars
<1>1. CASE LeaseWithoutJob
    BY <1>1 DEF LeaseWithoutJob, StoreNext
<1>2. CASE LeaseFromJob(c, v)
    BY <1>2 DEF StoreNext, CallbackOperation
<1> QED
    BY <1>1, <1>2 DEF LeaseTrainingAssignment

LEMMA AcceptAllowed ==
    ASSUME CoreInv, RecordsInv, NEW req \in Requests, AcceptTrainingAssignmentSubmission(req)
    PROVE  [StoreNext]_storeVars
<1>1. CASE UnacceptedSubmission(req)
    BY <1>1 DEF UnacceptedSubmission, StoreNext
<1>2. CASE AcceptedSubmission(req)
    <2>1. req.asg \in DOMAIN assignments
        BY <1>2 DEF AcceptedSubmission, Submittable
    <2>2. req = AssignedRequest(req.asg) /\ req.base \in 0 .. Len(models)
        BY <2>1, RequestShape
    <2>3. req = [client |-> assignments[req.asg].client, job |-> assignments[req.asg].job,
                 asg |-> req.asg, round |-> assignments[req.asg].round, base |-> req.base]
        BY <2>2 DEF AssignedRequest
    <2>4. CallbackOperation
        BY <1>2, <2>1, <2>2, <2>3 DEF CallbackOperation
    <2> QED
        BY <2>4 DEF StoreNext
<1> QED
    BY <1>1, <1>2 DEF AcceptTrainingAssignmentSubmission

LEMMA CallAllowed ==
    ASSUME ServerInv, ConfigLease \/ SubmitStep
    PROVE  [StoreNext]_storeVars
<1>0. /\ CoreInv /\ RecordsInv /\ call.version \in 0 .. Len(models)
      /\ At("config") => call.req.client \in Clients
      /\ ~At("idle") /\ ~At("config") => call.req \in Requests
    BY CoreTypes DEF ServerInv, CallInv, CallRecord
<1>1. CASE ConfigLease
    BY <1>0, <1>1, LeaseTrainingAssignmentAllowed DEF ConfigLease
<1>2. CASE SubmitReadJob \/ SubmitWait \/ SubmitNotAggregated \/ SubmitOpenCheckpoint
           \/ SubmitWriteCheckpoint \/ SubmitNotWritten
    BY <1>2 DEF SubmitReadJob, SubmitWait, SubmitNotAggregated, SubmitOpenCheckpoint,
                SubmitWriteCheckpoint, SubmitNotWritten
<1>3. CASE SubmitValidate
    BY <1>3 DEF SubmitValidate, ValidateTrainingAssignmentSubmission, StoreNext
<1>4. CASE SubmitCheckRound
    BY <1>4 DEF SubmitCheckRound, RecordWeightSubmission
<1>5. CASE SubmitRecordModel
    <2>1. RecordAggregatedModel(call.req.round) /\ call.req.round \in Rounds
        BY <1>0, <1>5, RequestShape DEF SubmitRecordModel, At
    <2> QED
        BY <2>1 DEF StoreNext, CallbackOperation
<1>6. CASE SubmitAccept
    BY <1>0, <1>6, AcceptAllowed DEF SubmitAccept, At
<1>7. CASE SubmitAdvance
    <2>1. AdvanceTrainingJobRound(call.req.round, call.version) /\ call.req.round \in Rounds
        BY <1>0, <1>7, RequestShape DEF SubmitAdvance, At
    <2>2. CASE HasActiveJob
        BY <1>0, <2>1, <2>2 DEF StoreNext, CallbackOperation
    <2>3. CASE ~HasActiveJob
        BY <2>1, <2>3 DEF AdvanceTrainingJobRound
    <2> QED
        BY <2>2, <2>3
<1> QED
    BY <1>1, <1>2, <1>3, <1>4, <1>5, <1>6, <1>7 DEF SubmitStep

LEMMA WorkerAllowed ==
    ASSUME ServerInv, NEW w \in Workers,
           \/ RegisterWorker(w) \/ TaskStep(w)
           \/ \E t \in DOMAIN tasks, s \in ReportableStatus : ReportTaskStatus(w, t, s)
           \/ \E t \in {0} \union OwnTasks(w) : Heartbeat(w, t)
    PROVE  [StoreNext]_storeVars
<1>0. TrainerOf[w] \in Clients /\ lease[w].version \in 0 .. Len(models)
    BY StoreAssumption, CoreTypes DEF ServerInv, LeaseInv
<1>1. CASE RegisterWorker(w)
    BY <1>1 DEF RegisterWorker, StoreNext, ServiceOperation
<1>2. CASE TaskReadVersion(w)
    BY <1>2 DEF TaskReadVersion
<1>3. CASE TaskLeaseRefused(w)
    <2>1. LeaseTrainingAssignment(TrainerOf[w], lease[w].version)
        BY <1>3 DEF TaskLeaseRefused, LeaseTrainingAssignment, LeaseFromJob
    <2> QED
        BY <1>0, <2>1, LeaseTrainingAssignmentAllowed
<1>4. CASE \E a \in 1 .. MaxAssignments : TaskLeaseGranted(w, a)
    <2>1. LeaseTrainingAssignment(TrainerOf[w], lease[w].version)
        BY <1>4 DEF TaskLeaseGranted, LeaseTrainingAssignment, LeaseFromJob, LeaseReused, HeldLeases
    <2> QED
        BY <1>0, <2>1, LeaseTrainingAssignmentAllowed
<1>5. CASE TaskLease(w)
    BY <1>5 DEF TaskLease, ServerInv, LeaseInv, StoreNext, ServiceOperation
<1>6. CASE \E t \in DOMAIN tasks, s \in ReportableStatus : ReportTaskStatus(w, t, s)
    BY <1>6 DEF ReportTaskStatus, StoreNext, ServiceOperation
<1>7. CASE \E t \in {0} \union OwnTasks(w) : Heartbeat(w, t)
    BY <1>7 DEF Heartbeat, StoreNext, ServiceOperation
<1> QED
    BY <1>1, <1>2, <1>3, <1>4, <1>5, <1>6, <1>7 DEF TaskStep

LEMMA StoreAllowed ==
    ASSUME ServerInv, [Next]_vars
    PROVE  [StoreNext]_storeVars
<1>1. ASSUME NEW c \in Clients, ConfigReadVersion(c) PROVE UNCHANGED storeVars
    BY <1>1 DEF ConfigReadVersion
<1>2. ASSUME NEW req, NEW tensor, SubmitReadVersion(req, tensor) PROVE UNCHANGED storeVars
    BY <1>2 DEF SubmitReadVersion
<1>3. ASSUME NEW spec \in JobSpecs, AdminCreateTrainingJob(spec) PROVE StoreNext
    BY <1>3 DEF AdminCreateTrainingJob, StoreNext, ServiceOperation
<1>4. ASSUME NEW m, NEW v \in DOMAIN models, RollbackActivate(m, v) PROVE StoreNext
    BY <1>4 DEF RollbackActivate, StoreNext, ServiceOperation
<1>5. ASSUME NEW m, RollbackStep(m) PROVE UNCHANGED storeVars
    BY <1>5 DEF RollbackStep, RollbackRead, RollbackUnreadable, RollbackRestore
<1>6. CASE TimePasses
    BY <1>6 DEF TimePasses, StoreNext
<1>7. CASE Restart
    BY <1>7 DEF Restart, Reload, StoreNext
<1>8. CASE UNCHANGED vars
    BY <1>8 DEF vars
<1> QED
    BY <1>1, <1>2, <1>3, <1>4, <1>5, <1>6, <1>7, <1>8, CallAllowed, WorkerAllowed DEF Next

-----------------------------------------------------------------------------
(* What a handler knows stays true while others use the store. *)

StoreMoved == CoreInv' /\ RecordsKept

LEMMA StoreMoves ==
    ASSUME ServerInv, [Next]_vars
    PROVE  StoreMoved
BY StoreAllowed, CoreNext, RecordsNext DEF ServerInv, StoreMoved

LEMMA RecordsGrow ==
    ASSUME CoreInv, StoreMoved
    PROVE  /\ Len(models) \in Nat /\ Len(models') \in Nat /\ Len(models) <= Len(models')
           /\ DOMAIN models = 1 .. Len(models) /\ DOMAIN models' = 1 .. Len(models')
           /\ Len(assignments) \in Nat /\ Len(assignments') \in Nat
           /\ Len(assignments) <= Len(assignments')
           /\ Requests \subseteq Requests'
<1>1. /\ Len(models) \in Nat /\ DOMAIN models = 1 .. Len(models)
      /\ Len(models') \in Nat /\ DOMAIN models' = 1 .. Len(models')
      /\ Len(assignments) \in Nat /\ DOMAIN assignments = 1 .. Len(assignments)
      /\ Len(assignments') \in Nat /\ DOMAIN assignments' = 1 .. Len(assignments')
    BY SeqIsFunction DEF StoreMoved, CoreInv, StoreTypeOK
<1>2. DOMAIN models \subseteq DOMAIN models' /\ DOMAIN assignments \subseteq DOMAIN assignments'
    BY DEF StoreMoved, RecordsKept, ModelsKept
<1>3. \A i \in DOMAIN assignments : /\ i \in DOMAIN assignments'
                                    /\ AssignedRequest(i)' = AssignedRequest(i)
                                    /\ assignments'[i].round = assignments[i].round
    BY <1>2 DEF StoreMoved, RecordsKept, SameLease, AssignedRequest
<1>4. Requests \subseteq Requests'
    BY <1>3 DEF Requests, AdHocRequest
<1> QED
    BY <1>1, <1>2, <1>4

LEMMA CallStays ==
    ASSUME ServerInv, StoreMoved, call' = call
    PROVE  CallInv'
BY RecordsGrow DEF ServerInv, CallInv, CallRecord, At

LEMMA CallIdle ==
    ASSUME CoreInv', call' = IdleCall
    PROVE  CallInv'
<1>1. Len(models') \in Nat /\ Len(assignments') \in Nat
    BY SeqIsFunction DEF CoreInv, StoreTypeOK
<1>2. IdleCall \in CallRecord
    BY DEF IdleCall, NoRequest, CallRecord, Steps
<1>3. IdleCall.at = "idle" /\ IdleCall.version = 0 /\ IdleCall.req.asg = 0
    BY DEF IdleCall, NoRequest
<1> QED
    BY <1>1, <1>2, <1>3 DEF CallInv, At

(* SubmitWeights goes on, with the same request. *)
LEMMA CallGoesOn ==
    ASSUME ServerInv, StoreMoved, ~At("idle"), ~At("config"),
           call' \in CallRecord, call'.req = call.req, call'.tensor = call.tensor,
           call'.version <= Len(models')
    PROVE  CallInv'
<1>1. call.req \in Requests' /\ call.tensor \in Tensors
    BY RecordsGrow DEF ServerInv, CallInv
<1>2. call.req.asg \in 0 .. Len(assignments')
    BY RecordsGrow DEF ServerInv, CallInv
<1>3. call.req.client \in Clients
    BY RequestShape DEF ServerInv, CallInv
<1> QED
    BY <1>1, <1>2, <1>3 DEF CallInv, At

LEMMA LeaseStays ==
    ASSUME ServerInv, StoreMoved, lease' = lease
    PROVE  LeaseInv'
<1>1. \A w \in Workers : lease[w].version \in Nat /\ lease[w].asg \in Nat
    BY DEF ServerInv, LeaseInv
<1> QED
    BY <1>1, RecordsGrow DEF ServerInv, LeaseInv, StoreMoved, RecordsKept, SameLease

LEMMA RollbackStays ==
    ASSUME ServerInv, StoreMoved, rollback' = rollback
    PROVE  RollbackInv'
BY RecordsGrow DEF ServerInv, RollbackInv

LEMMA RecordsStay ==
    ASSUME ServerInv, StoreMoved, DOMAIN models' = DOMAIN models,
           recorded' = recorded, latest'.version \in 0 .. Len(models)
    PROVE  RecordsInv'
<1>1. Len(models') = Len(models)
    BY RecordsGrow DEF ServerInv
<1>2. \A v \in DOMAIN models' : models'[v].round \in Rounds
    BY DEF StoreMoved, RecordsKept, ModelsKept, ServerInv, RecordsInv
<1>3. \A i \in DOMAIN assignments' : assignments'[i].base \in 0 .. Len(models')
    BY <1>1 DEF StoreMoved, RecordsKept, SameLease, ServerInv, RecordsInv
<1> QED
    BY <1>1, <1>2, <1>3 DEF ServerInv, RecordsInv

(* The frame of every step that leaves the buffer, the recorded models and *)
(* the restarts alone.                                                     *)
LEMMA FrameStays ==
    ASSUME ServerInv, StoreMoved, UNCHANGED <<bufferVars, recorded, restarts>>,
           DOMAIN models' = DOMAIN models
    PROVE  RecordsInv' /\ BufferTypeOK' /\ restarts' \in Nat
<1>1. BufferTypeOK'
    BY DEF bufferVars, ServerInv, BufferTypeOK
<1>2. latest'.version \in 0 .. Len(models)
    BY DEF bufferVars, ServerInv, RecordsInv
<1> QED
    BY <1>1, <1>2, RecordsStay DEF ServerInv

LEMMA ServerParts ==
    ASSUME StoreMoved, BufferTypeOK', CallInv', LeaseInv', RollbackInv', RecordsInv',
           reply' \in Reply, restarts' \in Nat
    PROVE  ServerInv'
BY DEF ServerInv, StoreMoved

-----------------------------------------------------------------------------
(* Steps of other threads than the one that handles the call *)

LEMMA WorkerServer ==
    ASSUME ServerInv, StoreMoved, NEW w \in Workers,
           \/ RegisterWorker(w) \/ TaskStep(w)
           \/ \E t \in DOMAIN tasks, s \in ReportableStatus : ReportTaskStatus(w, t, s)
           \/ \E t \in {0} \union OwnTasks(w) : Heartbeat(w, t)
    PROVE  ServerInv'
<1>1. UNCHANGED <<bufferVars, call, reply, adminVars, restarts, recorded, models>>
    BY DEF RegisterWorker, TaskStep, TaskReadVersion, TaskLeaseRefused, TaskLeaseGranted,
           TaskLease, ReportTaskStatus, Heartbeat, UpsertWorker, LeaseWithoutJob,
           ExpireAssignments, LeaseRefused, LeaseReused, LeaseIssued, LeaseWorkerTask,
           UpdateWorkerTaskStatus, RecordWorkerHeartbeat, callVars, storeVars
<1>2. lease \in [Workers -> [at : {"idle", "lease", "task"}, version : Nat, asg : Nat]]
    BY DEF ServerInv, LeaseInv
<1>3. LeaseInv'
    <2>1. CASE TaskReadVersion(w)
        <3>1. ActiveModelVersion \in 0 .. Len(models)
            BY ActiveModelVersionType DEF ServerInv, CoreInv
        <3>2. lease' = [lease EXCEPT ![w] = [at |-> "lease", version |-> ActiveModelVersion,
                                             asg |-> 0]]
            BY <2>1 DEF TaskReadVersion
        <3> QED
            BY <1>1, <1>2, <3>1, <3>2, RecordsGrow
               DEF ServerInv, LeaseInv, StoreMoved, RecordsKept, SameLease
    <2>2. CASE lease' = [lease EXCEPT ![w] = IdleLease]
        BY <1>1, <1>2, <2>2, RecordsGrow
           DEF ServerInv, LeaseInv, StoreMoved, RecordsKept, SameLease, IdleLease
    <2>3. ASSUME NEW a \in 1 .. MaxAssignments, TaskLeaseGranted(w, a)
          PROVE  LeaseInv'
        <3>1. a \in DOMAIN assignments' /\ assignments'[a].client = TrainerOf[w] /\ a \in Nat
            <4>1. CASE LeaseReused(TrainerOf[w], a)
                <5>1. a \in DOMAIN assignments /\ assignments[a].client = TrainerOf[w]
                    BY <4>1 DEF LeaseReused, HeldLeases
                <5> QED
                    BY <5>1 DEF StoreMoved, RecordsKept, SameLease
            <4>2. CASE a = Len(assignments) + 1 /\ LeaseIssued(TrainerOf[w], lease[w].version)
                BY <4>2, LeaseIssuedShape DEF ServerInv
            <4> QED
                BY <2>3, <4>1, <4>2 DEF TaskLeaseGranted
        <3>2. a \in 0 .. Len(assignments')
            BY <3>1, SeqIsFunction DEF StoreMoved, CoreInv, StoreTypeOK
        <3>3. lease' = [lease EXCEPT ![w] = [@ EXCEPT !.at = "task", !.asg = a]]
            BY <2>3 DEF TaskLeaseGranted
        <3>4. /\ lease'[w].at = "task" /\ lease'[w].asg = a
              /\ lease'[w].version = lease[w].version
              /\ lease' \in [Workers -> [at : {"idle", "lease", "task"}, version : Nat,
                                        asg : Nat]]
            BY <1>2, <3>1, <3>3
        <3>5. \A x \in Workers \ {w} : lease'[x] = lease[x]
            BY <1>2, <3>3
        <3>6. lease[w].version <= Len(models')
            <4>1. lease[w].version \in Nat /\ lease[w].version <= Len(models)
                BY <1>2 DEF ServerInv, LeaseInv
            <4> QED
                BY <4>1, RecordsGrow DEF ServerInv
        <3>7. \A x \in Workers \ {w} :
                  /\ lease[x].version <= Len(models')
                  /\ lease[x].asg \in 0 .. Len(assignments')
                  /\ lease[x].at = "task" => /\ lease[x].asg \in DOMAIN assignments'
                                             /\ assignments'[lease[x].asg].client = TrainerOf[x]
            BY <1>2, RecordsGrow DEF ServerInv, LeaseInv, StoreMoved, RecordsKept, SameLease
        <3> QED
            BY <3>1, <3>2, <3>4, <3>5, <3>6, <3>7 DEF LeaseInv
    <2>4. CASE lease' = lease
        BY <2>4, LeaseStays
    <2> QED
        BY <2>1, <2>2, <2>3, <2>4
           DEF RegisterWorker, TaskStep, TaskLeaseRefused, TaskLease, ReportTaskStatus, Heartbeat
<1>4. RollbackInv' /\ CallInv'
    BY <1>1, RollbackStays, CallStays DEF adminVars
<1>5. RecordsInv' /\ BufferTypeOK' /\ restarts' \in Nat
    BY <1>1, FrameStays
<1> QED
    BY <1>1, <1>3, <1>4, <1>5, ServerParts DEF ServerInv

LEMMA AdminServer ==
    ASSUME ServerInv, StoreMoved,
           \/ \E spec \in JobSpecs : AdminCreateTrainingJob(spec)
           \/ \E m \in Admins, v \in DOMAIN models : RollbackActivate(m, v)
           \/ \E m \in Admins : RollbackStep(m)
           \/ TimePasses
    PROVE  ServerInv'
<1>0. rollback \in [Admins -> [at : {"idle", "read", "restore"}, version : Nat,
                               weights : SUBSET Entry]]
      /\ Len(models) \in Nat /\ DOMAIN models = 1 .. Len(models)
    BY CoreTypes DEF ServerInv, RollbackInv
<1>1. UNCHANGED <<call, reply, lease, restarts, recorded>>
    BY DEF AdminCreateTrainingJob, RollbackActivate, RollbackStep, RollbackRead,
           RollbackUnreadable, RollbackRestore, TimePasses, callVars
<1>2. CallInv' /\ LeaseInv'
    BY <1>1, CallStays, LeaseStays
<1>3. CASE UNCHANGED rollback /\ UNCHANGED bufferVars /\ UNCHANGED models
    BY <1>1, <1>2, <1>3, RollbackStays, FrameStays, ServerParts DEF ServerInv
<1>4. ASSUME NEW m \in Admins, NEW v \in DOMAIN models, RollbackActivate(m, v)
      PROVE  ServerInv'
    <2>1. /\ rollback' = [rollback EXCEPT ![m] = [@ EXCEPT !.at = "read", !.version = v]]
          /\ DOMAIN models' = DOMAIN models
          /\ UNCHANGED bufferVars
        BY <1>4 DEF RollbackActivate, RollbackModel
    <2> DEFINE next == [rollback[m] EXCEPT !.at = "read", !.version = v]
    <2>2. rollback'[m].version = v /\ rollback' \in [Admins ->
              [at : {"idle", "read", "restore"}, version : Nat, weights : SUBSET Entry]]
          /\ \A x \in Admins \ {m} : rollback'[x] = rollback[x]
        <3>1. next.version = v /\ next \in [at : {"idle", "read", "restore"}, version : Nat,
                                            weights : SUBSET Entry]
            <4>1. rollback[m] \in [at : {"idle", "read", "restore"}, version : Nat,
                                   weights : SUBSET Entry]
                BY <1>0
            <4>2. v \in Nat
                BY <1>0
            <4> QED
                BY <4>1, <4>2
        <3>2. rollback' = [rollback EXCEPT ![m] = next]
            BY <2>1
        <3> HIDE DEF next
        <3> QED
            BY <1>0, <3>1, <3>2
    <2>3. Len(models') = Len(models)
        BY <2>1, RecordsGrow DEF ServerInv
    <2>4. RollbackInv'
        BY <1>0, <2>1, <2>2, <2>3 DEF ServerInv, RollbackInv
    <2> QED
        BY <1>1, <1>2, <2>1, <2>4, FrameStays, ServerParts DEF ServerInv
<1>5. ASSUME NEW m \in Admins, RollbackStep(m)
      PROVE  ServerInv'
    <2>1. UNCHANGED storeVars
        BY <1>5 DEF RollbackStep, RollbackRead, RollbackUnreadable, RollbackRestore
    <2>2. UNCHANGED models
        BY <2>1 DEF storeVars
    <2>3. rollback[m].at # "idle" => /\ rollback[m].version \in DOMAIN models
                                     /\ models[rollback[m].version].round \in Rounds
        BY DEF ServerInv, RollbackInv, RecordsInv
    <2>4. RollbackInv'
        <3>1. CASE rollback' = [rollback EXCEPT ![m] = IdleRollback]
            BY <1>0, <2>2, <3>1 DEF ServerInv, RollbackInv, IdleRollback
        <3>2. CASE RollbackRead(m) /\ rollback' # [rollback EXCEPT ![m] = IdleRollback]
            <4> DEFINE read == checkpoints[models[rollback[m].version].round]
            <4>1. rollback[m].at = "read"
                  /\ rollback' = [rollback EXCEPT ![m] = [@ EXCEPT !.at = "restore",
                                                                  !.weights = read]]
                BY <3>2 DEF RollbackRead
            <4>2. read \in SUBSET Entry
                BY <2>3, <4>1 DEF ServerInv, BufferTypeOK
            <4> HIDE DEF read
            <4> QED
                BY <1>0, <2>2, <2>3, <4>1, <4>2 DEF ServerInv, RollbackInv
        <3> QED
            BY <1>5, <3>1, <3>2 DEF RollbackStep, RollbackUnreadable, RollbackRestore
    <2>5. CASE UNCHANGED bufferVars
        BY <1>1, <1>2, <2>2, <2>4, <2>5, FrameStays, ServerParts DEF ServerInv
    <2>6. CASE RollbackRestore(m)
        <3>1. /\ rollback[m].at = "restore"
              /\ latest' = [round |-> models[rollback[m].version].round,
                            version |-> rollback[m].version,
                            weights |-> rollback[m].weights]
              /\ UNCHANGED <<roundWeights, completedRounds, checkpoints>>
            BY <2>6 DEF RollbackRestore, RestoreLatestGlobalModel
        <3>2. latest' \in Snapshot /\ latest'.version \in 0 .. Len(models)
            <4>1. models[rollback[m].version].round \in 0 .. MaxRound
                BY <2>3, <3>1, RoundsAreNat, FederationAssumption
            <4> QED
                BY <1>0, <2>3, <3>1, <4>1 DEF Snapshot
        <3>3. BufferTypeOK'
            BY <3>1, <3>2 DEF ServerInv, BufferTypeOK
        <3>4. RecordsInv'
            BY <1>1, <2>2, <3>2, RecordsStay
        <3> QED
            BY <1>1, <1>2, <2>4, <3>3, <3>4, ServerParts DEF ServerInv
    <2> QED
        BY <1>5, <2>5, <2>6 DEF RollbackStep, RollbackRead, RollbackUnreadable
<1>6. CASE \E spec \in JobSpecs : AdminCreateTrainingJob(spec)
    BY <1>3, <1>6 DEF AdminCreateTrainingJob, CreateTrainingJob, adminVars
<1>7. CASE TimePasses
    BY <1>3, <1>7 DEF TimePasses, LeaseRunsOut, adminVars
<1> QED
    BY <1>4, <1>5, <1>6, <1>7

LEMMA RestartServer ==
    ASSUME ServerInv, StoreMoved, Restart
    PROVE  ServerInv'
<1>1. /\ restarts' = restarts + 1 /\ restarts \in Nat
      /\ call' = IdleCall /\ reply' = "none"
      /\ lease' = [w \in Workers |-> IdleLease]
      /\ rollback' = [m \in Admins |-> IdleRollback]
      /\ UNCHANGED <<models, recorded>>
    BY DEF Restart, Reload, ExpireAssignments, ServerInv
<1>2. Len(models') \in Nat /\ Len(assignments') \in Nat
    BY SeqIsFunction DEF StoreMoved, CoreInv, StoreTypeOK
<1>3. CallInv' /\ LeaseInv' /\ RollbackInv'
    BY <1>1, <1>2, CallIdle DEF StoreMoved, LeaseInv, IdleLease, RollbackInv, IdleRollback
<1>4. ActiveModelVersion \in 0 .. Len(models) /\ DOMAIN models = 1 .. Len(models)
      /\ Len(models) \in Nat
    BY ActiveModelVersionType, CoreTypes DEF ServerInv, CoreInv
<1> DEFINE v == ActiveModelVersion
           r == IF v = 0 THEN 1 ELSE models[v].round
<1>5. /\ roundWeights' = [q \in Rounds |-> {}]
      /\ completedRounds' = {}
      /\ latest' = IF v # 0 /\ checkpoints[r] # {}
                   THEN [round |-> r, version |-> v, weights |-> checkpoints[r]]
                   ELSE NoModel
      /\ UNCHANGED checkpoints
    BY DEF Restart, BufferRestarted
<1>6. v # 0 => r \in Rounds /\ r \in 0 .. MaxRound /\ checkpoints[r] \in SUBSET Entry
    <2>1. v # 0 => r \in Rounds
        BY <1>4 DEF ServerInv, RecordsInv
    <2> HIDE DEF r, v
    <2>2. ASSUME v # 0 PROVE r \in 0 .. MaxRound
        <3>1. r \in Nat /\ r <= MaxRound
            BY <2>1, <2>2, RoundsAreNat
        <3> QED
            BY <3>1, FederationAssumption
    <2>3. ASSUME v # 0 PROVE checkpoints[r] \in SUBSET Entry
        <3>1. checkpoints \in [Rounds -> SUBSET Entry]
            BY DEF ServerInv, BufferTypeOK
        <3> QED
            BY <2>1, <2>3, <3>1
    <2> QED
        BY <2>1, <2>2, <2>3
<1>7. latest' \in Snapshot /\ latest'.version \in 0 .. Len(models)
    <2> HIDE DEF r, v
    <2>1. CASE v # 0 /\ checkpoints[r] # {}
        BY <1>4, <1>5, <1>6, <2>1 DEF Snapshot, v
    <2>2. CASE ~(v # 0 /\ checkpoints[r] # {})
        BY <1>4, <1>5, <2>2, FederationAssumption DEF Snapshot, NoModel
    <2> QED
        BY <2>1, <2>2
<1>8. BufferTypeOK'
    BY <1>5, <1>7 DEF ServerInv, BufferTypeOK
<1>9. RecordsInv'
    BY <1>1, <1>7, RecordsStay
<1> QED
    BY <1>1, <1>3, <1>8, <1>9, ServerParts DEF Reply

-----------------------------------------------------------------------------
(* Steps of the call being handled *)

CallStep == \/ \E c \in Clients : ConfigReadVersion(c)
            \/ ConfigLease
            \/ \E req \in Requests, tensor \in Tensors : SubmitReadVersion(req, tensor)
            \/ SubmitStep

LEMMA SubmitShape ==
    ASSUME ServerInv, ~At("idle"), ~At("config")
    PROVE  /\ call \in CallRecord /\ call.req \in Requests
           /\ call.req.round \in Rounds /\ call.req.client \in Clients
           /\ call.tensor \in Tensors
           /\ Submitted \in Entry
           /\ Submitted.client = call.req.client
           /\ call.version \in 0 .. Len(models)
<1>1. /\ call \in CallRecord /\ call.req \in Requests /\ call.tensor \in Tensors
      /\ call.version <= Len(models) /\ call.version \in Nat /\ Len(models) \in Nat
    BY CoreTypes DEF ServerInv, CallInv, CallRecord
<1>2. call.req.round \in Rounds /\ call.req.client \in Clients /\ call.req.asg \in Nat
    BY <1>1, RequestShape DEF ServerInv, CallRecord
<1> QED
    BY <1>1, <1>2 DEF Submitted, Entry

LEMMA CallStepFrame ==
    ASSUME ServerInv, StoreMoved, CallStep
    PROVE  LeaseInv' /\ RollbackInv' /\ reply' \in Reply /\ restarts' \in Nat
<1>1. reply \in Reply /\ restarts \in Nat
    BY DEF ServerInv
<1>2. UNCHANGED <<lease, rollback, restarts>>
    BY DEF CallStep, ConfigReadVersion, ConfigLease, SubmitReadVersion, SubmitStep,
           SubmitReadJob, SubmitValidate, SubmitCheckRound, SubmitWait, SubmitNotAggregated,
           SubmitOpenCheckpoint, SubmitWriteCheckpoint, SubmitNotWritten, SubmitRecordModel,
           SubmitAccept, SubmitAdvance, adminVars
<1>3. reply' \in Reply
    BY <1>1
       DEF CallStep, ConfigReadVersion, ConfigLease, SubmitReadVersion, SubmitStep,
           SubmitReadJob, SubmitValidate, SubmitCheckRound, SubmitWait, SubmitNotAggregated,
           SubmitOpenCheckpoint, SubmitWriteCheckpoint, SubmitNotWritten, SubmitRecordModel,
           SubmitAccept, SubmitAdvance, AfterBuffer, Answer, Reply
<1> QED
    BY <1>1, <1>2, <1>3, LeaseStays, RollbackStays

LEMMA ConfigServer ==
    ASSUME ServerInv, StoreMoved,
           (\E c \in Clients : ConfigReadVersion(c)) \/ ConfigLease
    PROVE  ServerInv'
<1>1. UNCHANGED <<bufferVars, recorded, restarts, models>>
    BY DEF ConfigReadVersion, ConfigLease, LeaseTrainingAssignment, LeaseWithoutJob,
           ExpireAssignments, LeaseFromJob, LeaseReused, LeaseRefused, LeaseIssued, storeVars
<1>2. RecordsInv' /\ BufferTypeOK'
    BY <1>1, FrameStays
<1>3. CallInv'
    <2>1. CASE ConfigLease
        BY <2>1, CallIdle DEF ConfigLease, StoreMoved
    <2>2. ASSUME NEW c \in Clients, ConfigReadVersion(c) PROVE CallInv'
        <3>1. ActiveModelVersion \in 0 .. Len(models) /\ Len(models) \in Nat
              /\ Len(models') = Len(models)
            BY <1>1, ActiveModelVersionType, CoreTypes DEF ServerInv, CoreInv
        <3>2. Len(assignments') \in Nat
            BY SeqIsFunction DEF StoreMoved, CoreInv, StoreTypeOK
        <3>3. /\ call'.at = "config" /\ call'.req.client = c /\ call'.req.asg = 0
              /\ call'.version = ActiveModelVersion
            BY <2>2 DEF ConfigReadVersion, IdleCall, NoRequest
        <3>4. call' \in CallRecord
            <4>1. call' = [at |-> "config",
                           req |-> [client |-> c, job |-> 0, asg |-> 0, round |-> 0, base |-> 0],
                           tensor |-> "none", version |-> ActiveModelVersion,
                           scheduled |-> FALSE, required |-> 0, aggregated |-> FALSE]
                BY <2>2 DEF ConfigReadVersion, IdleCall, NoRequest
            <4>2. ActiveModelVersion \in Nat
                BY <3>1
            <4> QED
                BY <4>1, <4>2 DEF CallRecord, Steps
        <3> QED
            BY <3>1, <3>2, <3>3, <3>4 DEF CallInv, At
    <2> QED
        BY <2>1, <2>2
<1> QED
    BY <1>2, <1>3, CallStepFrame, ServerParts DEF CallStep

LEMMA SubmitReadVersionServer ==
    ASSUME ServerInv, StoreMoved, NEW req \in Requests, NEW tensor \in Tensors,
           SubmitReadVersion(req, tensor)
    PROVE  ServerInv'
<1>1. UNCHANGED <<bufferVars, recorded, restarts, models>>
    BY DEF SubmitReadVersion, storeVars
<1>2. RecordsInv' /\ BufferTypeOK'
    BY <1>1, FrameStays
<1>3. CallInv'
    <2>1. CASE call' = IdleCall
        BY <2>1, CallIdle DEF StoreMoved
    <2>2. CASE call' = [IdleCall EXCEPT !.at = "job", !.req = req, !.tensor = tensor,
                                        !.version = ActiveModelVersion]
        <3>1. ActiveModelVersion \in 0 .. Len(models) /\ Len(models) \in Nat
              /\ Len(models') = Len(models)
            BY <1>1, ActiveModelVersionType, CoreTypes DEF ServerInv, CoreInv
        <3>2. /\ req \in Requests' /\ req.client \in Clients
              /\ req.asg \in 0 .. Len(assignments')
              /\ req \in [client : Clients \union {"none"}, job : Nat, asg : Nat, round : Nat,
                          base : Nat]
            BY RecordsGrow, RequestShape DEF ServerInv
        <3>3. /\ call'.at = "job" /\ call'.req = req /\ call'.tensor = tensor
              /\ call'.version = ActiveModelVersion
            BY <2>2 DEF IdleCall
        <3>4. call' \in CallRecord
            <4>1. call' = [at |-> "job", req |-> req, tensor |-> tensor,
                           version |-> ActiveModelVersion,
                           scheduled |-> FALSE, required |-> 0, aggregated |-> FALSE]
                BY <2>2 DEF IdleCall
            <4>2. ActiveModelVersion \in Nat
                BY <3>1
            <4> QED
                BY <3>2, <4>1, <4>2 DEF CallRecord, Steps
        <3> QED
            BY <3>1, <3>2, <3>3, <3>4 DEF CallInv, At
    <2> QED
        BY <2>1, <2>2 DEF SubmitReadVersion, Answer
<1>4. CallStep
    BY DEF CallStep
<1> QED
    BY <1>2, <1>3, <1>4, CallStepFrame, ServerParts

(* The steps of SubmitWeights that only use the store *)
LEMMA SubmitStoreServer ==
    ASSUME ServerInv, StoreMoved,
           SubmitReadJob \/ SubmitValidate \/ SubmitCheckRound \/ SubmitAccept \/ SubmitAdvance
    PROVE  ServerInv'
<1>1. UNCHANGED <<bufferVars, recorded, restarts, models>>
    BY DEF SubmitReadJob, SubmitValidate, SubmitCheckRound, SubmitAccept, SubmitAdvance,
           ValidateTrainingAssignmentSubmission, ExpireAssignments, RecordWeightSubmission,
           AcceptTrainingAssignmentSubmission, AcceptedSubmission, UnacceptedSubmission,
           AdvanceTrainingJobRound, storeVars
<1>2. RecordsInv' /\ BufferTypeOK'
    BY <1>1, FrameStays
<1>3. ~At("idle") /\ ~At("config")
    BY DEF SubmitReadJob, SubmitValidate, SubmitCheckRound, SubmitAccept, SubmitAdvance, At
<1>4. call \in CallRecord /\ call.version <= Len(models')
    BY <1>1 DEF ServerInv, CallInv
<1>5. \/ call' = IdleCall
      \/ /\ call' \in CallRecord /\ call'.req = call.req /\ call'.tensor = call.tensor
         /\ call'.version = call.version
    <2>1. CASE SubmitReadJob
        <3>1. HasActiveJob => jobs[ActiveJob].min \in Nat
            BY ActiveJobIsNewest, CoreTypes DEF ServerInv, CoreInv, Job
        <3>2. DefaultMinClients \in Nat
            BY StoreAssumption
        <3>3. (IF HasActiveJob /\ jobs[ActiveJob].min > 0
               THEN jobs[ActiveJob].min ELSE DefaultMinClients) \in Nat
            BY <3>1, <3>2
        <3>4. (IF HasActiveJob THEN "validate" ELSE "check") \in Steps
              /\ HasActiveJob \in BOOLEAN
            BY DEF Steps, HasActiveJob
        <3> QED
            BY <1>4, <2>1, <3>3, <3>4 DEF SubmitReadJob, CallRecord
    <2>2. CASE SubmitValidate
        BY <1>4, <2>2 DEF SubmitValidate, Answer, CallRecord, Steps
    <2>3. CASE SubmitCheckRound
        BY <1>4, <2>3 DEF SubmitCheckRound, Answer, CallRecord, Steps
    <2>4. CASE SubmitAccept
        BY <1>4, <2>4 DEF SubmitAccept, Answer, CallRecord, Steps
    <2>5. CASE SubmitAdvance
        BY <2>5 DEF SubmitAdvance, Answer
    <2> QED
        BY <2>1, <2>2, <2>3, <2>4, <2>5
<1>6. CallInv'
    BY <1>3, <1>4, <1>5, CallIdle, CallGoesOn DEF StoreMoved
<1> QED
    BY <1>2, <1>6, CallStepFrame, ServerParts DEF CallStep, SubmitStep

(* What the buffer returns is kept for the call to the store. *)
LEMMA AcceptingCall ==
    ASSUME call \in CallRecord, NEW aggregated \in BOOLEAN, NEW v \in Nat,
           call' = [call EXCEPT !.at = "accept", !.aggregated = aggregated, !.version = v]
    PROVE  /\ call' \in CallRecord /\ call'.version = v
           /\ call'.req = call.req /\ call'.tensor = call.tensor
<1>1. "accept" \in Steps
    BY DEF Steps
<1> QED
    BY <1>1 DEF CallRecord

(* The steps under the buffer's mutex *)
LEMMA SubmitBufferServer ==
    ASSUME ServerInv, StoreMoved,
           SubmitWait \/ SubmitNotAggregated \/ SubmitOpenCheckpoint
           \/ SubmitWriteCheckpoint \/ SubmitNotWritten
    PROVE  ServerInv'
<1>1. UNCHANGED <<recorded, restarts, models, latest, completedRounds>>
    BY DEF SubmitWait, SubmitNotAggregated, SubmitOpenCheckpoint, SubmitWriteCheckpoint,
           SubmitNotWritten, WeightsWait, WeightsInvalid, CheckpointNotOpened,
           CheckpointOpened, CheckpointWritten, CheckpointNotWritten, storeVars
<1>2. ~At("idle") /\ ~At("config")
    BY DEF SubmitWait, SubmitNotAggregated, SubmitOpenCheckpoint, SubmitWriteCheckpoint,
           SubmitNotWritten, At
<1> DEFINE r == call.req.round
<1>3. /\ call \in CallRecord /\ r \in Rounds /\ Submitted \in Entry
      /\ roundWeights \in [Rounds -> SUBSET Entry] /\ checkpoints \in [Rounds -> SUBSET Entry]
      /\ call.version \in 0 .. Len(models) /\ latest.version \in 0 .. Len(models)
      /\ Len(models') = Len(models) /\ Len(models) \in Nat
    BY <1>1, <1>2, SubmitShape, CoreTypes DEF ServerInv, BufferTypeOK, RecordsInv
<1>4. WithEntry(r, Submitted) \in SUBSET Entry
      /\ WithoutClient(r, Submitted.client) \in SUBSET Entry
    BY <1>3 DEF WithEntry, WithoutClient
<1>5. BufferTypeOK'
    <2>1. roundWeights' \in [Rounds -> SUBSET Entry]
        <3> HIDE DEF r
        <3> QED
            BY <1>3, <1>4
               DEF SubmitWait, SubmitNotAggregated, SubmitOpenCheckpoint, SubmitWriteCheckpoint,
                   SubmitNotWritten, WeightsWait, WeightsInvalid, CheckpointNotOpened,
                   CheckpointOpened, CheckpointWritten, CheckpointNotWritten, r
    <2>2. checkpoints' \in [Rounds -> SUBSET Entry]
        <3>1. roundWeights[r] \in SUBSET Entry
            BY <1>3
        <3> HIDE DEF r
        <3> QED
            BY <1>3, <3>1
               DEF SubmitWait, SubmitNotAggregated, SubmitOpenCheckpoint, SubmitWriteCheckpoint,
                   SubmitNotWritten, WeightsWait, WeightsInvalid, CheckpointNotOpened,
                   CheckpointOpened, CheckpointWritten, CheckpointNotWritten, r
    <2> QED
        BY <1>1, <2>1, <2>2 DEF ServerInv, BufferTypeOK
<1>6. RecordsInv'
    BY <1>1, <1>3, RecordsStay
<1>7. \/ call' = IdleCall
      \/ /\ call' \in CallRecord /\ call'.req = call.req /\ call'.tensor = call.tensor
         /\ call'.version <= Len(models')
    <2>1. CASE SubmitWait
        <3>1. \/ call' = [call EXCEPT !.at = "accept", !.aggregated = FALSE,
                                     !.version = latest.version]
              \/ call' = IdleCall
            BY <2>1 DEF SubmitWait, AfterBuffer, Answer
        <3>2. latest.version \in Nat /\ latest.version <= Len(models')
            BY <1>3
        <3> QED
            BY <1>3, <3>1, <3>2, AcceptingCall
    <2>2. CASE SubmitNotAggregated \/ SubmitNotWritten
        BY <2>2 DEF SubmitNotAggregated, SubmitNotWritten, Answer
    <2>3. CASE SubmitOpenCheckpoint
        BY <1>3, <2>3 DEF SubmitOpenCheckpoint, CallRecord, Steps
    <2>4. CASE SubmitWriteCheckpoint
        BY <1>3, <2>4 DEF SubmitWriteCheckpoint, CallRecord, Steps
    <2> QED
        BY <2>1, <2>2, <2>3, <2>4
<1>8. CallInv'
    BY <1>2, <1>7, CallIdle, CallGoesOn DEF StoreMoved
<1> QED
    BY <1>5, <1>6, <1>8, CallStepFrame, ServerParts DEF CallStep, SubmitStep

LEMMA SubmitRecordServer ==
    ASSUME ServerInv, StoreMoved, SubmitRecordModel
    PROVE  ServerInv'
<1> DEFINE r == call.req.round
           v == Len(models) + 1
<1>1. ~At("idle") /\ ~At("config")
    BY DEF SubmitRecordModel, At
<1>2. /\ call \in CallRecord /\ r \in Rounds /\ r \in Nat /\ r <= MaxRound
      /\ roundWeights[r] \in SUBSET Entry
      /\ Len(models) \in Nat
      /\ recorded \in Seq(SUBSET Entry) /\ Len(recorded) = Len(models)
    BY <1>1, SubmitShape, RoundsAreNat, CoreTypes DEF ServerInv, BufferTypeOK, RecordsInv
<1>3. /\ RecordAggregatedModel(r)
      /\ latest' = [round |-> r, version |-> v, weights |-> roundWeights[r]]
      /\ completedRounds' = completedRounds \union {r}
      /\ UNCHANGED <<roundWeights, checkpoints>>
      /\ recorded' = Append(recorded, roundWeights[r])
    BY DEF SubmitRecordModel, AggregatePublished
<1>4. /\ Len(models') = v /\ DOMAIN models' = DOMAIN models \union {v}
      /\ models'[v].round = r
    <2>1. CoreInv /\ RecordAggregatedModel(r) /\ r \in Nat
        BY <1>2, <1>3 DEF ServerInv
    <2> HIDE DEF r
    <2>2. /\ Len(models') = v /\ DOMAIN models' = DOMAIN models \union {v}
          /\ models'[v] = [round |-> r, active |-> TRUE]
        BY <2>1, RecordAggregatedModelShape
    <2> HIDE DEF v
    <2> QED
        BY <2>2
<1>5. BufferTypeOK'
    <2>1. latest' \in Snapshot
        <3>1. r \in 0 .. MaxRound /\ v \in Nat
            BY <1>2, FederationAssumption
        <3> HIDE DEF r, v
        <3> QED
            BY <1>2, <1>3, <3>1 DEF Snapshot
    <2> QED
        BY <1>2, <1>3, <2>1 DEF ServerInv, BufferTypeOK
<1>6. RecordsInv'
    <2>1. recorded' \in Seq(SUBSET Entry) /\ Len(recorded') = v
        <3> HIDE DEF r
        <3> QED
            BY <1>2, <1>3, AppendIsSeq
    <2>2. \A u \in DOMAIN models' : models'[u].round \in Rounds
        BY <1>2, <1>4 DEF StoreMoved, RecordsKept, ModelsKept, ServerInv, RecordsInv
    <2>3. \A i \in DOMAIN assignments' : assignments'[i].base \in 0 .. v
        <3>1. \A i \in DOMAIN assignments' : assignments'[i].base \in 0 .. Len(models)
            BY DEF StoreMoved, RecordsKept, SameLease, ServerInv, RecordsInv
        <3> QED
            BY <1>2, <3>1
    <2>4. latest'.version = v
        BY <1>3
    <2> QED
        BY <1>2, <1>4, <2>1, <2>2, <2>3, <2>4 DEF RecordsInv
<1>7. \/ call' = IdleCall
      \/ /\ call' \in CallRecord /\ call'.req = call.req /\ call'.tensor = call.tensor
         /\ call'.version <= Len(models')
    <2>1. \/ call' = [call EXCEPT !.at = "accept", !.aggregated = TRUE, !.version = v]
          \/ call' = IdleCall
        BY DEF SubmitRecordModel, AfterBuffer, Answer
    <2>2. v \in Nat /\ v <= Len(models')
        BY <1>2, <1>4
    <2> HIDE DEF v
    <2> QED
        BY <1>2, <2>1, <2>2, AcceptingCall
<1>8. CallInv'
    BY <1>1, <1>7, CallIdle, CallGoesOn DEF StoreMoved
<1> QED
    BY <1>5, <1>6, <1>8, CallStepFrame, ServerParts DEF CallStep, SubmitStep

-----------------------------------------------------------------------------
(* The server keeps its types, and implements the store. *)

LEMMA ServerInit == Init => ServerInv
<1> SUFFICES ASSUME Init PROVE ServerInv
    OBVIOUS
<1>1. models = <<>> /\ assignments = <<>> /\ recorded = <<>> /\ CoreInv
    BY CoreInit DEF Init, StoreInit
<1>2. Len(models) = 0 /\ Len(assignments) = 0 /\ DOMAIN models = {} /\ DOMAIN assignments = {}
      /\ Len(recorded) = 0 /\ recorded \in Seq(SUBSET Entry)
    BY <1>1
<1>3. CallInv
    BY <1>2 DEF Init, IdleCall, NoRequest, CallInv, CallRecord, Steps, At
<1>4. LeaseInv /\ RollbackInv
    BY <1>2 DEF Init, LeaseInv, IdleLease, RollbackInv, IdleRollback
<1>5. BufferTypeOK /\ RecordsInv
    BY <1>2, FederationAssumption DEF Init, BufferInit, BufferTypeOK, RecordsInv, NoModel, Snapshot
<1> QED
    BY <1>1, <1>3, <1>4, <1>5 DEF Init, ServerInv, Reply

LEMMA ServerNext == ServerInv /\ [Next]_vars => ServerInv'
<1> SUFFICES ASSUME ServerInv, [Next]_vars PROVE ServerInv'
    OBVIOUS
<1>1. StoreMoved
    BY StoreMoves
<1>2. CASE SubmitStep
    BY <1>1, <1>2, SubmitStoreServer, SubmitBufferServer, SubmitRecordServer DEF SubmitStep
<1>3. CASE UNCHANGED vars
    BY <1>3
       DEF vars, storeVars, bufferVars, ServerInv, CoreInv, StoreTypeOK, OnlyNewestJobActive,
           OneActiveModel, ActiveJobs, BufferTypeOK, CallInv, At, Requests, AssignedRequest,
           LeaseInv, RollbackInv, RecordsInv
<1> QED
    BY <1>1, <1>2, <1>3, ConfigServer, SubmitReadVersionServer, WorkerServer, AdminServer,
       RestartServer DEF Next

(* The server only ever calls the store with what it may be called with:   *)
(* the assignments, versions, tasks and rounds its handlers name exist     *)
(* whatever the other threads did since the handlers read them.            *)
LEMMA ServerInvariant == Spec => []ServerInv
BY ServerInit, ServerNext, PTL DEF Spec

(* The types of the composed state; the handlers' local variables always   *)
(* name existing assignments and versions.                                 *)
THEOREM ServerTypeCorrect == Spec => []TypeOK
<1>1. ServerInv => TypeOK
    <2> SUFFICES ASSUME ServerInv PROVE TypeOK
        OBVIOUS
    <2>1. call.at \in Steps /\ call.version \in Nat
        BY DEF ServerInv, CallInv, CallRecord
    <2> QED
        BY <2>1, CoreTypes
           DEF ServerInv, CoreInv, CallInv, Steps, LeaseInv, RollbackInv, RecordsInv, TypeOK
<1> QED
    BY <1>1, ServerInvariant, PTL

(* The handlers of the three services, with what they read between calls,  *)
(* implement the store under arbitrary callers.                            *)
THEOREM ServerImplementsStore == Spec => StoreSpec
<1>1. Init => StoreInit
    BY DEF Init
<1>2. ServerInv /\ [Next]_vars => [StoreNext]_storeVars
    BY StoreAllowed
<1> QED
    BY <1>1, <1>2, ServerInvariant, PTL DEF Spec, StoreSpec

(* So whatever the interleaving of the server's threads, restarts and      *)
(* rollbacks included: a client holds one lease of a job's round and the   *)
(* round no more leases than the job plans for clients, a worker has one   *)
(* task per lease and is busy with its own, one model is active once there *)
(* is one, and only the newest job is planned or running.                  *)
THEOREM ServerStoreSafe ==
    Spec => [](/\ LeaseExclusive /\ LeasesWithinCapacity
               /\ OneTaskPerLease /\ BusyWorkerOwnsTask
               /\ OneActiveModel /\ OnlyNewestJobActive)
BY ServerImplementsStore, LeaseExclusiveHolds, LeasesWithinCapacityHolds,
   OneTaskPerLeaseHolds, BusyWorkerOwnsTaskHolds, SingleActiveModel, NewestJobOnly, PTL

(* An assignment's status never goes back, whoever moves it. *)
THEOREM ServerAssignmentForward == Spec => AssignmentForward
BY ServerImplementsStore, AssignmentForwardHolds

-----------------------------------------------------------------------------
(* SubmitWeights across the buffer and the store, which it updates under   *)
(* different locks: what a client is told is true, a model has enough      *)
(* contributors, and within one server process the store's assignments,    *)
(* the buffer, the recorded models and the checkpoint files agree.         *)

-----------------------------------------------------------------------------
(* One buffered entry per client *)

OnePerClient(S) == IsFiniteSet(S) /\ \A e, f \in S : e.client = f.client => e = f

LEMMA ClientsOfEntries ==
    ASSUME NEW S, OnePerClient(S)
    PROVE  Cardinality({e.client : e \in S}) = Cardinality(S)
<1> DEFINE T == {e.client : e \in S}
           f == [e \in S |-> e.client]
<1>1. f \in Bijection(S, T)
    <2>1. f \in [S -> T] /\ \A a, b \in S : f[a] = f[b] => a = b
        BY DEF OnePerClient
    <2>2. \A c \in T : \E e \in S : f[e] = c
        OBVIOUS
    <2> HIDE DEF f, T
    <2> QED
        BY <2>1, <2>2, Fun_IsBij
<1>2. ExistsBijection(S, T)
    BY <1>1 DEF ExistsBijection
<1> QED
    BY <1>2, FS_Bijection DEF OnePerClient

LEMMA WithEntryOnePerClient ==
    ASSUME NEW r, NEW e, OnePerClient(roundWeights[r])
    PROVE  /\ OnePerClient(WithEntry(r, e))
           /\ e \in WithEntry(r, e)
           /\ OnePerClient(WithoutClient(r, e.client))
<1>1. IsFiniteSet(WithoutClient(r, e.client))
    <2>1. WithoutClient(r, e.client) \in SUBSET roundWeights[r]
        BY DEF WithoutClient
    <2> QED
        BY <2>1, FS_Subset DEF OnePerClient
<1>2. WithEntry(r, e) = WithoutClient(r, e.client) \union {e}
    BY DEF WithEntry, WithoutClient
<1>3. IsFiniteSet(WithEntry(r, e))
    BY <1>1, <1>2, FS_AddElement
<1> QED
    BY <1>1, <1>3 DEF OnePerClient, WithEntry, WithoutClient

-----------------------------------------------------------------------------
(* What SubmitWeights knows at each step *)

(* The minimums ever in force. *)
Minimums == {jobs[j].min : j \in DOMAIN jobs} \union {DefaultMinClients}

BufferInv == \A r \in Rounds : OnePerClient(roundWeights[r])

RoundRecorded(r) ==
    \E v \in DOMAIN models : models[v].round = r /\ recorded[v] = roundWeights[r]

SubmissionInv ==
    /\ ~At("idle") /\ ~At("config") /\ ~At("job") => call.required \in Minimums
    /\ At("write") \/ At("record") =>
          Cardinality(roundWeights[call.req.round]) >= call.required
    /\ At("write") \/ At("record") \/ At("accept") \/ At("advance") =>
          Submitted \in roundWeights[call.req.round]
    /\ At("advance") => call.aggregated
    /\ (At("accept") \/ At("advance")) /\ call.aggregated => RoundRecorded(call.req.round)

AnswerInv == ServerInv /\ BufferInv /\ SubmissionInv /\ EnoughContributors

-----------------------------------------------------------------------------
(* The steps of other threads than the one that handles the call *)

OtherStep ==
    \/ \E w \in Workers :
          \/ RegisterWorker(w) \/ TaskStep(w)
          \/ \E t \in DOMAIN tasks, s \in ReportableStatus : ReportTaskStatus(w, t, s)
          \/ \E t \in {0} \union OwnTasks(w) : Heartbeat(w, t)
    \/ \E spec \in JobSpecs : AdminCreateTrainingJob(spec)
    \/ \E m \in Admins, v \in DOMAIN models : RollbackActivate(m, v)
    \/ \E m \in Admins : RollbackStep(m)
    \/ TimePasses

LEMMA NextSteps ==
    ASSUME [Next]_vars
    PROVE  CallStep \/ OtherStep \/ Restart \/ UNCHANGED vars
BY DEF Next, CallStep, OtherStep

LEMMA OtherStepFrame ==
    ASSUME OtherStep \/ UNCHANGED vars
    PROVE  /\ UNCHANGED <<call, roundWeights, completedRounds, checkpoints, recorded, restarts>>
           /\ DOMAIN models' = DOMAIN models
<1>1. ASSUME NEW w, RegisterWorker(w) \/ TaskStep(w)
      PROVE  UNCHANGED <<bufferVars, call, recorded, restarts, models>>
    BY <1>1 DEF RegisterWorker, TaskStep, TaskReadVersion, TaskLeaseRefused, TaskLeaseGranted,
                TaskLease, UpsertWorker, LeaseWithoutJob, ExpireAssignments, LeaseRefused,
                LeaseReused, LeaseIssued, LeaseWorkerTask, callVars, storeVars
<1>2. ASSUME NEW w, NEW t, NEW s, ReportTaskStatus(w, t, s)
      PROVE  UNCHANGED <<bufferVars, call, recorded, restarts, models>>
    BY <1>2 DEF ReportTaskStatus, UpdateWorkerTaskStatus, callVars
<1>3. ASSUME NEW w, NEW t, Heartbeat(w, t)
      PROVE  UNCHANGED <<bufferVars, call, recorded, restarts, models>>
    BY <1>3 DEF Heartbeat, RecordWorkerHeartbeat, callVars
<1>4. ASSUME NEW spec, AdminCreateTrainingJob(spec)
      PROVE  UNCHANGED <<bufferVars, call, recorded, restarts, models>>
    BY <1>4 DEF AdminCreateTrainingJob, CreateTrainingJob, callVars
<1>5. ASSUME NEW m, NEW v, RollbackActivate(m, v)
      PROVE  /\ UNCHANGED <<bufferVars, call, recorded, restarts>>
             /\ DOMAIN models' = DOMAIN models
    BY <1>5 DEF RollbackActivate, RollbackModel, callVars
<1>6. ASSUME NEW m, RollbackStep(m)
      PROVE  /\ UNCHANGED <<call, roundWeights, completedRounds, checkpoints, recorded, restarts>>
             /\ UNCHANGED models
    BY <1>6 DEF RollbackStep, RollbackRead, RollbackUnreadable, RollbackRestore,
                RestoreLatestGlobalModel, callVars, bufferVars, storeVars
<1>7. CASE TimePasses
    BY <1>7 DEF TimePasses, LeaseRunsOut, callVars, bufferVars
<1>8. CASE UNCHANGED vars
    BY <1>8 DEF vars, bufferVars, storeVars
<1> QED
    BY <1>1, <1>2, <1>3, <1>4, <1>5, <1>6, <1>7, <1>8 DEF OtherStep, bufferVars

LEMMA RestartFrame ==
    ASSUME Restart
    PROVE  /\ call' = IdleCall /\ restarts' = restarts + 1
           /\ roundWeights' = [q \in Rounds |-> {}]
           /\ UNCHANGED <<models, recorded, checkpoints>>
BY DEF Restart, BufferRestarted, Reload, ExpireAssignments

LEMMA MinimumsGrow ==
    ASSUME StoreMoved
    PROVE  Minimums \subseteq Minimums'
BY DEF StoreMoved, RecordsKept, JobsKept, Minimums

(* A recorded round stays recorded while its buffer is left alone. *)
LEMMA RoundRecordedStays ==
    ASSUME StoreMoved, NEW r, RoundRecorded(r), recorded' = recorded,
           roundWeights'[r] = roundWeights[r]
    PROVE  RoundRecorded(r)'
BY DEF StoreMoved, RecordsKept, ModelsKept, RoundRecorded

(* Steps that leave the call and the buffer's entries alone *)
LEMMA SubmissionStays ==
    ASSUME SubmissionInv, StoreMoved, UNCHANGED <<call, roundWeights, recorded>>
    PROVE  SubmissionInv'
BY MinimumsGrow, RoundRecordedStays DEF SubmissionInv, At, Submitted

(* Before the buffer is used, SubmitWeights only needs its minimum. *)
LEMMA SubmissionEarly ==
    ASSUME call'.at \in {"idle", "config", "job", "validate", "check", "add"},
           call'.at \in {"validate", "check", "add"} => call'.required \in Minimums'
    PROVE  SubmissionInv'
BY DEF SubmissionInv, At

-----------------------------------------------------------------------------
(* Steps of SubmitWeights *)

(* What SubmitWeights keeps from its first step to its last. *)
LEMMA CallRequired ==
    ASSUME SubmissionInv, StoreMoved, ~At("idle"), ~At("config"), ~At("job")
    PROVE  call.required \in Minimums'
BY MinimumsGrow DEF SubmissionInv

LEMMA EarlySteps ==
    ASSUME AnswerInv, StoreMoved,
           \/ \E c \in Clients : ConfigReadVersion(c)
           \/ ConfigLease
           \/ \E req \in Requests, tensor \in Tensors : SubmitReadVersion(req, tensor)
           \/ SubmitReadJob \/ SubmitValidate \/ SubmitCheckRound
           \/ SubmitNotAggregated \/ SubmitNotWritten \/ SubmitAdvance
    PROVE  SubmissionInv'
<1>0. IdleCall.at = "idle" /\ call \in CallRecord
    BY DEF IdleCall, AnswerInv, ServerInv, CallInv
<1>1. ASSUME NEW c, ConfigReadVersion(c) PROVE SubmissionInv'
    <2>1. call'.at = "config"
        BY <1>1 DEF ConfigReadVersion, IdleCall
    <2> QED
        BY <2>1, SubmissionEarly
<1>2. CASE ConfigLease \/ SubmitNotAggregated \/ SubmitNotWritten \/ SubmitAdvance
    BY <1>0, <1>2, SubmissionEarly
       DEF ConfigLease, SubmitNotAggregated, SubmitNotWritten, SubmitAdvance, Answer
<1>3. ASSUME NEW req, NEW tensor, SubmitReadVersion(req, tensor) PROVE SubmissionInv'
    <2>1. call'.at \in {"idle", "job"}
        <3>1. \/ call' = IdleCall
              \/ call' = [IdleCall EXCEPT !.at = "job", !.req = req, !.tensor = tensor,
                                          !.version = ActiveModelVersion]
            BY <1>3 DEF SubmitReadVersion, Answer
        <3>2. IdleCall.at = "idle"
            BY DEF IdleCall
        <3>3. [IdleCall EXCEPT !.at = "job", !.req = req, !.tensor = tensor,
                               !.version = ActiveModelVersion].at = "job"
            BY DEF IdleCall
        <3> QED
            BY <3>1, <3>2, <3>3
    <2> QED
        BY <2>1, SubmissionEarly
<1>4. CASE SubmitReadJob
    <2>1. call'.required \in Minimums
        <3>1. HasActiveJob => ActiveJob \in DOMAIN jobs
            BY ActiveJobIsNewest DEF AnswerInv, ServerInv, CoreInv
        <3> QED
            BY <1>0, <1>4, <3>1 DEF SubmitReadJob, Minimums, CallRecord
    <2>2. call'.at \in {"validate", "check"}
        BY <1>0, <1>4 DEF SubmitReadJob, CallRecord
    <2> QED
        BY <2>1, <2>2, MinimumsGrow, SubmissionEarly
<1>5. CASE SubmitValidate \/ SubmitCheckRound
    <2>1. call.required \in Minimums'
        BY <1>5, CallRequired DEF AnswerInv, SubmitValidate, SubmitCheckRound, At
    <2>2. \/ call' = IdleCall
          \/ call'.at \in {"check", "add"} /\ call'.required = call.required
        BY <1>0, <1>5 DEF SubmitValidate, SubmitCheckRound, Answer, CallRecord
    <2> QED
        BY <1>0, <2>1, <2>2, SubmissionEarly
<1> QED
    BY <1>1, <1>2, <1>3, <1>4, <1>5

(* The steps that put the submission into the buffer *)
LEMMA InsertSteps ==
    ASSUME AnswerInv, StoreMoved, SubmitWait \/ SubmitOpenCheckpoint
    PROVE  SubmissionInv'
<1> DEFINE r == call.req.round
<1>1. call \in CallRecord /\ r \in Rounds /\ roundWeights \in [Rounds -> SUBSET Entry]
      /\ At("add")
    BY SubmitShape DEF AnswerInv, ServerInv, BufferTypeOK, SubmitWait, SubmitOpenCheckpoint, At
<1>2. /\ roundWeights' = [roundWeights EXCEPT ![r] = WithEntry(r, Submitted)]
      /\ roundWeights'[r] = WithEntry(r, Submitted)
    <2>1. roundWeights' = [roundWeights EXCEPT ![r] = WithEntry(r, Submitted)]
        BY DEF SubmitWait, SubmitOpenCheckpoint, WeightsWait, CheckpointOpened
    <2> HIDE DEF r
    <2> QED
        BY <1>1, <2>1
<1>3. Submitted \in WithEntry(r, Submitted) /\ OnePerClient(WithEntry(r, Submitted))
    BY <1>1, WithEntryOnePerClient DEF AnswerInv, BufferInv
<1>4. call.required \in Minimums'
    BY <1>1, CallRequired DEF AnswerInv, At
<1>5. CASE SubmitWait
    <2>1. CASE call' = IdleCall
        BY <2>1, SubmissionEarly DEF IdleCall
    <2>2. CASE call' = [call EXCEPT !.at = "accept", !.aggregated = FALSE,
                                    !.version = latest.version]
        <3>1. /\ call'.at = "accept" /\ call'.req = call.req /\ call'.tensor = call.tensor
              /\ call'.required = call.required /\ call'.aggregated = FALSE
            BY <1>1, <2>2 DEF CallRecord
        <3>2. Submitted' = Submitted
            BY <3>1 DEF Submitted
        <3> QED
            BY <1>2, <1>3, <1>4, <3>1, <3>2 DEF SubmissionInv, At
    <2> QED
        BY <1>5, <2>1, <2>2 DEF SubmitWait, AfterBuffer, Answer
<1>6. CASE SubmitOpenCheckpoint
    <2>1. /\ call'.at = "write" /\ call'.req = call.req /\ call'.tensor = call.tensor
          /\ call'.required = call.required
        BY <1>1, <1>6 DEF SubmitOpenCheckpoint, CallRecord
    <2>2. Submitted' = Submitted
        BY <2>1 DEF Submitted
    <2>3. Cardinality(WithEntry(r, Submitted)) >= call.required
        <3>1. ~(Cardinality(WithEntry(r, Submitted)) < Threshold(call.required))
            BY <1>6 DEF SubmitOpenCheckpoint, CheckpointOpened, Aggregates, BelowThreshold
        <3>2. Cardinality(WithEntry(r, Submitted)) \in Nat
            BY <1>3, FS_CardinalityType DEF OnePerClient
        <3>3. call.required \in Nat
            BY <1>1 DEF CallRecord
        <3> HIDE DEF r
        <3> QED
            BY <3>1, <3>2, <3>3 DEF Threshold
    <2> QED
        BY <1>2, <1>3, <1>4, <2>1, <2>2, <2>3 DEF SubmissionInv, At
<1> QED
    BY <1>5, <1>6

(* The steps that leave the entries alone *)
LEMMA LaterSteps ==
    ASSUME AnswerInv, StoreMoved, SubmitWriteCheckpoint \/ SubmitAccept
    PROVE  SubmissionInv'
<1>1. call \in CallRecord /\ call.required \in Minimums'
    BY CallRequired
       DEF AnswerInv, ServerInv, CallInv, SubmitWriteCheckpoint, SubmitAccept, At
<1>2. UNCHANGED <<roundWeights, recorded>>
    BY DEF SubmitWriteCheckpoint, CheckpointWritten, SubmitAccept, bufferVars
<1>3. CASE SubmitWriteCheckpoint
    <2>1. /\ call.at = "write"
          /\ call'.at = "record" /\ call'.req = call.req /\ call'.tensor = call.tensor
          /\ call'.required = call.required
        BY <1>1, <1>3 DEF SubmitWriteCheckpoint, CallRecord, At
    <2> QED
        BY <1>1, <1>2, <2>1 DEF AnswerInv, SubmissionInv, At, Submitted
<1>4. CASE SubmitAccept
    <2>1. CASE call' = IdleCall
        BY <2>1, SubmissionEarly DEF IdleCall
    <2>2. CASE call.aggregated /\ call' = [call EXCEPT !.at = "advance"]
        <3>1. /\ call.at = "accept" /\ call.aggregated
              /\ call'.at = "advance" /\ call'.req = call.req /\ call'.tensor = call.tensor
              /\ call'.required = call.required /\ call'.aggregated = call.aggregated
            BY <1>1, <1>4, <2>2 DEF SubmitAccept, CallRecord, At
        <3>2. RoundRecorded(call.req.round)'
            BY <1>2, <3>1, RoundRecordedStays DEF AnswerInv, SubmissionInv, At
        <3> QED
            BY <1>1, <1>2, <3>1, <3>2 DEF AnswerInv, SubmissionInv, At, Submitted
    <2> QED
        BY <1>4, <2>1, <2>2 DEF SubmitAccept, Answer
<1> QED
    BY <1>3, <1>4

(* The model is recorded from what the buffer holds. *)
LEMMA RecordShape ==
    ASSUME AnswerInv, StoreMoved, SubmitRecordModel
    PROVE  /\ DOMAIN models' = DOMAIN models \union {Len(models) + 1}
           /\ models'[Len(models) + 1].round = call.req.round
           /\ recorded'[Len(models) + 1] = roundWeights[call.req.round]
           /\ \A v \in DOMAIN models : recorded'[v] = recorded[v]
           /\ UNCHANGED roundWeights
           /\ call.req.round \in Rounds
           /\ call \in CallRecord
           /\ call.at = "record"
<1> DEFINE r == call.req.round
<1>1. /\ r \in Rounds /\ r \in Nat /\ CoreInv /\ RecordAggregatedModel(r)
      /\ roundWeights[r] \in SUBSET Entry
      /\ recorded \in Seq(SUBSET Entry) /\ Len(recorded) = Len(models)
      /\ recorded' = Append(recorded, roundWeights[r])
      /\ call \in CallRecord /\ call.at = "record"
      /\ UNCHANGED roundWeights
    BY SubmitShape, RoundsAreNat
       DEF AnswerInv, ServerInv, BufferTypeOK, RecordsInv, SubmitRecordModel, AggregatePublished,
           At
<1>2. DOMAIN models = 1 .. Len(models)
    BY <1>1, CoreTypes
<1> HIDE DEF r
<1>3. /\ DOMAIN models' = DOMAIN models \union {Len(models) + 1}
      /\ models'[Len(models) + 1] = [round |-> r, active |-> TRUE]
    BY <1>1, RecordAggregatedModelShape
<1>4. /\ recorded'[Len(models) + 1] = roundWeights[r]
      /\ \A v \in DOMAIN models : recorded'[v] = recorded[v]
    BY <1>1, <1>2, AppendIsSeq
<1> QED
    BY <1>1, <1>3, <1>4 DEF r

LEMMA RecordStep ==
    ASSUME AnswerInv, StoreMoved, SubmitRecordModel
    PROVE  SubmissionInv' /\ EnoughContributors'
<1> DEFINE r == call.req.round
           new == Len(models) + 1
<1>1. \E v \in DOMAIN models' : models'[v].round = r /\ recorded'[v] = roundWeights'[r]
    BY RecordShape
<1>2. SubmissionInv'
    <2>1. call.required \in Minimums'
        BY CallRequired, RecordShape DEF AnswerInv, At
    <2>2. CASE call' = IdleCall
        BY <2>2, SubmissionEarly DEF IdleCall
    <2>3. CASE call' = [call EXCEPT !.at = "accept", !.aggregated = TRUE, !.version = new]
        <3>1. /\ call.at = "record"
              /\ call'.at = "accept" /\ call'.req = call.req /\ call'.tensor = call.tensor
              /\ call'.required = call.required /\ call'.aggregated = TRUE
            BY <2>3, RecordShape DEF CallRecord
        <3> QED
            BY <1>1, <2>1, <3>1, RecordShape
               DEF AnswerInv, SubmissionInv, RoundRecorded, At, Submitted
    <2> QED
        BY <2>2, <2>3 DEF SubmitRecordModel, AfterBuffer, Answer
<1>3. EnoughContributors'
    <2>1. Cardinality({e.client : e \in roundWeights[r]}) >= call.required
        <3>1. Cardinality(roundWeights[r]) >= call.required
            BY RecordShape DEF AnswerInv, SubmissionInv, At
        <3>2. OnePerClient(roundWeights[r])
            BY RecordShape DEF AnswerInv, BufferInv
        <3> QED
            BY <3>1, <3>2, ClientsOfEntries
    <2>2. call.required \in Minimums'
        BY CallRequired, RecordShape DEF AnswerInv, At
    <2>3. \A v \in DOMAIN models : \E min \in Minimums' :
              Cardinality({e.client : e \in recorded'[v]}) >= min
        BY RecordShape, MinimumsGrow DEF AnswerInv, EnoughContributors, Minimums
    <2>4. \A v \in DOMAIN models' : \E min \in Minimums' :
              Cardinality({e.client : e \in recorded'[v]}) >= min
        BY <2>1, <2>2, <2>3, RecordShape
    <2> QED
        BY <2>4 DEF EnoughContributors, Minimums
<1> QED
    BY <1>2, <1>3

-----------------------------------------------------------------------------
(* Every step *)

LEMMA BufferNext ==
    ASSUME AnswerInv, [Next]_vars
    PROVE  BufferInv'
<1> DEFINE r == call.req.round
<1>1. CASE UNCHANGED roundWeights
    BY <1>1 DEF AnswerInv, BufferInv
<1>2. CASE SubmitWait \/ SubmitOpenCheckpoint \/ SubmitNotAggregated \/ SubmitNotWritten
    <2>1. r \in Rounds /\ roundWeights \in [Rounds -> SUBSET Entry]
          /\ \A q \in Rounds : OnePerClient(roundWeights[q])
        BY <1>2, SubmitShape
           DEF SubmitWait, SubmitOpenCheckpoint, SubmitNotAggregated, SubmitNotWritten, At,
               AnswerInv, ServerInv, BufferTypeOK, BufferInv
    <2>2. \/ roundWeights' = [roundWeights EXCEPT ![r] = WithEntry(r, Submitted)]
          \/ roundWeights' = [roundWeights EXCEPT ![r] = WithoutClient(r, Submitted.client)]
        BY <1>2
           DEF SubmitWait, SubmitOpenCheckpoint, SubmitNotAggregated, SubmitNotWritten,
               WeightsWait, WeightsInvalid, CheckpointNotOpened, CheckpointOpened,
               CheckpointNotWritten
    <2>3. /\ OnePerClient(WithEntry(r, Submitted))
          /\ OnePerClient(WithoutClient(r, Submitted.client))
        BY <2>1, WithEntryOnePerClient
    <2> HIDE DEF r
    <2> QED
        BY <2>1, <2>2, <2>3 DEF BufferInv
<1>3. CASE Restart
    <2>1. OnePerClient({})
        BY FS_EmptySet DEF OnePerClient
    <2> QED
        BY <1>3, <2>1, RestartFrame DEF BufferInv
<1>4. CASE CallStep
    <2>1. CASE \/ \E c \in Clients : ConfigReadVersion(c)
               \/ ConfigLease
               \/ \E req \in Requests, tensor \in Tensors : SubmitReadVersion(req, tensor)
        BY <1>1, <2>1 DEF ConfigReadVersion, ConfigLease, SubmitReadVersion, bufferVars
    <2>2. CASE SubmitReadJob \/ SubmitValidate \/ SubmitCheckRound \/ SubmitWriteCheckpoint
               \/ SubmitRecordModel \/ SubmitAccept \/ SubmitAdvance
        BY <1>1, <2>2
           DEF SubmitReadJob, SubmitValidate, SubmitCheckRound, SubmitWriteCheckpoint,
               CheckpointWritten, SubmitRecordModel, AggregatePublished, SubmitAccept,
               SubmitAdvance, bufferVars
    <2> QED
        BY <1>2, <1>4, <2>1, <2>2 DEF CallStep, SubmitStep
<1> QED
    BY <1>1, <1>3, <1>4, NextSteps, OtherStepFrame

(* Only SubmitRecordModel records a model. *)
LEMMA CallStepRecords ==
    ASSUME CallStep, ~SubmitRecordModel
    PROVE  UNCHANGED <<recorded, models>>
<1>1. CASE \/ \E c \in Clients : ConfigReadVersion(c)
           \/ ConfigLease
           \/ \E req \in Requests, tensor \in Tensors : SubmitReadVersion(req, tensor)
    BY <1>1 DEF ConfigReadVersion, ConfigLease, SubmitReadVersion, LeaseTrainingAssignment,
                LeaseWithoutJob, ExpireAssignments, LeaseFromJob, LeaseReused, LeaseRefused,
                LeaseIssued, storeVars
<1>2. CASE SubmitStep
    BY <1>2 DEF SubmitStep, SubmitReadJob, SubmitValidate, SubmitCheckRound, SubmitWait,
           SubmitNotAggregated, SubmitOpenCheckpoint, SubmitWriteCheckpoint, SubmitNotWritten,
           SubmitAccept, SubmitAdvance, ValidateTrainingAssignmentSubmission, ExpireAssignments,
           RecordWeightSubmission, AcceptTrainingAssignmentSubmission, AcceptedSubmission,
           UnacceptedSubmission, AdvanceTrainingJobRound, storeVars
<1> QED
    BY <1>1, <1>2 DEF CallStep

LEMMA ContributorsNext ==
    ASSUME AnswerInv, [Next]_vars
    PROVE  EnoughContributors'
<1>1. StoreMoved
    BY StoreMoves DEF AnswerInv
<1>2. CASE recorded' = recorded /\ DOMAIN models' = DOMAIN models
    <2>1. \A v \in DOMAIN models : \E min \in Minimums' :
              Cardinality({e.client : e \in recorded[v]}) >= min
        BY <1>1, MinimumsGrow DEF AnswerInv, EnoughContributors, Minimums
    <2> QED
        BY <1>2, <2>1 DEF EnoughContributors, Minimums
<1> QED
    BY <1>1, <1>2, NextSteps, OtherStepFrame, RestartFrame, CallStepRecords, RecordStep

LEMMA SubmissionNext ==
    ASSUME AnswerInv, [Next]_vars
    PROVE  SubmissionInv'
<1>1. StoreMoved
    BY StoreMoves DEF AnswerInv
<1>2. CASE CallStep
    BY <1>1, <1>2, EarlySteps, InsertSteps, LaterSteps, RecordStep DEF CallStep, SubmitStep
<1>3. CASE Restart
    BY <1>3, RestartFrame, SubmissionEarly DEF IdleCall
<1>4. CASE OtherStep \/ UNCHANGED vars
    BY <1>1, <1>4, OtherStepFrame, SubmissionStays DEF AnswerInv
<1> QED
    BY <1>2, <1>3, <1>4, NextSteps

LEMMA AnswerInvariant == Spec => []AnswerInv
<1>1. Init => AnswerInv
    <2> SUFFICES ASSUME Init PROVE AnswerInv
        OBVIOUS
    <2>1. BufferInv
        BY FS_EmptySet DEF Init, BufferInit, BufferInv, OnePerClient
    <2>2. SubmissionInv
        BY DEF Init, IdleCall, SubmissionInv, At
    <2>3. DOMAIN models = {}
        BY DEF Init, StoreInit
    <2>4. EnoughContributors
        BY <2>3 DEF EnoughContributors
    <2> QED
        BY <2>1, <2>2, <2>4, ServerInit DEF AnswerInv
<1>2. AnswerInv /\ [Next]_vars => AnswerInv'
    BY ServerNext, BufferNext, SubmissionNext, ContributorsNext DEF AnswerInv
<1> QED
    BY <1>1, <1>2, PTL DEF Spec

(* No model is aggregated from fewer distinct clients than some created    *)
(* job's minimum or the configured default, whatever job was created, or   *)
(* advanced, while a submission was being handled.                         *)
THEOREM EnoughContributorsHolds == Spec => []EnoughContributors
<1>1. AnswerInv => EnoughContributors
    BY DEF AnswerInv
<1> QED
    BY <1>1, AnswerInvariant, PTL

-----------------------------------------------------------------------------
(* What the client is told *)

AnswerIsTrue ==
    ~At("idle") /\ ~At("config") /\ call'.at = "idle" /\ restarts' = restarts =>
        /\ reply' = "accepted" => Submitted \in roundWeights'[call.req.round]
        /\ reply' = "triggered" =>
               \E v \in DOMAIN models' :
                   /\ models'[v].round = call.req.round
                   /\ Submitted \in recorded'[v]

LEMMA AnswerStep ==
    ASSUME AnswerInv, [Next]_vars
    PROVE  AnswerIsTrue
<1> SUFFICES ASSUME ~At("idle"), ~At("config"), call'.at = "idle", restarts' = restarts
             PROVE  /\ reply' = "accepted" => Submitted \in roundWeights'[call.req.round]
                    /\ reply' = "triggered" =>
                           \E v \in DOMAIN models' :
                               /\ models'[v].round = call.req.round
                               /\ Submitted \in recorded'[v]
    BY DEF AnswerIsTrue
<1> DEFINE r == call.req.round
<1>1. StoreMoved
    BY StoreMoves DEF AnswerInv
<1>2. call \in CallRecord /\ r \in Rounds /\ roundWeights \in [Rounds -> SUBSET Entry]
      /\ restarts \in Nat
    BY SubmitShape DEF AnswerInv, ServerInv, BufferTypeOK
<1>3. CASE OtherStep \/ Restart \/ UNCHANGED vars
    BY <1>2, <1>3, OtherStepFrame, RestartFrame DEF At
<1>4. CASE SubmitReadJob \/ SubmitOpenCheckpoint \/ SubmitWriteCheckpoint
    BY <1>2, <1>4 DEF SubmitReadJob, SubmitOpenCheckpoint, SubmitWriteCheckpoint, CallRecord
<1>5. CASE SubmitValidate \/ SubmitCheckRound \/ SubmitNotAggregated \/ SubmitNotWritten
    <2>1. reply' = "rejected"
        BY <1>2, <1>5 DEF SubmitValidate, SubmitCheckRound, SubmitNotAggregated, SubmitNotWritten,
                          Answer, CallRecord
    <2> QED
        BY <2>1
<1>6. CASE SubmitWait
    <2>1. reply' = "accepted"
        BY <1>2, <1>6 DEF SubmitWait, AfterBuffer, Answer, CallRecord
    <2>2. roundWeights' = [roundWeights EXCEPT ![r] = WithEntry(r, Submitted)]
        BY <1>6 DEF SubmitWait, WeightsWait
    <2>3. Submitted \in WithEntry(r, Submitted)
        BY DEF WithEntry
    <2> HIDE DEF r
    <2>4. Submitted \in roundWeights'[r]
        BY <1>2, <2>2, <2>3
    <2> QED
        BY <2>1, <2>4 DEF r
<1>7. CASE SubmitRecordModel
    <2>1. reply' = "triggered"
        BY <1>2, <1>7 DEF SubmitRecordModel, AfterBuffer, Answer, CallRecord
    <2>2. Submitted \in roundWeights[r]
        BY <1>7 DEF AnswerInv, SubmissionInv, SubmitRecordModel, At
    <2> QED
        BY <1>1, <1>7, <2>1, <2>2, RecordShape
<1>8. CASE SubmitAccept
    <2>1. reply' \in {"rejected", "accepted"} /\ UNCHANGED roundWeights
        BY <1>2, <1>8 DEF SubmitAccept, Answer, CallRecord, bufferVars
    <2>2. Submitted \in roundWeights[r]
        BY <1>8 DEF AnswerInv, SubmissionInv, SubmitAccept, At
    <2> QED
        BY <2>1, <2>2
<1>9. CASE SubmitAdvance
    <2>1. reply' = "triggered" /\ UNCHANGED <<recorded, models>>
        BY <1>9 DEF SubmitAdvance, Answer, AdvanceTrainingJobRound, storeVars
    <2>2. RoundRecorded(r) /\ Submitted \in roundWeights[r]
        BY <1>9 DEF AnswerInv, SubmissionInv, SubmitAdvance, At
    <2> QED
        BY <2>1, <2>2 DEF RoundRecorded
<1>10. CASE \/ \E c \in Clients : ConfigReadVersion(c)
            \/ ConfigLease
            \/ \E req \in Requests, tensor \in Tensors : SubmitReadVersion(req, tensor)
    BY <1>10 DEF ConfigReadVersion, ConfigLease, SubmitReadVersion
<1> QED
    BY <1>3, <1>4, <1>5, <1>6, <1>7, <1>8, <1>9, <1>10, NextSteps DEF CallStep, SubmitStep

(* A client is told "accepted" only when its weights are in the buffer of  *)
(* their round, and "triggered" only when a recorded model of the round    *)
(* was computed from them, although the answer is composed after the       *)
(* buffer's and the store's locks were released.                           *)
THEOREM AnswerTrueHolds == Spec => AnswerTrue
<1>1. AnswerInv /\ [Next]_vars => [AnswerIsTrue]_vars
    BY AnswerStep
<1>2. [][AnswerIsTrue]_vars => AnswerTrue
    BY DEF AnswerIsTrue, AnswerTrue
<1> QED
    BY <1>1, <1>2, AnswerInvariant, PTL DEF Spec

-----------------------------------------------------------------------------
(* Within one server process *)

TakenBuffered ==
    \A i \in DOMAIN assignments :
        assignments[i].status \in TakenStatus =>
            /\ assignments[i].round \in Rounds
            /\ \E e \in roundWeights[assignments[i].round] :
                  e.client = assignments[i].client /\ e.asg = i

AggregatedRecorded ==
    \A i \in DOMAIN assignments :
        assignments[i].status = "aggregated" =>
            \E v \in DOMAIN models : models[v].round = assignments[i].round

ModelsIntact ==
    \A v \in DOMAIN models :
        /\ models[v].round \in completedRounds
        /\ recorded[v] = roundWeights[models[v].round]
        /\ checkpoints[models[v].round] = recorded[v]

(* Nobody else can have completed the round of the call, nor submitted for *)
(* its client, since that was checked.                                     *)
CallFresh ==
    /\ At("add") \/ At("write") \/ At("record") => ~IsRoundCompleted(call.req.round)
    /\ At("add") => ~HasClientSubmission(call.req.round, call.req.client)
    /\ At("write") => \A i \in DOMAIN assignments :
                          assignments[i].status \in TakenStatus =>
                              \/ assignments[i].client # call.req.client
                              \/ assignments[i].round # call.req.round
    /\ At("record") => checkpoints[call.req.round] = roundWeights[call.req.round]

ProcessInv == TakenBuffered /\ AggregatedRecorded /\ ModelsIntact /\ CallFresh
OneProcessInv == restarts = 0 => ProcessInv

(* Until the first restart *)
LEMMA OneProcess ==
    ASSUME AnswerInv, OneProcessInv, [Next]_vars, restarts' = 0
    PROVE  ProcessInv /\ (CallStep \/ OtherStep \/ UNCHANGED vars)
<1>1. restarts \in Nat
    BY DEF AnswerInv, ServerInv
<1>2. ~Restart
    BY <1>1 DEF Restart
<1>3. restarts' = restarts
    <2>1. CASE CallStep
        BY <2>1 DEF CallStep, ConfigReadVersion, ConfigLease, SubmitReadVersion, SubmitStep,
               SubmitReadJob, SubmitValidate, SubmitCheckRound, SubmitWait, SubmitNotAggregated,
               SubmitOpenCheckpoint, SubmitWriteCheckpoint, SubmitNotWritten, SubmitRecordModel,
               SubmitAccept, SubmitAdvance
    <2> QED
        BY <1>2, <2>1, NextSteps, OtherStepFrame
<1> QED
    BY <1>2, <1>3, NextSteps DEF OneProcessInv

(* Only Accept and Advance decide which assignments are taken. *)
LEMMA TakenNext ==
    ASSUME ServerInv, CallStep \/ OtherStep \/ UNCHANGED vars, ~SubmitAccept, ~SubmitAdvance
    PROVE  TakenKept
<1>0. CoreInv
    BY DEF ServerInv
<1>1. CASE CallStep
    <2>1. CASE UNCHANGED assignments
        BY <2>1, TakenUnchanged
    <2>2. CASE ConfigLease
        <3>1. CASE LeaseWithoutJob
            BY <1>0, <3>1, ExpiryTaken DEF LeaseWithoutJob, ExpireAssignments
        <3>2. CASE LeaseFromJob(call.req.client, call.version)
            BY <1>0, <3>2, LeaseFromJobTaken
        <3> QED
            BY <2>2, <3>1, <3>2 DEF ConfigLease, LeaseTrainingAssignment
    <2>3. CASE SubmitValidate
        BY <1>0, <2>3, ExpiryTaken
           DEF SubmitValidate, ValidateTrainingAssignmentSubmission, ExpireAssignments
    <2>4. CASE \/ SubmitReadJob \/ SubmitCheckRound \/ SubmitWait \/ SubmitNotAggregated
               \/ SubmitOpenCheckpoint \/ SubmitWriteCheckpoint \/ SubmitNotWritten
               \/ SubmitRecordModel
        BY <2>1, <2>4
           DEF SubmitReadJob, SubmitCheckRound, SubmitWait, SubmitNotAggregated,
               SubmitOpenCheckpoint, SubmitWriteCheckpoint, SubmitNotWritten, SubmitRecordModel,
               RecordWeightSubmission, RecordAggregatedModel, storeVars
    <2>5. CASE \/ \E c \in Clients : ConfigReadVersion(c)
               \/ \E req \in Requests, tensor \in Tensors : SubmitReadVersion(req, tensor)
        BY <2>1, <2>5 DEF ConfigReadVersion, SubmitReadVersion, storeVars
    <2> QED
        BY <1>1, <2>2, <2>3, <2>4, <2>5 DEF CallStep, SubmitStep
<1>2. ASSUME NEW w \in Workers, RegisterWorker(w) \/ TaskStep(w) PROVE TakenKept
    <2>1. CASE UNCHANGED assignments
        BY <2>1, TakenUnchanged
    <2>2. CASE TaskLeaseRefused(w)
        BY <1>0, <2>2, ExpiryTaken
           DEF TaskLeaseRefused, LeaseWithoutJob, ExpireAssignments, LeaseRefused
    <2>3. CASE \E a \in 1 .. MaxAssignments : TaskLeaseGranted(w, a)
        <3>1. LeaseFromJob(TrainerOf[w], lease[w].version)
            BY <2>3 DEF TaskLeaseGranted, LeaseFromJob, LeaseReused, HeldLeases
        <3> QED
            BY <1>0, <3>1, LeaseFromJobTaken
    <2> QED
        BY <1>2, <2>1, <2>2, <2>3
           DEF RegisterWorker, UpsertWorker, TaskStep, TaskReadVersion, TaskLease,
               LeaseWorkerTask, storeVars
<1>3. ASSUME NEW w, NEW t, NEW s, ReportTaskStatus(w, t, s) \/ Heartbeat(w, t) PROVE TakenKept
    BY <1>3, TakenUnchanged
       DEF ReportTaskStatus, UpdateWorkerTaskStatus, Heartbeat, RecordWorkerHeartbeat
<1>4. ASSUME NEW spec, AdminCreateTrainingJob(spec) PROVE TakenKept
    BY <1>4, TakenUnchanged DEF AdminCreateTrainingJob, CreateTrainingJob
<1>5. ASSUME NEW m, NEW v, RollbackActivate(m, v) PROVE TakenKept
    BY <1>5, TakenUnchanged DEF RollbackActivate, RollbackModel
<1>6. ASSUME NEW m, RollbackStep(m) PROVE TakenKept
    BY <1>6, TakenUnchanged
       DEF RollbackStep, RollbackRead, RollbackUnreadable, RollbackRestore, storeVars
<1>7. CASE TimePasses
    BY <1>0, <1>7, LeaseRunsOutTaken DEF TimePasses
<1>8. CASE UNCHANGED vars
    BY <1>8, TakenUnchanged DEF vars, storeVars
<1> QED
    BY <1>1, <1>2, <1>3, <1>4, <1>5, <1>6, <1>7, <1>8 DEF OtherStep

(* The buffer forgets no entry a taken assignment needs, and a completed   *)
(* round and its checkpoint stay as they are.                              *)
EntriesKept ==
    \A r \in Rounds : \A e \in roundWeights[r] :
        \/ e \in roundWeights'[r]
        \/ \A i \in DOMAIN assignments :
              assignments[i].status \in TakenStatus =>
                  assignments[i].client # e.client \/ assignments[i].round # r
CompletedFrozen ==
    /\ completedRounds \subseteq completedRounds'
    /\ \A r \in completedRounds : /\ roundWeights'[r] = roundWeights[r]
                                  /\ checkpoints'[r] = checkpoints[r]

LEMMA BufferSteps ==
    ASSUME AnswerInv, ProcessInv,
           SubmitWait \/ SubmitNotAggregated \/ SubmitOpenCheckpoint
           \/ SubmitWriteCheckpoint \/ SubmitNotWritten
    PROVE  EntriesKept /\ CompletedFrozen
<1> DEFINE r == call.req.round
           c == Submitted.client
<1>1. /\ r \in Rounds /\ c = call.req.client
      /\ roundWeights \in [Rounds -> SUBSET Entry] /\ checkpoints \in [Rounds -> SUBSET Entry]
      /\ r \notin completedRounds /\ completedRounds \subseteq Rounds
    BY SubmitShape
       DEF SubmitWait, SubmitNotAggregated, SubmitOpenCheckpoint, SubmitWriteCheckpoint,
           SubmitNotWritten, At, AnswerInv, ServerInv, BufferTypeOK, ProcessInv, CallFresh,
           IsRoundCompleted
<1>2. /\ completedRounds' = completedRounds
      /\ \/ checkpoints' = checkpoints
         \/ checkpoints' = [checkpoints EXCEPT ![r] = {}]
         \/ checkpoints' = [checkpoints EXCEPT ![r] = roundWeights[r]]
      /\ \/ roundWeights' = roundWeights
         \/ roundWeights' = [roundWeights EXCEPT ![r] = WithEntry(r, Submitted)]
         \/ roundWeights' = [roundWeights EXCEPT ![r] = WithoutClient(r, c)]
    BY DEF SubmitWait, SubmitNotAggregated, SubmitOpenCheckpoint, SubmitWriteCheckpoint,
           SubmitNotWritten, WeightsWait, WeightsInvalid, CheckpointNotOpened,
           CheckpointOpened, CheckpointWritten, CheckpointNotWritten
<1>3. roundWeights' = roundWeights
      \/ \A e \in roundWeights[r] :
             e.client = c => \A i \in DOMAIN assignments :
                                 assignments[i].status \in TakenStatus =>
                                     assignments[i].client # e.client \/ assignments[i].round # r
    <2>1. CASE SubmitWait \/ SubmitNotAggregated \/ SubmitOpenCheckpoint
        BY <1>1, <2>1
           DEF SubmitWait, SubmitNotAggregated, SubmitOpenCheckpoint, ProcessInv, CallFresh,
               HasClientSubmission
    <2>2. CASE SubmitWriteCheckpoint
        BY <2>2 DEF SubmitWriteCheckpoint, CheckpointWritten
    <2>3. CASE SubmitNotWritten
        BY <1>1, <2>3 DEF SubmitNotWritten, ProcessInv, CallFresh
    <2> QED
        BY <2>1, <2>2, <2>3
<1>4. \A e \in roundWeights[r] : e.client # c =>
          e \in WithEntry(r, Submitted) /\ e \in WithoutClient(r, c)
    BY DEF WithEntry, WithoutClient
<1> HIDE DEF r, c
<1>5. \A q \in Rounds \ {r} : roundWeights'[q] = roundWeights[q]
                              /\ checkpoints'[q] = checkpoints[q]
    BY <1>1, <1>2
<1>6. CompletedFrozen
    BY <1>1, <1>2, <1>5 DEF CompletedFrozen
<1>7. \A e \in roundWeights[r] : e.client # c => e \in roundWeights'[r]
    BY <1>1, <1>2, <1>4
<1>8. EntriesKept
    BY <1>3, <1>5, <1>7 DEF EntriesKept
<1> QED
    BY <1>6, <1>8

LEMMA BufferKeeps ==
    ASSUME AnswerInv, ProcessInv, CallStep \/ OtherStep \/ UNCHANGED vars
    PROVE  EntriesKept /\ CompletedFrozen
<1>1. CASE UNCHANGED <<roundWeights, completedRounds, checkpoints>>
    BY <1>1 DEF EntriesKept, CompletedFrozen
<1>2. CASE \/ \E c \in Clients : ConfigReadVersion(c)
           \/ ConfigLease
           \/ \E req \in Requests, tensor \in Tensors : SubmitReadVersion(req, tensor)
           \/ SubmitReadJob \/ SubmitValidate \/ SubmitCheckRound \/ SubmitAccept
           \/ SubmitAdvance
    BY <1>1, <1>2
       DEF ConfigReadVersion, ConfigLease, SubmitReadVersion, SubmitReadJob, SubmitValidate,
           SubmitCheckRound, SubmitAccept, SubmitAdvance, bufferVars
<1>3. CASE SubmitRecordModel
    BY <1>3 DEF SubmitRecordModel, AggregatePublished, EntriesKept, CompletedFrozen
<1> QED
    BY <1>1, <1>2, <1>3, BufferSteps, OtherStepFrame DEF CallStep, SubmitStep

LEMMA AcceptTaken ==
    ASSUME CoreInv, NEW req, AcceptTrainingAssignmentSubmission(req)
    PROVE  \A i \in DOMAIN assignments' :
               assignments'[i].status \in TakenStatus =>
                   /\ i \in DOMAIN assignments
                   /\ \/ assignments'[i].status = assignments[i].status
                      \/ /\ HasActiveJob /\ Submittable(req) /\ i = req.asg
                         /\ assignments'[i].status = "submitted"
<1>1. CASE UnacceptedSubmission(req)
    BY <1>1, ExpiryTaken DEF UnacceptedSubmission, ExpireAssignments, TakenKept
<1>2. CASE AcceptedSubmission(req)
    <2>1. /\ HasActiveJob /\ Submittable(req) /\ req.asg \in DOMAIN assignments
          /\ assignments' = [Expired EXCEPT ![req.asg].status = "submitted"]
        BY <1>2 DEF AcceptedSubmission, Submittable
    <2>2. Expired \in [1 .. Len(assignments) -> Assignment]
          /\ DOMAIN assignments = 1 .. Len(assignments)
        BY ExpiryTypes, SeqIsFunction
    <2>3. DOMAIN assignments' = DOMAIN assignments
        BY <2>1, <2>2
    <2>4. assignments'[req.asg].status = "submitted"
        <3>1. Expired[req.asg] \in Assignment
            BY <2>1, <2>2
        <3> QED
            BY <2>1, <2>2, <3>1 DEF Assignment
    <2>5. ASSUME NEW i \in DOMAIN assignments, i # req.asg, assignments'[i].status \in TakenStatus
          PROVE  assignments'[i].status = assignments[i].status
        <3>1. assignments'[i] = Expired[i]
            BY <2>1, <2>2, <2>5
        <3> QED
            BY <2>5, <3>1, ExpiryTypes DEF TakenStatus
    <2> QED
        BY <2>1, <2>3, <2>4, <2>5
<1> QED
    BY <1>1, <1>2 DEF AcceptTrainingAssignmentSubmission

LEMMA AdvanceTaken ==
    ASSUME CoreInv, NEW r, NEW version, AdvanceTrainingJobRound(r, version)
    PROVE  \A i \in DOMAIN assignments' :
               assignments'[i].status \in TakenStatus =>
                   /\ i \in DOMAIN assignments
                   /\ assignments[i].status \in TakenStatus
                   /\ \/ assignments'[i].status = assignments[i].status
                      \/ assignments[i].round = r
<1>1. CASE ~HasActiveJob
    BY <1>1 DEF AdvanceTrainingJobRound, storeVars
<1>2. CASE HasActiveJob
    <2>1. assignments' = [i \in DOMAIN assignments |->
              IF i \in RoundAssignments(ActiveJob, r)
              THEN [assignments[i] EXCEPT !.status = ClosedAssignmentStatus(@)]
              ELSE assignments[i]]
        BY <1>2 DEF AdvanceTrainingJobRound
    <2>2. ASSUME NEW i \in DOMAIN assignments, assignments'[i].status \in TakenStatus
          PROVE  /\ assignments[i].status \in TakenStatus
                 /\ \/ assignments'[i].status = assignments[i].status
                    \/ assignments[i].round = r
        <3>1. assignments[i] \in Assignment
            BY CoreTypes
        <3>2. \/ assignments'[i] = assignments[i]
              \/ /\ assignments[i].round = r
                 /\ assignments'[i] = [assignments[i] EXCEPT
                                          !.status = ClosedAssignmentStatus(assignments[i].status)]
            BY <2>1 DEF RoundAssignments
        <3> QED
            BY <2>2, <3>1, <3>2 DEF Assignment, ClosedAssignmentStatus, TakenStatus
    <2> QED
        BY <2>1, <2>2
<1> QED
    BY <1>1, <1>2

LEMMA TakenBufferedNext ==
    ASSUME AnswerInv, ProcessInv, StoreMoved, EntriesKept,
           CallStep \/ OtherStep \/ UNCHANGED vars
    PROVE  TakenBuffered'
<1>1. ASSUME NEW i \in DOMAIN assignments, assignments[i].status \in TakenStatus
      PROVE  /\ assignments'[i].round \in Rounds
             /\ \E e \in roundWeights'[assignments'[i].round] :
                    e.client = assignments'[i].client /\ e.asg = i
    <2>1. PICK e \in roundWeights[assignments[i].round] :
              e.client = assignments[i].client /\ e.asg = i
        BY <1>1 DEF ProcessInv, TakenBuffered
    <2>2. assignments[i].round \in Rounds
        BY <1>1 DEF ProcessInv, TakenBuffered
    <2>3. e \in roundWeights'[assignments[i].round]
        BY <1>1, <2>1, <2>2 DEF EntriesKept
    <2>4. assignments'[i].round = assignments[i].round
          /\ assignments'[i].client = assignments[i].client
        BY DEF StoreMoved, RecordsKept, SameLease
    <2> QED
        BY <2>1, <2>2, <2>3, <2>4
<1>2. CASE SubmitAccept
    <2>1. /\ At("accept") /\ AcceptTrainingAssignmentSubmission(call.req)
          /\ UNCHANGED roundWeights /\ CoreInv
        BY <1>2 DEF SubmitAccept, bufferVars, AnswerInv, ServerInv
    <2>2. ASSUME Submittable(call.req)
          PROVE  /\ assignments'[call.req.asg].round \in Rounds
                 /\ \E e \in roundWeights'[assignments'[call.req.asg].round] :
                       e.client = assignments'[call.req.asg].client /\ e.asg = call.req.asg
        <3>1. /\ call.req.asg \in DOMAIN assignments
              /\ assignments[call.req.asg].client = call.req.client
              /\ assignments[call.req.asg].round = call.req.round
            BY <2>2 DEF Submittable
        <3>2. /\ assignments'[call.req.asg].client = call.req.client
              /\ assignments'[call.req.asg].round = call.req.round
            BY <3>1 DEF StoreMoved, RecordsKept, SameLease
        <3>3. call.req.round \in Rounds
            BY <2>1, SubmitShape DEF AnswerInv, At
        <3>4. Submitted \in roundWeights[call.req.round]
            BY <2>1 DEF AnswerInv, SubmissionInv
        <3>5. Submitted.client = call.req.client /\ Submitted.asg = call.req.asg
            BY DEF Submitted
        <3> QED
            BY <2>1, <3>2, <3>3, <3>4, <3>5
    <2> QED
        BY <1>1, <2>1, <2>2, AcceptTaken DEF TakenBuffered
<1>3. CASE SubmitAdvance
    BY <1>1, <1>3, AdvanceTaken DEF SubmitAdvance, TakenBuffered, AnswerInv, ServerInv
<1>4. CASE ~SubmitAccept /\ ~SubmitAdvance
    BY <1>1, <1>4, TakenNext DEF TakenKept, TakenBuffered, AnswerInv
<1> QED
    BY <1>2, <1>3, <1>4

LEMMA AggregatedRecordedNext ==
    ASSUME AnswerInv, ProcessInv, StoreMoved,
           CallStep \/ OtherStep \/ UNCHANGED vars
    PROVE  AggregatedRecorded'
<1>1. ASSUME NEW i \in DOMAIN assignments,
             \E v \in DOMAIN models : models[v].round = assignments[i].round
      PROVE  \E v \in DOMAIN models' : models'[v].round = assignments'[i].round
    BY <1>1 DEF StoreMoved, RecordsKept, SameLease, ModelsKept
<1>2. CASE SubmitAccept
    <2>1. AcceptTrainingAssignmentSubmission(call.req) /\ CoreInv
        BY <1>2 DEF SubmitAccept, AnswerInv, ServerInv
    <2> QED
        BY <1>1, <2>1, AcceptTaken DEF ProcessInv, AggregatedRecorded, TakenStatus
<1>3. CASE SubmitAdvance
    <2>1. AdvanceTrainingJobRound(call.req.round, call.version) /\ CoreInv
          /\ RoundRecorded(call.req.round)
        BY <1>3 DEF SubmitAdvance, At, AnswerInv, ServerInv, SubmissionInv
    <2> QED
        BY <1>1, <2>1, AdvanceTaken
           DEF ProcessInv, AggregatedRecorded, TakenStatus, RoundRecorded
<1>4. CASE ~SubmitAccept /\ ~SubmitAdvance
    BY <1>1, <1>4, TakenNext
       DEF TakenKept, TakenStatus, ProcessInv, AggregatedRecorded, AnswerInv
<1> QED
    BY <1>2, <1>3, <1>4

LEMMA ModelsIntactNext ==
    ASSUME AnswerInv, ProcessInv, StoreMoved, CompletedFrozen,
           CallStep \/ OtherStep \/ UNCHANGED vars
    PROVE  ModelsIntact'
<1>1. ASSUME NEW v \in DOMAIN models, recorded'[v] = recorded[v]
      PROVE  /\ models'[v].round \in completedRounds'
             /\ recorded'[v] = roundWeights'[models'[v].round]
             /\ checkpoints'[models'[v].round] = recorded'[v]
    BY <1>1 DEF StoreMoved, RecordsKept, ModelsKept, ProcessInv, ModelsIntact, CompletedFrozen
<1>2. CASE SubmitRecordModel
    <2>1. /\ completedRounds' = completedRounds \union {call.req.round}
          /\ UNCHANGED checkpoints
        BY <1>2 DEF SubmitRecordModel, AggregatePublished
    <2>2. checkpoints[call.req.round] = roundWeights[call.req.round]
        BY <1>2 DEF SubmitRecordModel, ProcessInv, CallFresh
    <2> QED
        BY <1>1, <1>2, <2>1, <2>2, RecordShape DEF ModelsIntact
<1>3. CASE recorded' = recorded /\ DOMAIN models' = DOMAIN models
    BY <1>1, <1>3 DEF ModelsIntact
<1> QED
    BY <1>2, <1>3, CallStepRecords, OtherStepFrame

LEMMA CallFreshElsewhere ==
    ASSUME call'.at \notin {"add", "write", "record"}
    PROVE  CallFresh'
BY DEF CallFresh, At

LEMMA CallFreshNext ==
    ASSUME AnswerInv, ProcessInv, StoreMoved,
           CallStep \/ OtherStep \/ UNCHANGED vars
    PROVE  CallFresh'
<1> DEFINE r == call.req.round
<1>0. IdleCall.at = "idle" /\ call \in CallRecord
    BY DEF IdleCall, AnswerInv, ServerInv, CallInv
<1>1. CASE OtherStep \/ UNCHANGED vars
    <2>1. UNCHANGED <<call, roundWeights, completedRounds, checkpoints>>
        BY <1>1, OtherStepFrame
    <2>2. TakenKept \/ ~At("write")
        BY <1>1, TakenNext DEF SubmitAccept, SubmitAdvance, At, AnswerInv
    <2> QED
        BY <2>1, <2>2
           DEF ProcessInv, CallFresh, At, IsRoundCompleted, HasClientSubmission, TakenKept,
               StoreMoved, RecordsKept, SameLease
<1>2. CASE SubmitCheckRound
    <2>1. CASE call' = IdleCall
        BY <1>0, <2>1, CallFreshElsewhere
    <2>2. CASE /\ call' = [call EXCEPT !.at = "add"]
               /\ ~IsRoundCompleted(r) /\ ~HasClientSubmission(r, call.req.client)
        <3>1. call'.at = "add" /\ call'.req = call.req
            BY <1>0, <2>2 DEF CallRecord
        <3>2. UNCHANGED <<roundWeights, completedRounds>>
            BY <1>2 DEF SubmitCheckRound, bufferVars
        <3> QED
            BY <2>2, <3>1, <3>2 DEF CallFresh, At, IsRoundCompleted, HasClientSubmission
    <2> QED
        BY <1>2, <2>1, <2>2 DEF SubmitCheckRound, Answer
<1>3. CASE SubmitOpenCheckpoint
    <2>1. /\ call.at = "add" /\ call'.at = "write" /\ call'.req = call.req
          /\ UNCHANGED <<assignments, completedRounds>>
        BY <1>0, <1>3
           DEF SubmitOpenCheckpoint, CheckpointOpened, CallRecord, At, storeVars
    <2>2. ~IsRoundCompleted(r) /\ ~HasClientSubmission(r, call.req.client)
        BY <2>1 DEF ProcessInv, CallFresh, At
    <2>3. \A i \in DOMAIN assignments :
              assignments[i].status \in TakenStatus =>
                  assignments[i].client # call.req.client \/ assignments[i].round # r
        BY <2>2 DEF ProcessInv, TakenBuffered, HasClientSubmission
    <2> QED
        BY <2>1, <2>2, <2>3 DEF CallFresh, At, IsRoundCompleted
<1>4. CASE SubmitWriteCheckpoint
    <2>1. /\ call.at = "write" /\ call'.at = "record" /\ call'.req = call.req
          /\ UNCHANGED <<roundWeights, completedRounds>>
          /\ checkpoints' = [checkpoints EXCEPT ![r] = roundWeights[r]]
        BY <1>0, <1>4
           DEF SubmitWriteCheckpoint, CheckpointWritten, CallRecord, At
    <2>2. ~IsRoundCompleted(r)
        BY <2>1 DEF ProcessInv, CallFresh, At
    <2>3. r \in Rounds /\ checkpoints \in [Rounds -> SUBSET Entry]
        BY <2>1, SubmitShape DEF At, AnswerInv, ServerInv, BufferTypeOK
    <2>4. checkpoints'[r] = roundWeights[r]
        BY <2>1, <2>3
    <2> QED
        BY <2>1, <2>2, <2>4 DEF CallFresh, At, IsRoundCompleted
<1>5. ASSUME NEW c, ConfigReadVersion(c) PROVE CallFresh'
    <2>1. call'.at = "config"
        BY <1>5 DEF ConfigReadVersion, IdleCall
    <2> QED
        BY <2>1, CallFreshElsewhere
<1>6. ASSUME NEW req, NEW tensor, SubmitReadVersion(req, tensor) PROVE CallFresh'
    <2>1. [IdleCall EXCEPT !.at = "job", !.req = req, !.tensor = tensor,
                           !.version = ActiveModelVersion].at = "job"
        BY DEF IdleCall
    <2>2. \/ call' = IdleCall
          \/ call' = [IdleCall EXCEPT !.at = "job", !.req = req, !.tensor = tensor,
                                      !.version = ActiveModelVersion]
        BY <1>6 DEF SubmitReadVersion, Answer
    <2>3. call'.at = "idle" \/ call'.at = "job"
        BY <1>0, <2>1, <2>2
    <2> QED
        BY <2>3, CallFreshElsewhere
<1>7. CASE ConfigLease \/ SubmitReadJob \/ SubmitValidate \/ SubmitWait \/ SubmitNotAggregated
           \/ SubmitNotWritten \/ SubmitRecordModel \/ SubmitAccept \/ SubmitAdvance
    <2>1. call'.at \notin {"add", "write", "record"}
        BY <1>0, <1>7
           DEF ConfigLease, SubmitReadJob, SubmitValidate, SubmitWait, SubmitNotAggregated,
               SubmitNotWritten, SubmitRecordModel, SubmitAccept, SubmitAdvance, AfterBuffer,
               Answer, CallRecord
    <2> QED
        BY <2>1, CallFreshElsewhere
<1> QED
    BY <1>1, <1>2, <1>3, <1>4, <1>5, <1>6, <1>7 DEF CallStep, SubmitStep

LEMMA OneProcessInvariant == Spec => []OneProcessInv
<1>1. Init => OneProcessInv
    <2> SUFFICES ASSUME Init PROVE ProcessInv
        BY DEF OneProcessInv
    <2>1. DOMAIN assignments = {} /\ DOMAIN models = {} /\ call.at = "idle"
        BY DEF Init, StoreInit, IdleCall
    <2> QED
        BY <2>1
           DEF ProcessInv, TakenBuffered, AggregatedRecorded, ModelsIntact, CallFresh, At
<1>2. AnswerInv /\ OneProcessInv /\ [Next]_vars => OneProcessInv'
    <2> SUFFICES ASSUME AnswerInv, OneProcessInv, [Next]_vars, restarts' = 0
                 PROVE  ProcessInv'
        BY DEF OneProcessInv
    <2>1. ProcessInv /\ (CallStep \/ OtherStep \/ UNCHANGED vars)
        BY OneProcess
    <2>2. StoreMoved
        BY StoreMoves DEF AnswerInv
    <2>3. EntriesKept /\ CompletedFrozen
        BY <2>1, BufferKeeps
    <2> QED
        BY <2>1, <2>2, <2>3, TakenBufferedNext, AggregatedRecordedNext, ModelsIntactNext,
           CallFreshNext DEF ProcessInv
<1> QED
    BY <1>1, <1>2, AnswerInvariant, PTL DEF Spec

(* Until the server is restarted, an assignment the store calls            *)
(* "submitted" has its weights in the round buffer.                        *)
THEOREM SubmittedIsBufferedHolds == Spec => [](restarts = 0 => SubmittedIsBuffered)
<1>1. OneProcessInv => (restarts = 0 => SubmittedIsBuffered)
    BY DEF OneProcessInv, ProcessInv, TakenBuffered, TakenStatus, SubmittedIsBuffered
<1> QED
    BY <1>1, OneProcessInvariant, PTL

(* ... one it calls "aggregated" contributed to a recorded model of its    *)
(* round.                                                                  *)
THEOREM AggregatedContributedHolds == Spec => [](restarts = 0 => AggregatedContributed)
<1>1. OneProcessInv => (restarts = 0 => AggregatedContributed)
    <2> SUFFICES ASSUME ProcessInv,
                        NEW i \in DOMAIN assignments, assignments[i].status = "aggregated"
                 PROVE  \E v \in DOMAIN models :
                            /\ models[v].round = assignments[i].round
                            /\ \E e \in recorded[v] : e.asg = i
        BY DEF OneProcessInv, AggregatedContributed
    <2>1. PICK v \in DOMAIN models : models[v].round = assignments[i].round
        BY DEF ProcessInv, AggregatedRecorded
    <2>2. \E e \in roundWeights[assignments[i].round] : e.asg = i
        BY DEF ProcessInv, TakenBuffered, TakenStatus
    <2>3. recorded[v] = roundWeights[assignments[i].round]
        BY <2>1 DEF ProcessInv, ModelsIntact
    <2> QED
        BY <2>1, <2>2, <2>3
<1> QED
    BY <1>1, OneProcessInvariant, PTL

(* ... a client has at most one assignment taken per round, although it    *)
(* may lease a round again that it has submitted for.                      *)
THEOREM OneSubmissionPerRoundHolds == Spec => [](restarts = 0 => OneSubmissionPerRound)
<1>1. AnswerInv /\ OneProcessInv => (restarts = 0 => OneSubmissionPerRound)
    <2> SUFFICES ASSUME AnswerInv, ProcessInv,
                        NEW i \in Taken, NEW k \in Taken,
                        assignments[i].client = assignments[k].client,
                        assignments[i].round = assignments[k].round
                 PROVE  i = k
        BY DEF OneProcessInv, OneSubmissionPerRound
    <2>1. PICK e \in roundWeights[assignments[i].round] :
              e.client = assignments[i].client /\ e.asg = i
        BY DEF Taken, TakenStatus, ProcessInv, TakenBuffered
    <2>2. PICK f \in roundWeights[assignments[k].round] :
              f.client = assignments[k].client /\ f.asg = k
        BY DEF Taken, TakenStatus, ProcessInv, TakenBuffered
    <2>3. assignments[i].round \in Rounds
        BY DEF Taken, TakenStatus, ProcessInv, TakenBuffered
    <2>4. e = f
        BY <2>1, <2>2, <2>3 DEF AnswerInv, BufferInv, OnePerClient
    <2> QED
        BY <2>1, <2>2, <2>4
<1> QED
    BY <1>1, AnswerInvariant, OneProcessInvariant, PTL

(* ... and the checkpoint of every version holds what it was recorded with.*)
THEOREM CheckpointIntactHolds == Spec => [](restarts = 0 => CheckpointIntact)
<1>1. OneProcessInv => (restarts = 0 => CheckpointIntact)
    BY DEF OneProcessInv, ProcessInv, ModelsIntact, CheckpointIntact
<1> QED
    BY <1>1, OneProcessInvariant, PTL

-----------------------------------------------------------------------------
(* The model served and the active one, as long as nothing is rolled back  *)

AgreeInv ==
    /\ rollbacks \in Nat
    /\ rollbacks = 0 => /\ \A m \in Admins : rollback[m].at = "idle"
                        /\ latest = NoModel \/ latest.version = ActiveModelVersion

(* A model that was just recorded is the active one. *)
LEMMA RecordedActive ==
    ASSUME CoreInv, CoreInv', NEW r \in Nat, RecordAggregatedModel(r)
    PROVE  ActiveModelVersion' = Len(models) + 1
<1>1. /\ DOMAIN models' = DOMAIN models \union {Len(models) + 1}
      /\ models'[Len(models) + 1].active
      /\ \A v \in DOMAIN models : models'[v].active = FALSE
      /\ Len(models) \in Nat /\ DOMAIN models = 1 .. Len(models)
    <2>1. /\ DOMAIN models' = DOMAIN models \union {Len(models) + 1}
          /\ models'[Len(models) + 1] = [round |-> r, active |-> TRUE]
          /\ \A v \in DOMAIN models : models'[v].active = FALSE
        BY RecordAggregatedModelShape
    <2>2. models'[Len(models) + 1].active
        BY <2>1
    <2> QED
        BY <2>1, <2>2, CoreTypes
<1>2. ActiveModels' = {Len(models) + 1}
    BY <1>1 DEF ActiveModels
<1> QED
    BY <1>1, <1>2 DEF ActiveModelVersion

LEMMA AgreeStays ==
    ASSUME AgreeInv, rollbacks' = rollbacks, models' = models, latest' = latest,
           rollbacks = 0 => \A m \in Admins : rollback'[m].at = "idle"
    PROVE  AgreeInv'
BY DEF AgreeInv, ActiveModelVersion, ActiveModels

LEMMA AgreeNext ==
    ASSUME ServerInv, AgreeInv, [Next]_vars
    PROVE  AgreeInv'
<1>1. StoreMoved /\ CoreInv /\ CoreInv'
    BY StoreMoves DEF ServerInv, StoreMoved
<1>2. CASE SubmitRecordModel
    <2>1. call.req.round \in Nat
        BY <1>2, SubmitShape, RoundsAreNat DEF SubmitRecordModel, At
    <2>2. /\ RecordAggregatedModel(call.req.round)
          /\ latest'.version = Len(models) + 1
          /\ UNCHANGED <<rollback, rollbacks>>
        BY <1>2 DEF SubmitRecordModel, AggregatePublished, adminVars
    <2>3. ActiveModelVersion' = Len(models) + 1
        BY <1>1, <2>1, <2>2, RecordedActive
    <2> QED
        BY <2>2, <2>3 DEF AgreeInv
<1>3. CASE CallStep /\ ~SubmitRecordModel
    <2>1. UNCHANGED <<rollback, rollbacks, latest>>
        BY <1>3
           DEF CallStep, ConfigReadVersion, ConfigLease, SubmitReadVersion, SubmitStep,
               SubmitReadJob, SubmitValidate, SubmitCheckRound, SubmitWait, SubmitNotAggregated,
               SubmitOpenCheckpoint, SubmitWriteCheckpoint, SubmitNotWritten, SubmitAccept,
               SubmitAdvance, WeightsWait, WeightsInvalid, CheckpointNotOpened, CheckpointOpened,
               CheckpointWritten, CheckpointNotWritten, adminVars, bufferVars
    <2> QED
        BY <1>3, <2>1, CallStepRecords, AgreeStays DEF AgreeInv
<1>4. ASSUME NEW w \in Workers,
             \/ RegisterWorker(w) \/ TaskStep(w)
             \/ \E t \in DOMAIN tasks, s \in ReportableStatus : ReportTaskStatus(w, t, s)
             \/ \E t \in {0} \union OwnTasks(w) : Heartbeat(w, t)
      PROVE  AgreeInv'
    <2>1. UNCHANGED <<rollback, rollbacks, latest, models>>
        BY <1>4
           DEF RegisterWorker, TaskStep, TaskReadVersion, TaskLeaseRefused, TaskLeaseGranted,
               TaskLease, ReportTaskStatus, Heartbeat, UpsertWorker, LeaseWithoutJob,
               ExpireAssignments, LeaseRefused, LeaseReused, LeaseIssued, LeaseWorkerTask,
               UpdateWorkerTaskStatus, RecordWorkerHeartbeat, adminVars, bufferVars, storeVars
    <2> QED
        BY <2>1, AgreeStays DEF AgreeInv
<1>5. CASE TimePasses \/ \E spec \in JobSpecs : AdminCreateTrainingJob(spec)
    <2>1. UNCHANGED <<rollback, rollbacks, latest, models>>
        BY <1>5 DEF TimePasses, LeaseRunsOut, AdminCreateTrainingJob, CreateTrainingJob,
                    adminVars, bufferVars
    <2> QED
        BY <2>1, AgreeStays DEF AgreeInv
<1>6. ASSUME NEW m, NEW v, RollbackActivate(m, v) PROVE AgreeInv'
    BY <1>6 DEF RollbackActivate, AgreeInv
<1>7. ASSUME NEW m \in Admins, RollbackStep(m) PROVE AgreeInv'
    <2>1. rollback[m].at # "idle" /\ rollbacks' = rollbacks
        BY <1>7 DEF RollbackStep, RollbackRead, RollbackUnreadable, RollbackRestore
    <2> QED
        BY <2>1 DEF AgreeInv
<1>8. CASE Restart
    <2>1. /\ rollback' = [m \in Admins |-> IdleRollback]
          /\ UNCHANGED <<models, rollbacks>>
          /\ latest' = NoModel \/ latest'.version = ActiveModelVersion
        BY <1>8 DEF Restart, BufferRestarted, Reload, ExpireAssignments
    <2>2. ActiveModelVersion' = ActiveModelVersion
        BY <2>1 DEF ActiveModelVersion, ActiveModels
    <2> QED
        BY <2>1, <2>2 DEF AgreeInv, IdleRollback
<1>9. CASE UNCHANGED vars
    <2>1. UNCHANGED <<rollback, rollbacks, latest, models>>
        BY <1>9 DEF vars, adminVars, bufferVars, storeVars
    <2> QED
        BY <2>1, AgreeStays DEF AgreeInv
<1> QED
    BY <1>2, <1>3, <1>4, <1>5, <1>6, <1>7, <1>8, <1>9, NextSteps DEF OtherStep

(* Until something is rolled back, the buffer serves the version the store *)
(* calls active or none, however often the server dies and restarts.       *)
THEOREM StoreBufferAgreeHolds == Spec => [](rollbacks = 0 => StoreBufferAgree)
<1>1. Init => AgreeInv
    BY DEF Init, BufferInit, IdleRollback, AgreeInv
<1>2. ServerInv /\ AgreeInv /\ [Next]_vars => AgreeInv'
    BY AgreeNext
<1>3. AgreeInv => (rollbacks = 0 => StoreBufferAgree)
    BY DEF AgreeInv, StoreBufferAgree
<1> QED
    BY <1>1, <1>2, <1>3, ServerInvariant, PTL DEF Spec

-----------------------------------------------------------------------------
(* The rounds of a scope's only job *)

HeldCurrent ==
    \A i \in DOMAIN assignments :
        Held(i) => assignments[i].round = jobs[assignments[i].job].round

(* With a second job, Advance closes the round of another job than the     *)
(* submission was accepted for.                                            *)
JobInv ==
    Len(jobs) <= 1 =>
        /\ JobRoundsInStep
        /\ HeldCurrent
        /\ ~At("idle") /\ ~At("config") /\ ~At("job") /\ call.scheduled => jobs # <<>>
        /\ At("validate") \/ At("accept") \/ At("advance") => call.scheduled
        /\ At("advance") /\ HasActiveJob => call.req.round = jobs[ActiveJob].round

(* Jobs are where they were, and none has become active. *)
JobsStill ==
    /\ DOMAIN jobs' = DOMAIN jobs /\ Len(jobs') = Len(jobs)
    /\ \A j \in DOMAIN jobs :
          /\ jobs'[j].round = jobs[j].round /\ jobs'[j].completed = jobs[j].completed
          /\ IsActiveJobStatus(jobs'[j].status) => IsActiveJobStatus(jobs[j].status)

LEMMA StartedStill ==
    ASSUME CoreInv, CoreInv', HasActiveJob, NEW status, Started(ActiveJob, status)
    PROVE  JobsStill
<1>1. ActiveJob \in DOMAIN jobs /\ ActiveJob \in ActiveJobs
    BY ActiveJobIsNewest DEF CoreInv
<1>2. jobs' = [jobs EXCEPT ![ActiveJob].status = status]
    BY DEF Started
<1>3. DOMAIN jobs' = DOMAIN jobs
      /\ \A j \in DOMAIN jobs : /\ jobs'[j].round = jobs[j].round
                                /\ jobs'[j].completed = jobs[j].completed
                                /\ j # ActiveJob => jobs'[j] = jobs[j]
    BY <1>2, CoreTypes DEF Job
<1>4. Len(jobs') = Len(jobs)
    <2>1. /\ Len(jobs) \in Nat /\ Len(jobs') \in Nat
          /\ 1 .. Len(jobs) = 1 .. Len(jobs')
        BY <1>3, SeqIsFunction DEF CoreInv, StoreTypeOK
    <2> QED
        BY <2>1
<1>5. \A j \in DOMAIN jobs :
          jobs'[j].status \in {"planned", "running"} =>
              jobs[j].status \in {"planned", "running"}
    <2>1. jobs[ActiveJob].status \in {"planned", "running"}
        BY <1>1 DEF ActiveJobs, IsActiveJobStatus
    <2> QED
        BY <1>3, <2>1
<1> QED
    BY <1>3, <1>4, <1>5 DEF JobsStill, IsActiveJobStatus

LEMMA UnchangedStill ==
    ASSUME UNCHANGED jobs
    PROVE  JobsStill
BY DEF JobsStill

LEMMA LeaseStill ==
    ASSUME CoreInv, CoreInv', NEW c, NEW v, LeaseTrainingAssignment(c, v)
    PROVE  JobsStill
BY StartedStill, UnchangedStill
   DEF LeaseTrainingAssignment, LeaseWithoutJob, ExpireAssignments, LeaseFromJob, LeaseReused,
       LeaseRefused, LeaseIssued

(* Only an administrator and the end of a SubmitWeights change more. *)
LEMMA JobsStillNext ==
    ASSUME CoreInv, CoreInv', [Next]_vars, ~SubmitAdvance,
           ~\E spec \in JobSpecs : AdminCreateTrainingJob(spec)
    PROVE  JobsStill
<1>1. CASE UNCHANGED jobs
    BY <1>1, UnchangedStill
<1>2. CASE ConfigLease
    BY <1>2, LeaseStill DEF ConfigLease
<1>3. CASE SubmitStep
    BY <1>1, <1>3
       DEF SubmitStep, SubmitReadJob, SubmitValidate, SubmitCheckRound, SubmitWait,
           SubmitNotAggregated, SubmitOpenCheckpoint, SubmitWriteCheckpoint, SubmitNotWritten,
           SubmitRecordModel, SubmitAccept, ValidateTrainingAssignmentSubmission,
           ExpireAssignments, RecordWeightSubmission, RecordAggregatedModel,
           AcceptTrainingAssignmentSubmission, AcceptedSubmission, UnacceptedSubmission,
           storeVars
<1>4. CASE \/ \E c \in Clients : ConfigReadVersion(c)
           \/ \E req \in Requests, tensor \in Tensors : SubmitReadVersion(req, tensor)
    BY <1>1, <1>4 DEF ConfigReadVersion, SubmitReadVersion, storeVars
<1>5. ASSUME NEW w \in Workers, RegisterWorker(w) \/ TaskStep(w) PROVE JobsStill
    <2>1. CASE TaskLeaseRefused(w) \/ \E a \in 1 .. MaxAssignments : TaskLeaseGranted(w, a)
        <3>1. LeaseTrainingAssignment(TrainerOf[w], lease[w].version)
            BY <2>1 DEF TaskLeaseRefused, TaskLeaseGranted, LeaseTrainingAssignment,
                        LeaseFromJob, LeaseReused, HeldLeases
        <3> QED
            BY <3>1, LeaseStill
    <2> QED
        BY <1>1, <1>5, <2>1
           DEF RegisterWorker, UpsertWorker, TaskStep, TaskReadVersion, TaskLease,
               LeaseWorkerTask, storeVars
<1>6. ASSUME NEW w, NEW t, NEW s, ReportTaskStatus(w, t, s) \/ Heartbeat(w, t) PROVE JobsStill
    BY <1>1, <1>6
       DEF ReportTaskStatus, UpdateWorkerTaskStatus, Heartbeat, RecordWorkerHeartbeat
<1>7. ASSUME NEW m, NEW v, RollbackActivate(m, v) PROVE JobsStill
    BY <1>1, <1>7 DEF RollbackActivate, RollbackModel
<1>8. ASSUME NEW m, RollbackStep(m) PROVE JobsStill
    BY <1>1, <1>8 DEF RollbackStep, RollbackRead, RollbackUnreadable, RollbackRestore, storeVars
<1>9. CASE TimePasses \/ Restart \/ UNCHANGED vars
    BY <1>1, <1>9 DEF TimePasses, LeaseRunsOut, Restart, Reload, ExpireAssignments, vars,
                      storeVars
<1> QED
    BY <1>2, <1>3, <1>4, <1>5, <1>6, <1>7, <1>8, <1>9 DEF Next

(* An active job was active before, in the same round. *)
LEMMA ActiveJobStill ==
    ASSUME CoreInv, CoreInv', JobsStill, HasActiveJob'
    PROVE  /\ HasActiveJob /\ ActiveJob' = ActiveJob /\ ActiveJob \in DOMAIN jobs
           /\ jobs'[ActiveJob'].round = jobs[ActiveJob].round
<1>1. ActiveJobs' # {} /\ ActiveJobs' \subseteq ActiveJobs
    BY DEF HasActiveJob, ActiveJobs, JobsStill, IsActiveJobStatus
<1>2. HasActiveJob
    BY <1>1 DEF HasActiveJob
<1>3. ActiveJobs' = {Len(jobs')} /\ Len(jobs') \in Nat
    BY <1>1, SeqIsFunction DEF CoreInv, OnlyNewestJobActive, StoreTypeOK
<1>4. ActiveJob' = Len(jobs')
    BY <1>3 DEF ActiveJob
<1> QED
    BY <1>2, <1>4, ActiveJobIsNewest DEF CoreInv, JobsStill

LEMMA HeldCurrentNext ==
    ASSUME CoreInv, [StoreNext]_storeVars, JobsStill, HeldCurrent
    PROVE  HeldCurrent'
<1>1. \A i \in DOMAIN assignments : assignments[i].job \in DOMAIN jobs
    BY DEF CoreInv, StoreTypeOK
<1>2. CASE AssignmentsKept
    BY <1>1, <1>2 DEF HeldCurrent, AssignmentsKept, SameLease, JobsStill
<1>3. ASSUME NEW c \in Clients, NEW v \in 0 .. Len(models), LeaseIssued(c, v)
      PROVE  HeldCurrent'
    <2>1. ASSUME NEW i \in DOMAIN assignments, Held(i)'
          PROVE  assignments'[i].round = jobs'[assignments'[i].job].round
        <3>1. Held(i) /\ assignments'[i] = assignments[i]
            BY <1>3, <2>1, LeaseIssuedHeld DEF Live, Held
        <3> QED
            BY <1>1, <3>1 DEF HeldCurrent, JobsStill
    <2>2. ActiveJob \in DOMAIN jobs
        BY <1>3, ActiveJobIsNewest DEF LeaseIssued, CoreInv
    <2>3. assignments'[Len(assignments) + 1].round
              = jobs'[assignments'[Len(assignments) + 1].job].round
        BY <1>3, <2>2, LeaseIssuedShape DEF JobsStill
    <2> QED
        BY <1>3, <2>1, <2>3, LeaseIssuedShape DEF HeldCurrent
<1> QED
    BY <1>2, <1>3, OnlyIssueAddsAssignments

(* What a step that leaves the jobs' rounds alone has to keep. *)
LEMMA JobInvStill ==
    ASSUME ServerInv, JobInv, [Next]_vars, JobsStill,
           Len(jobs) <= 1 =>
               /\ call'.at \notin {"idle", "config", "job"} /\ call'.scheduled => jobs # <<>>
               /\ call'.at \in {"validate", "accept", "advance"} => call'.scheduled
               /\ call'.at = "advance" /\ HasActiveJob =>
                      call'.req.round = jobs[ActiveJob].round
    PROVE  JobInv'
<1> SUFFICES ASSUME Len(jobs) <= 1
             PROVE  /\ JobRoundsInStep' /\ HeldCurrent'
                    /\ call'.at \notin {"idle", "config", "job"} /\ call'.scheduled
                           => jobs' # <<>>
                    /\ call'.at \in {"validate", "accept", "advance"} => call'.scheduled
                    /\ call'.at = "advance" /\ HasActiveJob'
                           => call'.req.round = jobs'[ActiveJob'].round
    BY DEF JobInv, JobsStill, At
<1>1. CoreInv /\ CoreInv' /\ [StoreNext]_storeVars
    BY StoreAllowed, StoreMoves DEF ServerInv, StoreMoved
<1>2. JobRoundsInStep'
    BY DEF JobInv, JobRoundsInStep, JobsStill
<1>3. HeldCurrent'
    BY <1>1, HeldCurrentNext DEF JobInv
<1>4. call'.at \notin {"idle", "config", "job"} /\ call'.scheduled => jobs' # <<>>
    <2>1. jobs' # <<>> <=> jobs # <<>>
        BY <1>1, CoreTypes DEF JobsStill, CoreInv, StoreTypeOK
    <2> QED
        BY <2>1 DEF JobInv, At
<1>5. HasActiveJob' => /\ HasActiveJob /\ ActiveJob' = ActiveJob
                       /\ jobs'[ActiveJob'].round = jobs[ActiveJob].round
    BY <1>1, ActiveJobStill
<1> QED
    BY <1>2, <1>3, <1>4, <1>5

(* The steps of SubmitWeights that take its job into account *)
LEMMA CallJob ==
    ASSUME AnswerInv, JobInv, CallStep, ~SubmitAdvance, Len(jobs) <= 1
    PROVE  /\ call'.at \notin {"idle", "config", "job"} /\ call'.scheduled => jobs # <<>>
           /\ call'.at \in {"validate", "accept", "advance"} => call'.scheduled
           /\ call'.at = "advance" /\ HasActiveJob =>
                  call'.req.round = jobs[ActiveJob].round
<1>0. /\ IdleCall.at = "idle" /\ call \in CallRecord /\ CoreInv
      /\ call.at \notin {"idle", "config", "job"} /\ call.scheduled => jobs # <<>>
      /\ call.at \in {"validate", "accept", "advance"} => call.scheduled
    BY DEF IdleCall, AnswerInv, ServerInv, CallInv, JobInv, At
<1>1. CASE call'.at \in {"idle", "config", "job"}
    BY <1>1
<1>2. CASE SubmitReadJob
    <2>1. /\ call'.at = IF HasActiveJob THEN "validate" ELSE "check"
          /\ call'.scheduled = HasActiveJob
        BY <1>0, <1>2 DEF SubmitReadJob, CallRecord
    <2>2. HasActiveJob => jobs # <<>>
        BY DEF HasActiveJob, ActiveJobs
    <2> QED
        BY <2>1, <2>2
<1>3. ASSUME call'.scheduled = call.scheduled, call.at \notin {"idle", "config", "job"},
             call'.at \in {"check", "add", "write", "record"}
      PROVE  /\ call'.scheduled => jobs # <<>>
             /\ call'.at \notin {"validate", "accept", "advance"}
    BY <1>0, <1>3
<1>4. CASE SubmitValidate \/ SubmitCheckRound \/ SubmitOpenCheckpoint \/ SubmitWriteCheckpoint
    <2>1. \/ call' = IdleCall
          \/ /\ call'.scheduled = call.scheduled /\ call.at \notin {"idle", "config", "job"}
             /\ call'.at \in {"check", "add", "write", "record"}
        BY <1>0, <1>4
           DEF SubmitValidate, SubmitCheckRound, SubmitOpenCheckpoint, SubmitWriteCheckpoint,
               Answer, At, CallRecord
    <2> QED
        BY <1>0, <1>1, <1>3, <2>1
<1>5. CASE SubmitWait \/ SubmitRecordModel
    <2>1. \/ call' = IdleCall
          \/ /\ call.scheduled /\ call'.scheduled = call.scheduled
             /\ call.at \notin {"idle", "config", "job"} /\ call'.at = "accept"
        BY <1>0, <1>5 DEF SubmitWait, SubmitRecordModel, AfterBuffer, Answer, At, CallRecord
    <2> QED
        BY <1>0, <1>1, <2>1
<1>6. CASE SubmitNotAggregated \/ SubmitNotWritten \/ ConfigLease
    BY <1>0, <1>1, <1>6 DEF SubmitNotAggregated, SubmitNotWritten, ConfigLease, Answer
<1>7. CASE SubmitAccept
    <2>1. CASE call' = IdleCall
        BY <1>0, <1>1, <2>1
    <2>2. CASE /\ call' = [call EXCEPT !.at = "advance"]
               /\ HasActiveJob => Submittable(call.req)
        <3>1. /\ call.at = "accept" /\ call'.at = "advance" /\ call'.req = call.req
              /\ call'.scheduled = call.scheduled
            BY <1>0, <1>7, <2>2 DEF SubmitAccept, At, CallRecord
        <3>2. ASSUME HasActiveJob PROVE call.req.round = jobs[ActiveJob].round
            <4>1. /\ call.req.asg \in DOMAIN assignments /\ Held(call.req.asg)
                  /\ assignments[call.req.asg].round = call.req.round
                BY <2>2, <3>2 DEF Submittable, Live, Held
            <4>2. assignments[call.req.asg].job \in DOMAIN jobs
                BY <1>0, <4>1 DEF CoreInv, StoreTypeOK
            <4>3. Len(jobs) \in Nat /\ DOMAIN jobs = 1 .. Len(jobs) /\ ActiveJob = Len(jobs)
                BY <1>0, <3>2, CoreTypes, ActiveJobIsNewest DEF CoreInv
            <4>4. assignments[call.req.asg].job = ActiveJob
                BY <4>2, <4>3
            <4> QED
                BY <4>1, <4>4 DEF JobInv, HeldCurrent
        <3> QED
            BY <1>0, <3>1, <3>2
    <2> QED
        BY <1>7, <2>1, <2>2 DEF SubmitAccept, Answer
<1>8. ASSUME NEW c, ConfigReadVersion(c) PROVE call'.at = "config"
    BY <1>8 DEF ConfigReadVersion, IdleCall
<1>9. ASSUME NEW req, NEW tensor, SubmitReadVersion(req, tensor)
      PROVE  call'.at \in {"idle", "job"}
    <2>1. [IdleCall EXCEPT !.at = "job", !.req = req, !.tensor = tensor,
                           !.version = ActiveModelVersion].at = "job"
        BY DEF IdleCall
    <2>2. \/ call' = IdleCall
          \/ call' = [IdleCall EXCEPT !.at = "job", !.req = req, !.tensor = tensor,
                                      !.version = ActiveModelVersion]
        BY <1>9 DEF SubmitReadVersion, Answer
    <2> QED
        BY <1>0, <2>1, <2>2
<1> QED
    BY <1>1, <1>2, <1>4, <1>5, <1>6, <1>7, <1>8, <1>9 DEF CallStep, SubmitStep

LEMMA AdvanceJob ==
    ASSUME AnswerInv, JobInv, SubmitAdvance, CoreInv', Len(jobs') <= 1
    PROVE  /\ Len(jobs) <= 1 /\ JobRoundsInStep' /\ HeldCurrent'
<1> DEFINE j == ActiveJob
           r == call.req.round
<1>0. CoreInv /\ AdvanceTrainingJobRound(r, call.version) /\ At("advance")
    BY DEF SubmitAdvance, AnswerInv, ServerInv
<1>1. CASE ~HasActiveJob
    <2>1. UNCHANGED storeVars
        BY <1>0, <1>1 DEF AdvanceTrainingJobRound
    <2> QED
        BY <2>1 DEF storeVars, JobInv, JobRoundsInStep, HeldCurrent, Held
<1>2. CASE HasActiveJob
    <2>1. /\ jobs' = [jobs EXCEPT ![j] = ClosedJob(j, r, call.version)]
          /\ assignments' = [i \in DOMAIN assignments |->
                IF i \in RoundAssignments(j, r)
                THEN [assignments[i] EXCEPT !.status = ClosedAssignmentStatus(@)]
                ELSE assignments[i]]
        BY <1>0, <1>2 DEF AdvanceTrainingJobRound
    <2>2. /\ Len(jobs) \in Nat /\ DOMAIN jobs = 1 .. Len(jobs) /\ j = Len(jobs)
          /\ j \in DOMAIN jobs /\ jobs[j] \in Job
        BY <1>0, <1>2, CoreTypes, ActiveJobIsNewest DEF CoreInv
    <2>3. DOMAIN jobs' = DOMAIN jobs /\ Len(jobs') = Len(jobs)
        <3>1. DOMAIN jobs' = DOMAIN jobs
            BY <2>1
        <3>2. Len(jobs') \in Nat /\ DOMAIN jobs' = 1 .. Len(jobs')
            BY SeqIsFunction DEF CoreInv, StoreTypeOK
        <3> QED
            BY <2>2, <3>1, <3>2
    <2>4. Len(jobs) <= 1 /\ DOMAIN jobs = {j}
        BY <2>2, <2>3
    <2>5. r = jobs[j].round /\ jobs[j].round = jobs[j].completed + 1
        BY <1>0, <1>2, <2>2, <2>4 DEF JobInv, JobRoundsInStep
    <2>6. jobs'[j] = ClosedJob(j, r, call.version)
        BY <2>1, <2>2
    <2>7. JobRoundsInStep'
        <3>1. ClosedJob(j, r, call.version).round = r + 1
              /\ ClosedJob(j, r, call.version).completed = jobs[j].completed + 1
            BY <2>2 DEF ClosedJob, Job
        <3> HIDE DEF j, r
        <3> QED
            BY <2>3, <2>4, <2>5, <2>6, <3>1 DEF JobRoundsInStep
    <2>8. ASSUME NEW i \in DOMAIN assignments PROVE ~Held(i)'
        <3>1. assignments[i] \in Assignment /\ assignments[i].job = j
            BY <1>0, <2>4, CoreTypes DEF CoreInv, StoreTypeOK
        <3>2. CASE assignments[i].status = "leased"
            <4>1. assignments[i].round = jobs[j].round
                BY <2>4, <3>1, <3>2 DEF JobInv, HeldCurrent, Held
            <4>2. i \in RoundAssignments(j, r)
                BY <2>5, <3>1, <4>1 DEF RoundAssignments
            <4>3. assignments'[i] = [assignments[i] EXCEPT !.status =
                                         ClosedAssignmentStatus(assignments[i].status)]
                BY <2>1, <4>2
            <4> QED
                BY <3>1, <3>2, <4>3 DEF Held, ClosedAssignmentStatus, Assignment
        <3>3. CASE assignments[i].status # "leased"
            <4>1. \/ assignments'[i] = assignments[i]
                  \/ assignments'[i] = [assignments[i] EXCEPT !.status =
                                            ClosedAssignmentStatus(assignments[i].status)]
                BY <2>1
            <4> QED
                BY <3>1, <3>3, <4>1 DEF Held, ClosedAssignmentStatus, Assignment
        <3> QED
            BY <3>2, <3>3
    <2>9. DOMAIN assignments' = DOMAIN assignments
        BY <2>1
    <2> QED
        BY <2>4, <2>7, <2>8, <2>9 DEF HeldCurrent
<1> QED
    BY <1>1, <1>2

LEMMA CreateJob ==
    ASSUME ServerInv, JobInv, CoreInv', NEW spec \in JobSpecs, AdminCreateTrainingJob(spec)
    PROVE  JobInv'
<1> SUFFICES ASSUME Len(jobs') <= 1 PROVE JobInv'
    BY DEF JobInv
<1>0. CoreInv /\ CreateTrainingJob(spec) /\ call' = call
    BY DEF AdminCreateTrainingJob, ServerInv, callVars
<1> DEFINE old == [j \in DOMAIN jobs |-> IF j \in ActiveJobs
                                         THEN [jobs[j] EXCEPT !.status = "superseded"]
                                         ELSE jobs[j]]
<1>1. /\ jobs' = Append(old, NewJob(spec)) /\ UNCHANGED assignments
      /\ Len(old) = Len(jobs) /\ DOMAIN old = DOMAIN jobs /\ old \in Seq(Job)
    <2>1. old \in [1 .. Len(jobs) -> Job]
        BY <1>0, CoreTypes DEF Job, JobStatus
    <2>2. old \in Seq(Job) /\ Len(old) = Len(jobs) /\ DOMAIN old = DOMAIN jobs
        BY <1>0, <2>1, FunctionIsSeq, CoreTypes
    <2> QED
        BY <1>0, <2>2 DEF CreateTrainingJob
<1>2. Len(jobs) \in Nat /\ DOMAIN jobs = 1 .. Len(jobs)
    BY <1>0, CoreTypes
<1> HIDE DEF old
<1>3. /\ Len(jobs') = Len(jobs) + 1 /\ DOMAIN jobs' = 1 .. Len(jobs) + 1
      /\ jobs'[Len(jobs) + 1] = NewJob(spec)
    BY <1>1, <1>2
<1>4. Len(jobs) = 0 /\ DOMAIN jobs = {} /\ jobs = <<>> /\ Len(jobs) <= 1
    BY <1>0, <1>2, <1>3 DEF CoreInv, StoreTypeOK
<1>5. NewJob(spec).round = 1 /\ NewJob(spec).completed = 0
    BY DEF NewJob
<1>6. JobRoundsInStep'
    <2>1. DOMAIN jobs' = {1} /\ jobs'[1] = NewJob(spec)
        BY <1>3, <1>4
    <2> QED
        BY <1>5, <2>1 DEF JobRoundsInStep
<1>7. HeldCurrent'
    <2>1. DOMAIN assignments = {}
        BY <1>0, <1>4 DEF CoreInv, StoreTypeOK
    <2> QED
        BY <1>1, <2>1 DEF HeldCurrent
<1>8. At("idle") \/ At("config") \/ At("job") \/ ~call.scheduled
    BY <1>4 DEF JobInv
<1>9. ~At("advance") /\ (At("validate") \/ At("accept") => call.scheduled)
    BY <1>4, <1>8 DEF JobInv, At
<1> QED
    BY <1>0, <1>6, <1>7, <1>8, <1>9 DEF JobInv, At

LEMMA JobInvNext ==
    ASSUME AnswerInv, JobInv, [Next]_vars
    PROVE  JobInv'
<1>1. CoreInv /\ CoreInv' /\ ServerInv
    BY StoreMoves DEF AnswerInv, ServerInv, StoreMoved
<1>2. ASSUME NEW spec \in JobSpecs, AdminCreateTrainingJob(spec) PROVE JobInv'
    BY <1>1, <1>2, CreateJob
<1>3. CASE SubmitAdvance
    <2>1. call'.at = "idle"
        BY <1>3 DEF SubmitAdvance, Answer, IdleCall
    <2> QED
        BY <1>1, <1>3, <2>1, AdvanceJob DEF JobInv, At
<1>4. CASE ~SubmitAdvance /\ ~\E spec \in JobSpecs : AdminCreateTrainingJob(spec)
    <2>1. JobsStill
        BY <1>1, <1>4, JobsStillNext
    <2>2. CASE CallStep
        BY <1>1, <1>4, <2>1, <2>2, CallJob, JobInvStill
    <2>3. CASE Restart
        <3>1. call'.at = "idle"
            BY <2>3, RestartFrame DEF IdleCall
        <3> QED
            BY <1>1, <2>1, <3>1, JobInvStill
    <2>4. CASE OtherStep \/ UNCHANGED vars
        <3>1. call' = call
            BY <2>4, OtherStepFrame
        <3> QED
            BY <1>1, <2>1, <3>1, JobInvStill DEF JobInv, At
    <2> QED
        BY <2>2, <2>3, <2>4, NextSteps
<1> QED
    BY <1>2, <1>3, <1>4

LEMMA JobInit == Init => JobInv
<1> SUFFICES ASSUME Init PROVE JobInv
    OBVIOUS
<1>1. DOMAIN jobs = {} /\ DOMAIN assignments = {} /\ call.at = "idle"
    BY DEF Init, StoreInit, IdleCall
<1> QED
    BY <1>1 DEF JobInv, JobRoundsInStep, HeldCurrent, At

(* As long as a scope has had one job, that job reports as completed the   *)
(* rounds it ran: whenever a submission closes a round, after any lapse of *)
(* leases, crash or restart, it is the round the job is in.                *)
THEOREM JobRoundsInStepHolds == Spec => [](Len(jobs) <= 1 => JobRoundsInStep)
<1>1. Init => JobInv
    BY JobInit
<1>2. AnswerInv /\ JobInv /\ [Next]_vars => JobInv'
    BY JobInvNext
<1>3. JobInv => (Len(jobs) <= 1 => JobRoundsInStep)
    BY DEF JobInv
<1> QED
    BY <1>1, <1>2, <1>3, AnswerInvariant, PTL DEF Spec

-----------------------------------------------------------------------------
(* The round of a scope's only job is open *)

NoneRanOut == \A i \in DOMAIN assignments : ~assignments[i].due

ValidatedSteps == {"check", "add", "write", "record", "accept"}
USE DEF ValidatedSteps

(* Between Validate and Accept a submission stays the one its round waits  *)
(* for; so a round that is complete in the buffer is closed in the store.  *)
RoundInv ==
    Len(jobs) <= 1 /\ NoneRanOut =>
        /\ jobs = <<>> => completedRounds = {}
        /\ HasActiveJob /\ call.at \in ValidatedSteps =>
               call.scheduled /\ Submittable(call.req)
        /\ HasActiveJob => \A r \in completedRounds :
               \/ r < jobs[ActiveJob].round
               \/ /\ r = jobs[ActiveJob].round
                  /\ \/ At("advance")
                     \/ At("accept") /\ call.aggregated

(* Assignments are as they were, but for new ones. *)
AssignmentsStill ==
    /\ NoneRanOut
    /\ \A i \in DOMAIN assignments : i \in DOMAIN assignments' /\ assignments'[i] = assignments[i]

LEMMA ExpiryStill ==
    ASSUME CoreInv, NoneRanOut', DOMAIN assignments \subseteq DOMAIN assignments',
           \A i \in DOMAIN assignments : assignments'[i] = Expired[i]
    PROVE  AssignmentsStill
<1>1. NoneRanOut
    BY ExpiryTypes DEF NoneRanOut
<1>2. Overdue = {}
    BY <1>1 DEF NoneRanOut, Overdue
<1> QED
    BY <1>1, <1>2, ExpiryTypes DEF AssignmentsStill

LEMMA ExpireStill ==
    ASSUME CoreInv, NoneRanOut', assignments' = Expired
    PROVE  AssignmentsStill
BY ExpiryStill, ExpiryTypes

LEMMA LeaseAssignmentsStill ==
    ASSUME CoreInv, NoneRanOut', NEW c, NEW v, LeaseTrainingAssignment(c, v)
    PROVE  AssignmentsStill
<1>1. CASE LeaseWithoutJob \/ LeaseRefused(c) \/ \E a \in DOMAIN assignments : LeaseReused(c, a)
    BY <1>1, ExpireStill DEF LeaseWithoutJob, ExpireAssignments, LeaseRefused, LeaseReused
<1>2. CASE LeaseIssued(c, v)
    BY <1>2, LeaseIssuedShape, ExpiryStill
<1> QED
    BY <1>1, <1>2 DEF LeaseTrainingAssignment, LeaseFromJob

(* As long as no lease runs out, only a submission's own last steps change *)
(* an assignment.                                                          *)
LEMMA AssignmentsStillNext ==
    ASSUME CoreInv, [Next]_vars, NoneRanOut', ~SubmitAccept, ~SubmitAdvance
    PROVE  AssignmentsStill
<1>1. CASE UNCHANGED assignments
    BY <1>1 DEF AssignmentsStill, NoneRanOut
<1>2. CASE ConfigLease
    BY <1>2, LeaseAssignmentsStill DEF ConfigLease
<1>3. CASE SubmitStep
    BY <1>1, <1>3, ExpireStill
       DEF SubmitStep, SubmitReadJob, SubmitValidate, SubmitCheckRound, SubmitWait,
           SubmitNotAggregated, SubmitOpenCheckpoint, SubmitWriteCheckpoint, SubmitNotWritten,
           SubmitRecordModel, ValidateTrainingAssignmentSubmission, ExpireAssignments,
           RecordWeightSubmission, RecordAggregatedModel, storeVars
<1>4. CASE \/ \E c \in Clients : ConfigReadVersion(c)
           \/ \E req \in Requests, tensor \in Tensors : SubmitReadVersion(req, tensor)
    BY <1>1, <1>4 DEF ConfigReadVersion, SubmitReadVersion, storeVars
<1>5. ASSUME NEW w \in Workers, RegisterWorker(w) \/ TaskStep(w) PROVE AssignmentsStill
    <2>1. CASE TaskLeaseRefused(w) \/ \E a \in 1 .. MaxAssignments : TaskLeaseGranted(w, a)
        <3>1. LeaseTrainingAssignment(TrainerOf[w], lease[w].version)
            BY <2>1 DEF TaskLeaseRefused, TaskLeaseGranted, LeaseTrainingAssignment,
                        LeaseFromJob, LeaseReused, HeldLeases
        <3> QED
            BY <3>1, LeaseAssignmentsStill
    <2> QED
        BY <1>1, <1>5, <2>1
           DEF RegisterWorker, UpsertWorker, TaskStep, TaskReadVersion, TaskLease,
               LeaseWorkerTask, storeVars
<1>6. ASSUME NEW w, NEW t, NEW s, ReportTaskStatus(w, t, s) \/ Heartbeat(w, t)
      PROVE  AssignmentsStill
    BY <1>1, <1>6
       DEF ReportTaskStatus, UpdateWorkerTaskStatus, Heartbeat, RecordWorkerHeartbeat
<1>7. ASSUME NEW m, NEW v, RollbackActivate(m, v) PROVE AssignmentsStill
    BY <1>1, <1>7 DEF RollbackActivate, RollbackModel
<1>8. ASSUME NEW m, RollbackStep(m) PROVE AssignmentsStill
    BY <1>1, <1>8 DEF RollbackStep, RollbackRead, RollbackUnreadable, RollbackRestore, storeVars
<1>9. ASSUME NEW spec, AdminCreateTrainingJob(spec) PROVE AssignmentsStill
    BY <1>1, <1>9 DEF AdminCreateTrainingJob, CreateTrainingJob
<1>10. ASSUME NEW i \in DOMAIN assignments, LeaseRunsOut(i) PROVE FALSE
    <2>1. assignments' = [assignments EXCEPT ![i].due = TRUE] /\ assignments[i] \in Assignment
        BY <1>10, CoreTypes DEF LeaseRunsOut
    <2> QED
        BY <1>10, <2>1 DEF NoneRanOut, Assignment
<1>11. CASE Restart
    BY <1>11, ExpireStill DEF Restart, Reload, ExpireAssignments
<1>12. CASE UNCHANGED vars
    BY <1>1, <1>12 DEF vars, storeVars
<1> QED
    BY <1>2, <1>3, <1>4, <1>5, <1>6, <1>7, <1>8, <1>9, <1>10, <1>11, <1>12 DEF Next, TimePasses

LEMMA SubmittableStill ==
    ASSUME AssignmentsStill, NEW req, Submittable(req), ActiveJob' = ActiveJob
    PROVE  Submittable(req)'
BY DEF AssignmentsStill, Submittable, Live

(* Without ad hoc rounds there is a job by the time there is a submission. *)
LEMMA SubmissionHasJob ==
    ASSUME ServerInv, AdHocRounds = {}, ~At("idle"), ~At("config")
    PROVE  jobs # <<>>
<1>1. call.req \in Requests /\ CoreInv
    BY DEF ServerInv, CallInv
<1>2. PICK i \in DOMAIN assignments : call.req = AssignedRequest(i)
    BY <1>1 DEF Requests
<1>3. assignments[i].job \in DOMAIN jobs
    BY <1>1 DEF CoreInv, StoreTypeOK
<1> QED
    BY <1>3

(* Steps that record no model and decide over no assignment *)
LEMMA RoundStill ==
    ASSUME CoreInv, CoreInv', RoundInv, JobsStill, NoneRanOut' => AssignmentsStill,
           completedRounds' \subseteq completedRounds,
           Len(jobs) <= 1 /\ NoneRanOut /\ HasActiveJob /\ call'.at \in ValidatedSteps =>
               call'.scheduled /\ Submittable(call'.req),
           At("advance") \/ (At("accept") /\ call.aggregated) =>
               call' = call \/ completedRounds' = {}
    PROVE  RoundInv'
<1> SUFFICES ASSUME Len(jobs) <= 1, NoneRanOut'
             PROVE  /\ jobs' = <<>> => completedRounds' = {}
                    /\ HasActiveJob' /\ call'.at \in ValidatedSteps =>
                           call'.scheduled /\ Submittable(call.req)'
                    /\ HasActiveJob' => \A r \in completedRounds' :
                           \/ r < jobs'[ActiveJob'].round
                           \/ /\ r = jobs'[ActiveJob'].round
                              /\ call'.at = "advance"
                                 \/ (call'.at = "accept" /\ call'.aggregated)
    BY DEF RoundInv, JobsStill, At
<1>1. AssignmentsStill /\ NoneRanOut
    BY DEF AssignmentsStill
<1>2. jobs' = <<>> => completedRounds' = {}
    <2>1. jobs' = <<>> => jobs = <<>>
        BY CoreTypes DEF JobsStill, CoreInv, StoreTypeOK
    <2> QED
        BY <1>1, <2>1 DEF RoundInv
<1>3. HasActiveJob' => /\ HasActiveJob /\ ActiveJob' = ActiveJob
                       /\ jobs'[ActiveJob'].round = jobs[ActiveJob].round
    BY ActiveJobStill
<1>4. ASSUME HasActiveJob', call'.at \in ValidatedSteps
      PROVE  call'.scheduled /\ Submittable(call.req)'
    <2>1. call'.scheduled /\ Submittable(call'.req)
        BY <1>1, <1>3, <1>4
    <2> QED
        BY <1>1, <1>3, <1>4, <2>1 DEF AssignmentsStill, Submittable, Live
<1> QED
    BY <1>1, <1>2, <1>3, <1>4 DEF RoundInv, At

(* The round becomes complete in the buffer ... *)
LEMMA RecordRound ==
    ASSUME AnswerInv, JobInv, RoundInv, CoreInv', AdHocRounds = {}, SubmitRecordModel
    PROVE  RoundInv'
<1> DEFINE r == call.req.round
<1>1. /\ ServerInv /\ CoreInv /\ call \in CallRecord /\ call.at = "record"
      /\ UNCHANGED <<jobs, assignments>>
      /\ completedRounds' = completedRounds \union {r}
    BY DEF AnswerInv, ServerInv, CallInv, SubmitRecordModel, RecordAggregatedModel,
           AggregatePublished, At
<1>2. jobs # <<>>
    BY <1>1, SubmissionHasJob DEF At
<1> SUFFICES ASSUME Len(jobs) <= 1, NoneRanOut, HasActiveJob
             PROVE  /\ call'.at \in ValidatedSteps =>
                           call'.scheduled /\ Submittable(call'.req)
                    /\ \A q \in completedRounds' :
                           \/ q < jobs[ActiveJob].round
                           \/ /\ q = jobs[ActiveJob].round
                              /\ call'.at = "accept" /\ call'.aggregated
    BY <1>1, <1>2 DEF RoundInv, NoneRanOut, HasActiveJob, ActiveJob, ActiveJobs, Submittable,
                      Live, At
<1>3. call.scheduled /\ Submittable(call.req)
    BY <1>1 DEF RoundInv
<1>4. /\ call'.at = "accept" /\ call'.aggregated /\ call'.req = call.req
      /\ call'.scheduled
    BY <1>1, <1>3 DEF SubmitRecordModel, AfterBuffer, CallRecord
<1>5. r = jobs[ActiveJob].round
    <2>1. /\ call.req.asg \in DOMAIN assignments /\ Held(call.req.asg)
          /\ assignments[call.req.asg].round = r
        BY <1>3 DEF Submittable, Live, Held
    <2>2. assignments[call.req.asg].job \in DOMAIN jobs
        BY <1>1, <2>1 DEF CoreInv, StoreTypeOK
    <2>3. Len(jobs) \in Nat /\ DOMAIN jobs = 1 .. Len(jobs) /\ ActiveJob = Len(jobs)
        BY <1>1, CoreTypes, ActiveJobIsNewest DEF CoreInv
    <2>4. assignments[call.req.asg].job = ActiveJob
        BY <2>2, <2>3
    <2> QED
        BY <2>1, <2>4 DEF JobInv, HeldCurrent
<1>6. \A q \in completedRounds : q < jobs[ActiveJob].round
    BY <1>1 DEF RoundInv, At
<1> QED
    BY <1>1, <1>3, <1>4, <1>5, <1>6

(* ... the store accepts the submission that completed it ... *)
LEMMA AcceptRound ==
    ASSUME CoreInv, RoundInv, call \in CallRecord, SubmitAccept
    PROVE  RoundInv'
<1>1. /\ call.at = "accept" /\ AcceptTrainingAssignmentSubmission(call.req)
      /\ UNCHANGED <<jobs, completedRounds>>
    BY DEF SubmitAccept, At, AcceptTrainingAssignmentSubmission, AcceptedSubmission,
           UnacceptedSubmission, ExpireAssignments, bufferVars
<1>2. NoneRanOut' => NoneRanOut
    <2>1. /\ Expired \in [1 .. Len(assignments) -> Assignment]
          /\ DOMAIN assignments = 1 .. Len(assignments)
        BY ExpiryTypes, SeqIsFunction
    <2>2. \/ assignments' = Expired
          \/ assignments' = [Expired EXCEPT ![call.req.asg].status = "submitted"]
        BY <1>1 DEF AcceptTrainingAssignmentSubmission, AcceptedSubmission,
                    UnacceptedSubmission, ExpireAssignments
    <2>3. DOMAIN assignments' = DOMAIN assignments
          /\ \A i \in DOMAIN assignments : assignments'[i].due = Expired[i].due
        BY <2>1, <2>2 DEF Assignment
    <2> QED
        BY <2>3, ExpiryTypes DEF NoneRanOut
<1>3. /\ call'.at \in {"idle", "advance"}
      /\ HasActiveJob /\ Submittable(call.req) /\ call.aggregated => call'.at = "advance"
    <2>1. IdleCall.at = "idle" /\ [call EXCEPT !.at = "advance"].at = "advance"
        BY DEF IdleCall, CallRecord
    <2> QED
        BY <1>1, <2>1 DEF SubmitAccept, Answer
<1> SUFFICES ASSUME Len(jobs) <= 1, NoneRanOut
             PROVE  /\ jobs = <<>> => completedRounds = {}
                    /\ HasActiveJob => \A r \in completedRounds :
                           \/ r < jobs[ActiveJob].round
                           \/ r = jobs[ActiveJob].round /\ call'.at = "advance"
    BY <1>1, <1>2, <1>3 DEF RoundInv, HasActiveJob, ActiveJob, ActiveJobs, At
<1> QED
    BY <1>1, <1>3 DEF RoundInv, At

(* ... and the job goes on with the next. *)
LEMMA AdvanceRound ==
    ASSUME AnswerInv, JobInv, RoundInv, CoreInv', SubmitAdvance
    PROVE  RoundInv'
<1> DEFINE j == ActiveJob
           r == call.req.round
<1>1. /\ CoreInv /\ AdvanceTrainingJobRound(r, call.version) /\ call.at = "advance"
      /\ completedRounds' = completedRounds /\ call'.at = "idle"
    BY DEF SubmitAdvance, AnswerInv, ServerInv, Answer, IdleCall, bufferVars, At
<1>2. CASE ~HasActiveJob
    <2>1. UNCHANGED storeVars
        BY <1>1, <1>2 DEF AdvanceTrainingJobRound
    <2> QED
        BY <1>1, <1>2, <2>1 DEF storeVars, RoundInv, NoneRanOut, HasActiveJob, ActiveJobs
<1>3. CASE HasActiveJob
    <2>1. /\ jobs' = [jobs EXCEPT ![j] = ClosedJob(j, r, call.version)]
          /\ assignments' = [i \in DOMAIN assignments |->
                IF i \in RoundAssignments(j, r)
                THEN [assignments[i] EXCEPT !.status = ClosedAssignmentStatus(@)]
                ELSE assignments[i]]
        BY <1>1, <1>3 DEF AdvanceTrainingJobRound
    <2>2. /\ Len(jobs) \in Nat /\ DOMAIN jobs = 1 .. Len(jobs) /\ j = Len(jobs)
          /\ j \in DOMAIN jobs /\ jobs[j] \in Job
        BY <1>1, <1>3, CoreTypes, ActiveJobIsNewest DEF CoreInv
    <2>3. DOMAIN jobs' = DOMAIN jobs /\ Len(jobs') = Len(jobs)
        <3>1. DOMAIN jobs' = DOMAIN jobs
            BY <2>1
        <3>2. Len(jobs') \in Nat /\ DOMAIN jobs' = 1 .. Len(jobs')
            BY SeqIsFunction DEF CoreInv, StoreTypeOK
        <3> QED
            BY <2>2, <3>1, <3>2
    <2>4. NoneRanOut' => NoneRanOut
        <3>1. \A i \in DOMAIN assignments : assignments[i] \in Assignment
            BY <1>1, CoreTypes
        <3>2. \A i \in DOMAIN assignments : assignments'[i].due = assignments[i].due
            BY <2>1, <3>1 DEF Assignment
        <3> QED
            BY <2>1, <3>2 DEF NoneRanOut
    <2>5. jobs'[j].round = r + 1
        <3>1. ClosedJob(j, r, call.version).round = r + 1
            BY <2>2 DEF ClosedJob, Job
        <3> QED
            BY <2>1, <2>2, <3>1
    <2>6. HasActiveJob' => ActiveJob' = j
        <3>1. HasActiveJob' => ActiveJob' = Len(jobs')
            BY ActiveJobIsNewest DEF CoreInv, OnlyNewestJobActive, HasActiveJob, ActiveJob
        <3> QED
            BY <2>2, <2>3, <3>1
    <2>7. jobs' # <<>>
        BY <2>2, <2>3
    <2> HIDE DEF j
    <2> SUFFICES ASSUME Len(jobs) <= 1, NoneRanOut
                 PROVE  \A q \in completedRounds : q < r + 1
        BY <1>1, <2>3, <2>4, <2>5, <2>6, <2>7 DEF RoundInv
    <2>8. r = jobs[j].round /\ r \in Nat
        BY <1>1, <1>3, <2>2 DEF JobInv, At, j, Job
    <2>9. \A q \in completedRounds : q < r \/ q = r
        BY <1>3, <2>8 DEF RoundInv, j
    <2>10. completedRounds \subseteq Nat
        BY RoundsAreNat DEF AnswerInv, ServerInv, BufferTypeOK
    <2> QED
        BY <2>8, <2>9, <2>10
<1> QED
    BY <1>2, <1>3

LEMMA CreateRound ==
    ASSUME ServerInv, RoundInv, CoreInv', AdHocRounds = {},
           NEW spec \in JobSpecs, AdminCreateTrainingJob(spec)
    PROVE  RoundInv'
<1> DEFINE old == [j \in DOMAIN jobs |-> IF j \in ActiveJobs
                                         THEN [jobs[j] EXCEPT !.status = "superseded"]
                                         ELSE jobs[j]]
<1>1. /\ CoreInv /\ UNCHANGED <<call, assignments, completedRounds>>
      /\ jobs' = Append(old, NewJob(spec))
    BY DEF ServerInv, AdminCreateTrainingJob, CreateTrainingJob, callVars, bufferVars
<1>2. Len(jobs) \in Nat /\ DOMAIN jobs = 1 .. Len(jobs) /\ DOMAIN old = 1 .. Len(jobs)
    BY <1>1, CoreTypes
<1>3. Len(jobs') = Len(jobs) + 1
    <2>1. old \in [1 .. Len(jobs) -> Job]
        BY <1>1, CoreTypes DEF Job, JobStatus
    <2>2. old \in Seq(Job) /\ Len(old) = Len(jobs)
        BY <1>2, <2>1, FunctionIsSeq
    <2> HIDE DEF old
    <2> QED
        BY <1>1, <2>2
<1> HIDE DEF old
<1> SUFFICES ASSUME Len(jobs') <= 1, NoneRanOut
             PROVE  /\ completedRounds = {}
                    /\ call.at \notin ValidatedSteps
    BY <1>1 DEF RoundInv, NoneRanOut
<1>4. jobs = <<>>
    BY <1>1, <1>2, <1>3 DEF CoreInv, StoreTypeOK
<1>5. Len(jobs) <= 1
    BY <1>4
<1> QED
    BY <1>4, <1>5, SubmissionHasJob DEF RoundInv, At

(* On its way to the store a submission keeps what Validate saw. *)
LEMMA OpenSteps ==
    ASSUME CoreInv, JobInv, RoundInv, call \in CallRecord, CallStep,
           ~SubmitAdvance, ~SubmitAccept, ~SubmitRecordModel,
           HasActiveJob, Len(jobs) <= 1, NoneRanOut,
           call'.at \in ValidatedSteps
    PROVE  call'.scheduled /\ Submittable(call'.req)
<1>0. IdleCall.at = "idle"
    BY DEF IdleCall
<1>1. ASSUME call.at \in ValidatedSteps,
             call'.scheduled = call.scheduled, call'.req = call.req
      PROVE  call'.scheduled /\ Submittable(call'.req)
    BY <1>1 DEF RoundInv
<1>2. CASE SubmitValidate
    <2>1. call' = [call EXCEPT !.at = "check"] /\ Submittable(call.req) /\ At("validate")
        BY <1>0, <1>2 DEF SubmitValidate, Answer
    <2> QED
        BY <2>1 DEF JobInv, CallRecord
<1>3. CASE SubmitCheckRound \/ SubmitOpenCheckpoint \/ SubmitWriteCheckpoint \/ SubmitWait
    <2>1. /\ call.at \in ValidatedSteps
          /\ call'.scheduled = call.scheduled /\ call'.req = call.req
        BY <1>0, <1>3
           DEF SubmitCheckRound, SubmitOpenCheckpoint, SubmitWriteCheckpoint, SubmitWait,
               AfterBuffer, Answer, At, CallRecord
    <2> QED
        BY <1>1, <2>1
<1>4. CASE SubmitReadJob
    BY <1>4 DEF SubmitReadJob, CallRecord
<1>5. CASE SubmitNotAggregated \/ SubmitNotWritten \/ ConfigLease
    BY <1>0, <1>5 DEF SubmitNotAggregated, SubmitNotWritten, ConfigLease, Answer
<1>6. ASSUME NEW c, ConfigReadVersion(c) PROVE FALSE
    BY <1>6 DEF ConfigReadVersion, IdleCall
<1>7. ASSUME NEW req, NEW tensor, SubmitReadVersion(req, tensor) PROVE FALSE
    <2>1. [IdleCall EXCEPT !.at = "job", !.req = req, !.tensor = tensor,
                           !.version = ActiveModelVersion].at = "job"
        BY DEF IdleCall
    <2> QED
        BY <1>0, <1>7, <2>1 DEF SubmitReadVersion, Answer
<1> QED
    BY <1>2, <1>3, <1>4, <1>5, <1>6, <1>7 DEF CallStep, SubmitStep

LEMMA RoundInvNext ==
    ASSUME AnswerInv, JobInv, RoundInv, AdHocRounds = {}, [Next]_vars
    PROVE  RoundInv'
<1>1. ServerInv /\ CoreInv /\ CoreInv' /\ call \in CallRecord
    BY StoreMoves DEF AnswerInv, ServerInv, StoreMoved, CallInv
<1>2. ASSUME NEW spec \in JobSpecs, AdminCreateTrainingJob(spec) PROVE RoundInv'
    BY <1>1, <1>2, CreateRound
<1>3. CASE SubmitAdvance
    BY <1>1, <1>3, AdvanceRound
<1>4. CASE SubmitAccept
    BY <1>1, <1>4, AcceptRound
<1>5. CASE SubmitRecordModel
    BY <1>1, <1>5, RecordRound
<1>6. CASE /\ ~SubmitAdvance /\ ~SubmitAccept /\ ~SubmitRecordModel
           /\ ~\E spec \in JobSpecs : AdminCreateTrainingJob(spec)
    <2>1. JobsStill /\ (NoneRanOut' => AssignmentsStill)
        BY <1>1, <1>6, JobsStillNext, AssignmentsStillNext
    <2>2. CASE Restart
        <3>1. call'.at = "idle" /\ completedRounds' = {}
            BY <2>2, RestartFrame DEF IdleCall, Restart, BufferRestarted
        <3> QED
            BY <1>1, <2>1, <3>1, RoundStill
    <2>3. CASE OtherStep \/ UNCHANGED vars
        <3>1. call' = call /\ completedRounds' = completedRounds
            BY <2>3, OtherStepFrame
        <3> QED
            BY <1>1, <2>1, <3>1, RoundStill DEF RoundInv
    <2>4. CASE CallStep
        <3>1. completedRounds' = completedRounds /\ ~At("accept") /\ ~At("advance")
            BY <1>6, <2>4
               DEF CallStep, ConfigReadVersion, ConfigLease, SubmitReadVersion, SubmitStep,
                   SubmitReadJob, SubmitValidate, SubmitCheckRound, SubmitWait,
                   SubmitNotAggregated, SubmitOpenCheckpoint, SubmitWriteCheckpoint,
                   SubmitNotWritten, WeightsWait, WeightsInvalid, CheckpointNotOpened,
                   CheckpointOpened, CheckpointWritten, CheckpointNotWritten, bufferVars, At
        <3>2. ASSUME HasActiveJob, Len(jobs) <= 1, NoneRanOut,
                     call'.at \in ValidatedSteps
              PROVE  call'.scheduled /\ Submittable(call'.req)
            BY <1>1, <1>6, <2>4, <3>2, OpenSteps
        <3> QED
            BY <1>1, <2>1, <3>1, <3>2, RoundStill
    <2> QED
        BY <2>2, <2>3, <2>4, NextSteps
<1> QED
    BY <1>2, <1>3, <1>4, <1>5, <1>6

(* Without expiry and ad hoc rounds, whatever crashes, rollbacks and       *)
(* workers do, a scope's only job always waits for a round that can still  *)
(* be submitted.                                                           *)
THEOREM ActiveRoundOpenHolds ==
    ASSUME AdHocRounds = {}
    PROVE  Spec => [](Len(jobs) <= 1 /\ NoneRanOut => ActiveRoundOpen)
<1>1. Init => RoundInv
    <2> SUFFICES ASSUME Init PROVE RoundInv
        OBVIOUS
    <2>1. completedRounds = {} /\ ~HasActiveJob
        BY DEF Init, StoreInit, BufferInit, HasActiveJob, ActiveJobs
    <2> QED
        BY <2>1 DEF RoundInv
<1>2. Init => JobInv
    BY JobInit
<1>3. AnswerInv /\ JobInv /\ [Next]_vars => JobInv'
    BY JobInvNext
<1>4. AnswerInv /\ JobInv /\ RoundInv /\ [Next]_vars => RoundInv'
    BY RoundInvNext
<1>5. AnswerInv /\ RoundInv => (Len(jobs) <= 1 /\ NoneRanOut => ActiveRoundOpen)
    <2> SUFFICES ASSUME AnswerInv, RoundInv, Len(jobs) <= 1, NoneRanOut, At("idle"),
                        HasActiveJob
                 PROVE  jobs[ActiveJob].round \notin completedRounds
        BY DEF ActiveRoundOpen
    <2>1. jobs[ActiveJob].round \in Nat
        BY CoreTypes, ActiveJobIsNewest DEF AnswerInv, ServerInv, CoreInv, Job
    <2> QED
        BY <2>1 DEF RoundInv, At
<1> QED
    BY <1>1, <1>2, <1>3, <1>4, <1>5, AnswerInvariant, PTL DEF Spec

=============================================================================
