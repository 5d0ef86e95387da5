---------------------------- MODULE TrainingProofs -----------------------------
(***************************************************************************)
(* Proofs about the training programs and the server they drive, for every *)
(* set of programs and every value of the bounds: together they are a      *)
(* server as ControlPlane has it, and what they submit was trained from    *)
(* what it says.                                                           *)
(***************************************************************************)
EXTENDS Training, ControlPlaneProofs

-----------------------------------------------------------------------------
(* What a program knows of the server *)

Places == {"stopped", "asking", "registered", "granted", "ready", "fetch", "failed",
           "trained", "beating", "reported", "sent"}
ProgramRecord == [at : Places, asg : Nat, fetches : BOOLEAN, trained : Nat]

(* The places before a program has an assignment, and those where a worker *)
(* has a task for it.                                                      *)
Unassigned == {"stopped", "asking", "registered"}
Tasked == {"ready", "fetch", "failed", "trained", "beating", "reported"}

(* Without rollbacks the active version is the newest, so a model that is  *)
(* served is no older than the version of any lease.                       *)
ProgramKnows(p) ==
    /\ program[p].trained <= Len(models)
    /\ program[p].at \in Unassigned => program[p].trained = 0
    /\ program[p].at \notin Unassigned =>
           /\ program[p].asg \in DOMAIN assignments
           /\ assignments[program[p].asg].client = ClientOf(p)
           /\ program[p].trained # 0 =>
                  assignments[program[p].asg].base <= program[p].trained

WorkerKnows(w) ==
    /\ program[w].at = "granted" => /\ lease[w].at = "task"
                                    /\ lease[w].asg = program[w].asg
    /\ program[w].at \in Tasked =>
           \E t \in DOMAIN tasks : /\ tasks[t].worker = w
                                   /\ tasks[t].asg = program[w].asg

NewestActive == \A v \in DOMAIN models : models[v].active <=> v = Len(models)

ProgramInv ==
    /\ ServerInv /\ AgreeInv /\ rollbacks = 0 /\ NewestActive
    /\ program \in [Programs -> ProgramRecord]
    /\ \A p \in Programs : ProgramKnows(p)
    /\ \A w \in Workers : WorkerKnows(w)

LEMMA ProgramNames ==
    /\ Workers \subseteq Programs /\ PythonClients \subseteq Clients
    /\ PythonClients \cap Workers = {}
    /\ \A p \in Programs : p \notin Workers => p \in PythonClients
BY TrainingAssumption DEF Programs, PythonClients

-----------------------------------------------------------------------------
(* Every step of a program is a step of the server, or leaves it alone. *)

LEMMA TaskIsOwn ==
    ASSUME ProgramInv, NEW w \in Workers, program[w].at \in Tasked
    PROVE  /\ TaskOf(w) \in OwnTasks(w) /\ OwnTasks(w) \subseteq DOMAIN tasks
           /\ tasks[TaskOf(w)].asg = program[w].asg
<1>1. \E t \in OwnTasks(w) : tasks[t].asg = program[w].asg
    BY DEF ProgramInv, WorkerKnows, OwnTasks
<1> QED
    BY <1>1 DEF TaskOf, OwnTasks

LEMMA WorkerStepServer ==
    ASSUME ProgramInv, NEW w \in Workers, WorkerStep(w)
    PROVE  /\ [Next]_vars
           /\ UNCHANGED <<bufferVars, callVars, adminVars, restarts, recorded, models>>
<1>1. /\ "running" \in ReportableStatus /\ "completed" \in ReportableStatus
      /\ "failed" \in ReportableStatus
    BY DEF ReportableStatus
<1>2. CASE Register(w)
    BY <1>2 DEF Register, Next, RegisterWorker, UpsertWorker
<1>3. CASE AskTask(w)
    BY <1>3 DEF AskTask, Next, TaskStep, TaskReadVersion, storeVars
<1>4. CASE TaskAnswered(w)
    <2>1. CASE TaskLeaseRefused(w)
        BY <2>1 DEF Next, TaskStep, TaskLeaseRefused, LeaseWithoutJob, ExpireAssignments,
                    LeaseRefused
    <2>2. ASSUME NEW a \in 1 .. MaxAssignments, TaskLeaseGranted(w, a)
          PROVE  /\ [Next]_vars
                 /\ UNCHANGED <<bufferVars, callVars, adminVars, restarts, recorded, models>>
        BY <2>2 DEF Next, TaskStep, TaskLeaseGranted, LeaseReused, LeaseIssued
    <2> QED
        BY <1>4, <2>1, <2>2 DEF TaskAnswered
<1>5. CASE TaskReady(w)
    BY <1>5 DEF TaskReady, Next, TaskStep, TaskLease, LeaseWorkerTask
<1>6. CASE ReportRunning(w)
    <2>1. ReportTaskStatus(w, TaskOf(w), "running") /\ TaskOf(w) \in DOMAIN tasks
        BY <1>6, TaskIsOwn DEF ReportRunning, Runs, Tasked
    <2> QED
        BY <1>1, <2>1 DEF Next, ReportTaskStatus, UpdateWorkerTaskStatus
<1>7. CASE ReportFailed(w)
    <2>1. ReportTaskStatus(w, TaskOf(w), "failed") /\ TaskOf(w) \in DOMAIN tasks
        BY <1>7, TaskIsOwn DEF ReportFailed, Runs, Tasked
    <2> QED
        BY <1>1, <2>1 DEF Next, ReportTaskStatus, UpdateWorkerTaskStatus
<1>8. CASE StillRunning(w)
    <2>1. Heartbeat(w, TaskOf(w)) /\ TaskOf(w) \in OwnTasks(w)
        BY <1>8, TaskIsOwn DEF StillRunning, Runs, Tasked
    <2> QED
        BY <2>1 DEF Next, Heartbeat, RecordWorkerHeartbeat
<1>9. CASE ReportCompleted(w)
    <2>1. ReportTaskStatus(w, TaskOf(w), "completed") /\ TaskOf(w) \in DOMAIN tasks
        BY <1>9, TaskIsOwn DEF ReportCompleted, Runs, Tasked
    <2> QED
        BY <1>1, <2>1 DEF Next, ReportTaskStatus, UpdateWorkerTaskStatus
<1> QED
    BY <1>2, <1>3, <1>4, <1>5, <1>6, <1>7, <1>8, <1>9 DEF WorkerStep

LEMMA TrainingServer ==
    ASSUME ProgramInv, [TrainingNext]_trainingVars
    PROVE  [Next]_vars /\ rollbacks' = rollbacks
<1>1. ASSUME NEW p \in PythonClients, ConfigAnswered(p)
      PROVE  [Next]_vars /\ rollbacks' = rollbacks
    BY <1>1 DEF ConfigAnswered, ConfigLease, Next, adminVars
<1>2. CASE SubmitStep
    BY <1>2 DEF Next, SubmitStep, SubmitReadJob, SubmitValidate, SubmitCheckRound, SubmitWait,
           SubmitNotAggregated, SubmitOpenCheckpoint, SubmitWriteCheckpoint, SubmitNotWritten,
           SubmitRecordModel, SubmitAccept, SubmitAdvance, adminVars
<1>3. ASSUME NEW p \in PythonClients, AskConfig(p)
      PROVE  [Next]_vars /\ rollbacks' = rollbacks
    BY <1>3, ProgramNames DEF AskConfig, ConfigReadVersion, Next, adminVars
<1>4. ASSUME NEW p, FetchServed(p) \/ FetchTimesOut(p) \/ Answered(p)
      PROVE  [Next]_vars /\ rollbacks' = rollbacks
    BY <1>4 DEF FetchServed, FetchTimesOut, Answered, vars
<1>5. ASSUME NEW p \in Programs, Send(p)
      PROVE  [Next]_vars /\ rollbacks' = rollbacks
    <2>1. program[p].at \notin Unassigned /\ RoundOf(p) \in Rounds
        BY <1>5 DEF Send, Runs, Unassigned
    <2>2. AssignedRequest(program[p].asg) \in Requests
        BY <2>1 DEF ProgramInv, ProgramKnows, Requests, RoundOf
    <2> QED
        BY <1>5, <2>2, TrainingAssumption DEF Send, SubmitReadVersion, Next, adminVars
<1>6. ASSUME NEW w \in Workers, WorkerStep(w)
      PROVE  [Next]_vars /\ rollbacks' = rollbacks
    BY <1>6, WorkerStepServer DEF adminVars
<1>7. ASSUME NEW spec \in JobSpecs, AdminCreateTrainingJob(spec)
      PROVE  [Next]_vars /\ rollbacks' = rollbacks
    BY <1>7 DEF AdminCreateTrainingJob, Next, adminVars
<1>8. CASE StaleLeaseRunsOut
    BY <1>8 DEF StaleLeaseRunsOut, TimePasses, Next, adminVars
<1>9. CASE UNCHANGED trainingVars
    BY <1>9 DEF trainingVars, vars
<1> QED
    BY <1>1, <1>2, <1>3, <1>4, <1>5, <1>6, <1>7, <1>8, <1>9
       DEF TrainingNext, HandlerStep, MutexStep, FreeStep

-----------------------------------------------------------------------------
(* What the programs know stays true. *)

LEMMA OnlyRecordingAddsModels ==
    ASSUME [Next]_vars, rollbacks \in Nat, rollbacks' = rollbacks
    PROVE  SubmitRecordModel \/ UNCHANGED models
<1>1. CASE CallStep
    BY <1>1, CallStepRecords
<1>2. CASE Restart
    BY <1>2, RestartFrame
<1>3. CASE UNCHANGED vars
    BY <1>3 DEF vars, storeVars
<1>4. ASSUME NEW w, RegisterWorker(w) \/ TaskStep(w)
      PROVE  UNCHANGED models
    BY <1>4 DEF RegisterWorker, TaskStep, TaskReadVersion, TaskLeaseRefused, TaskLeaseGranted,
                TaskLease, UpsertWorker, LeaseWithoutJob, ExpireAssignments, LeaseRefused,
                LeaseReused, LeaseIssued, LeaseWorkerTask, storeVars
<1>5. ASSUME NEW w, NEW t, NEW st, ReportTaskStatus(w, t, st)
      PROVE  UNCHANGED models
    BY <1>5 DEF ReportTaskStatus, UpdateWorkerTaskStatus
<1>6. ASSUME NEW w, NEW t, Heartbeat(w, t)
      PROVE  UNCHANGED models
    BY <1>6 DEF Heartbeat, RecordWorkerHeartbeat
<1>7. ASSUME NEW spec, AdminCreateTrainingJob(spec)
      PROVE  UNCHANGED models
    BY <1>7 DEF AdminCreateTrainingJob, CreateTrainingJob
<1>8. ASSUME NEW m, NEW v, RollbackActivate(m, v)
      PROVE  FALSE
    BY <1>8 DEF RollbackActivate
<1>9. ASSUME NEW m, RollbackStep(m)
      PROVE  UNCHANGED models
    BY <1>9 DEF RollbackStep, RollbackRead, RollbackUnreadable, RollbackRestore, storeVars
<1>10. CASE TimePasses
    BY <1>10 DEF TimePasses, LeaseRunsOut
<1> QED
    BY <1>1, <1>2, <1>3, <1>4, <1>5, <1>6, <1>7, <1>8, <1>9, <1>10, NextSteps DEF OtherStep

LEMMA NewestNext ==
    ASSUME ProgramInv, [Next]_vars, rollbacks' = rollbacks
    PROVE  NewestActive'
<1>1. CASE UNCHANGED models
    BY <1>1 DEF ProgramInv, NewestActive
<1>2. CASE SubmitRecordModel
    <2>1. /\ RecordAggregatedModel(call.req.round) /\ call.req.round \in Nat
          /\ CoreInv
        BY <1>2, SubmitShape, RoundsAreNat DEF SubmitRecordModel, At, ProgramInv, ServerInv
    <2>2. /\ Len(models') = Len(models) + 1
          /\ DOMAIN models' = DOMAIN models \union {Len(models) + 1}
          /\ models'[Len(models) + 1] = [round |-> call.req.round, active |-> TRUE]
          /\ \A v \in DOMAIN models : models'[v].active = FALSE
        BY <2>1, RecordAggregatedModelShape
    <2>3. Len(models) + 1 \notin DOMAIN models /\ models'[Len(models) + 1].active
        BY <2>1, <2>2, CoreTypes
    <2> QED
        BY <2>2, <2>3 DEF NewestActive
<1> QED
    BY <1>1, <1>2, OnlyRecordingAddsModels DEF ProgramInv

LEMMA NewestIsActiveVersion ==
    ASSUME CoreInv, NewestActive
    PROVE  ActiveModelVersion = Len(models)
<1>1. Len(models) \in Nat /\ DOMAIN models = 1 .. Len(models)
    BY CoreTypes
<1>2. CASE Len(models) = 0
    BY <1>1, <1>2 DEF ActiveModelVersion, ActiveModels
<1>3. CASE Len(models) # 0
    <2>1. ActiveModels = {Len(models)}
        BY <1>1, <1>3 DEF ActiveModels, NewestActive
    <2> QED
        BY <2>1, <1>1 DEF ActiveModelVersion
<1> QED
    BY <1>2, <1>3

LEMMA ProgramStays ==
    ASSUME ProgramInv, [Next]_vars, NEW p \in Programs, program'[p] = program[p]
    PROVE  ProgramKnows(p)'
<1>1. CoreInv /\ StoreMoved
    BY StoreMoves DEF ProgramInv, ServerInv
<1>2. /\ Len(models) \in Nat /\ Len(models') \in Nat /\ Len(models) <= Len(models')
      /\ DOMAIN assignments \subseteq DOMAIN assignments'
      /\ \A i \in DOMAIN assignments : /\ assignments'[i].base = assignments[i].base
                                       /\ assignments'[i].client = assignments[i].client
    BY <1>1, RecordsGrow DEF StoreMoved, RecordsKept, SameLease
<1>3. program[p].trained \in Nat /\ ProgramKnows(p)
    BY DEF ProgramInv, ProgramRecord
<1> QED
    BY <1>2, <1>3 DEF ProgramKnows, ClientOf

LEMMA TasksStay ==
    ASSUME ProgramInv, [Next]_vars
    PROVE  /\ DOMAIN tasks \subseteq DOMAIN tasks'
           /\ \A t \in DOMAIN tasks : /\ tasks'[t].worker = tasks[t].worker
                                      /\ tasks'[t].asg = tasks[t].asg
BY StoreAllowed, TasksNext DEF ProgramInv, ServerInv, TasksKept

LEMMA WorkerStays ==
    ASSUME ProgramInv, [Next]_vars, NEW w \in Workers,
           program'[w] = program[w], lease'[w] = lease[w]
    PROVE  WorkerKnows(w)'
<1>1. WorkerKnows(w)
    BY DEF ProgramInv
<1> QED
    BY <1>1, TasksStay DEF WorkerKnows

(* A step of one program, as long as it knows what it should. *)
LEMMA OneProgramMoves ==
    ASSUME ProgramInv, [Next]_vars, rollbacks' = rollbacks,
           NEW p \in Programs, NEW r \in ProgramRecord,
           program' = [program EXCEPT ![p] = r],
           \A w \in Workers : w # p => lease'[w] = lease[w],
           ProgramKnows(p)', p \in Workers => WorkerKnows(p)'
    PROVE  ProgramInv'
<1>1. ServerInv' /\ AgreeInv' /\ NewestActive'
    BY ServerNext, AgreeNext, NewestNext DEF ProgramInv
<1>2. /\ program' \in [Programs -> ProgramRecord]
      /\ \A q \in Programs : q # p => program'[q] = program[q]
    BY DEF ProgramInv
<1>3. \A q \in Programs : ProgramKnows(q)'
    BY <1>2, ProgramStays
<1>4. \A w \in Workers : WorkerKnows(w)'
    BY <1>2, ProgramNames, WorkerStays
<1> QED
    BY <1>1, <1>2, <1>3, <1>4 DEF ProgramInv

LEMMA NoProgramMoves ==
    ASSUME ProgramInv, [Next]_vars, rollbacks' = rollbacks, program' = program,
           lease' = lease
    PROVE  ProgramInv'
<1>1. ServerInv' /\ AgreeInv' /\ NewestActive'
    BY ServerNext, AgreeNext, NewestNext DEF ProgramInv
<1>2. \A q \in Programs : ProgramKnows(q)'
    BY ProgramStays
<1>3. \A w \in Workers : WorkerKnows(w)'
    BY WorkerStays
<1> QED
    BY <1>1, <1>2, <1>3 DEF ProgramInv

-----------------------------------------------------------------------------
(* The steps of a program *)

LEMMA ExitKeeps ==
    ASSUME ProgramInv, [Next]_vars, rollbacks' = rollbacks, NEW p \in Programs, Exits(p),
           \A w \in Workers : w # p => lease'[w] = lease[w]
    PROVE  ProgramInv'
<1>1. Stopped \in ProgramRecord /\ program' = [program EXCEPT ![p] = Stopped]
    BY DEF Exits, Stopped, ProgramRecord, Places
<1>2. program'[p] = Stopped /\ Stopped.at = "stopped" /\ Stopped.trained = 0
    BY DEF ProgramInv, Exits, Stopped
<1>3. Len(models') \in Nat
    BY StoreMoves, RecordsGrow DEF ProgramInv, ServerInv
<1>4. ProgramKnows(p)' /\ WorkerKnows(p)'
    BY <1>2, <1>3 DEF ProgramKnows, WorkerKnows, Unassigned, Tasked
<1> QED
    BY <1>1, <1>4, OneProgramMoves

(* A program goes on with the assignment it has. *)
LEMMA GoingOnKeeps ==
    ASSUME ProgramInv, [Next]_vars, rollbacks' = rollbacks, NEW p \in Programs,
           NEW pc \in Places \ Unassigned, pc # "granted", Goes(p, pc),
           program[p].at \notin Unassigned,
           p \in Workers /\ pc \in Tasked => program[p].at \in Tasked,
           lease' = lease
    PROVE  ProgramInv'
<1> DEFINE r == [program[p] EXCEPT !.at = pc]
<1>1. /\ r \in ProgramRecord /\ program' = [program EXCEPT ![p] = r]
      /\ r.at = pc /\ r.asg = program[p].asg /\ r.trained = program[p].trained
    BY DEF Goes, ProgramInv, ProgramRecord
<1>2. program'[p] = r /\ program[p].trained \in Nat /\ ProgramKnows(p)
    BY <1>1 DEF ProgramInv, ProgramRecord
<1> HIDE DEF r
<1>3. /\ Len(models) \in Nat /\ Len(models') \in Nat /\ Len(models) <= Len(models')
      /\ DOMAIN assignments \subseteq DOMAIN assignments'
      /\ \A i \in DOMAIN assignments : /\ assignments'[i].base = assignments[i].base
                                       /\ assignments'[i].client = assignments[i].client
    BY StoreMoves, RecordsGrow DEF ProgramInv, ServerInv, StoreMoved, RecordsKept, SameLease
<1>4. ProgramKnows(p)'
    BY <1>1, <1>2, <1>3 DEF ProgramKnows, ClientOf
<1>5. ASSUME p \in Workers PROVE WorkerKnows(p)'
    <2>1. WorkerKnows(p)
        BY <1>5 DEF ProgramInv
    <2> QED
        BY <1>1, <1>2, <1>5, <2>1, TasksStay DEF WorkerKnows
<1> QED
    BY <1>1, <1>4, <1>5, OneProgramMoves

(* A program is given an assignment of its client, old or new. *)
LEMMA LeasedIsOwn ==
    ASSUME CoreInv, NEW c, NEW a, NEW v,
           LeaseReused(c, a) \/ (a = Len(assignments) + 1 /\ LeaseIssued(c, v))
    PROVE  a \in DOMAIN assignments' /\ assignments'[a].client = c /\ a \in Nat
<1>1. CASE LeaseReused(c, a)
    <2>1. a \in DOMAIN assignments /\ assignments[a].client = c /\ assignments' = Expired
        BY <1>1 DEF LeaseReused, HeldLeases
    <2> QED
        BY <2>1, ExpiryTypes, CoreTypes
<1>2. CASE a = Len(assignments) + 1 /\ LeaseIssued(c, v)
    BY <1>2, LeaseIssuedShape, CoreTypes
<1> QED
    BY <1>1, <1>2

LEMMA PythonStepKeeps ==
    ASSUME ProgramInv, [Next]_vars, rollbacks' = rollbacks, NEW p \in PythonClients,
           AskConfig(p) \/ ConfigAnswered(p)
    PROVE  ProgramInv'
<1>1. p \in Programs /\ p \notin Workers /\ ClientOf(p) = p
    BY ProgramNames DEF Programs, ClientOf
<1>2. program[p] \in ProgramRecord /\ CoreInv
    BY <1>1 DEF ProgramInv, ServerInv
<1>3. Len(models') \in Nat
    BY StoreMoves, RecordsGrow DEF ProgramInv, ServerInv
<1>4. CASE AskConfig(p)
    <2> DEFINE r == [program[p] EXCEPT !.at = "asking"]
    <2>1. /\ r \in ProgramRecord /\ r.at = "asking" /\ r.trained = program[p].trained
          /\ program' = [program EXCEPT ![p] = r] /\ program'[p] = r
        BY <1>1, <1>2, <1>4 DEF AskConfig, Goes, ProgramInv, ProgramRecord, Places
    <2> HIDE DEF r
    <2>2. program[p].trained = 0
        BY <1>1, <1>4 DEF AskConfig, Runs, ProgramInv, ProgramKnows, Unassigned
    <2>3. lease' = lease
        BY <1>4 DEF AskConfig, ConfigReadVersion
    <2>4. ProgramKnows(p)'
        BY <1>3, <2>1, <2>2 DEF ProgramKnows, Unassigned
    <2> QED
        BY <1>1, <2>1, <2>3, <2>4, OneProgramMoves
<1>5. CASE ConfigAnswered(p)
    <2>1. lease' = lease
        BY <1>5 DEF ConfigAnswered, ConfigLease
    <2>2. CASE Exits(p)
        BY <1>1, <2>1, <2>2, ExitKeeps
    <2>3. ASSUME NEW a \in 1 .. MaxAssignments, Leased(p, a, call.version),
                 program' = [program EXCEPT ![p] =
                    [@ EXCEPT !.at = IF call.version > 0 THEN "fetch" ELSE "trained",
                              !.asg = a]]
          PROVE  ProgramInv'
        <3> DEFINE pc == IF call.version > 0 THEN "fetch" ELSE "trained"
                   r == [program[p] EXCEPT !.at = pc, !.asg = a]
        <3>1. a \in DOMAIN assignments' /\ assignments'[a].client = p /\ a \in Nat
            BY <1>2, <2>3, LeasedIsOwn DEF Leased
        <3>2. pc \in Places
            BY DEF Places
        <3>3. /\ r \in ProgramRecord /\ r.asg = a /\ r.trained = program[p].trained
              /\ program' = [program EXCEPT ![p] = r] /\ program'[p] = r
            BY <1>1, <1>2, <2>3, <3>1, <3>2 DEF ProgramInv, ProgramRecord
        <3> HIDE DEF r
        <3>4. program[p].trained = 0
            BY <1>1, <1>5 DEF ConfigAnswered, Runs, ProgramInv, ProgramKnows, Unassigned
        <3>5. ProgramKnows(p)'
            BY <1>1, <1>3, <3>1, <3>3, <3>4 DEF ProgramKnows, ClientOf
        <3> QED
            BY <1>1, <2>1, <3>3, <3>5, OneProgramMoves
    <2> QED
        BY <1>5, <2>2, <2>3 DEF ConfigAnswered
<1> QED
    BY <1>4, <1>5

(* The model a program is served is the active one: no older than the      *)
(* version its lease names.                                                *)
LEMMA FetchServedKeeps ==
    ASSUME ProgramInv, [Next]_vars, rollbacks' = rollbacks, NEW p \in Programs,
           FetchServed(p)
    PROVE  ProgramInv'
<1> DEFINE r == [program[p] EXCEPT !.at = "trained", !.trained = latest.version]
<1>1. /\ CoreInv /\ program[p] \in ProgramRecord /\ program[p].at = "fetch"
      /\ UNCHANGED <<models, assignments, tasks, lease>>
    BY DEF ProgramInv, ServerInv, FetchServed, Runs, vars, storeVars
<1>2. latest.version = Len(models) /\ Len(models) \in Nat
    BY <1>1, NewestIsActiveVersion, CoreTypes DEF FetchServed, ProgramInv, AgreeInv
<1>3. /\ r \in ProgramRecord /\ r.at = "trained"
      /\ r.asg = program[p].asg /\ r.trained = Len(models)
      /\ program' = [program EXCEPT ![p] = r] /\ program'[p] = r
    BY <1>1, <1>2 DEF FetchServed, ProgramInv, ProgramRecord, Places
<1> HIDE DEF r
<1>4. /\ program[p].asg \in DOMAIN assignments
      /\ assignments[program[p].asg].client = ClientOf(p)
      /\ assignments[program[p].asg].base \in 0 .. Len(models)
    BY <1>1 DEF ProgramInv, ProgramKnows, Unassigned, ServerInv, RecordsInv
<1>5. ProgramKnows(p)'
    BY <1>1, <1>2, <1>3, <1>4 DEF ProgramKnows, Unassigned, ClientOf
<1>6. p \in Workers => WorkerKnows(p)'
    BY <1>1, <1>3 DEF ProgramInv, WorkerKnows, Tasked
<1> QED
    BY <1>1, <1>3, <1>5, <1>6, OneProgramMoves

LEMMA WorkerStepKeeps ==
    ASSUME ProgramInv, [Next]_vars, rollbacks' = rollbacks, NEW w \in Workers,
           WorkerStep(w)
    PROVE  ProgramInv'
<1>1. /\ w \in Programs /\ w \notin PythonClients /\ ClientOf(w) = TrainerOf[w]
      /\ program[w] \in ProgramRecord /\ CoreInv /\ WorkerKnows(w) /\ ProgramKnows(w)
      /\ lease[w] \in [at : {"idle", "lease", "task"}, version : Nat, asg : Nat]
    BY ProgramNames DEF ProgramInv, ServerInv, LeaseInv, ClientOf
<1>2. Len(models') \in Nat
    BY StoreMoves, RecordsGrow DEF ProgramInv, ServerInv
<1>3. ASSUME NEW pc \in {"registered", "asking"}, Goes(w, pc),
             program[w].at \in Unassigned,
             \A v \in Workers : v # w => lease'[v] = lease[v]
      PROVE  ProgramInv'
    <2> DEFINE r == [program[w] EXCEPT !.at = pc]
    <2>1. /\ r \in ProgramRecord /\ r.at = pc /\ r.trained = program[w].trained
          /\ program' = [program EXCEPT ![w] = r] /\ program'[w] = r
        BY <1>1, <1>3 DEF Goes, ProgramInv, ProgramRecord, Places
    <2> HIDE DEF r
    <2>2. program[w].trained = 0
        BY <1>1, <1>3 DEF ProgramKnows
    <2>3. ProgramKnows(w)' /\ WorkerKnows(w)'
        BY <1>2, <1>3, <2>1, <2>2 DEF ProgramKnows, WorkerKnows, Unassigned, Tasked
    <2> QED
        BY <1>1, <1>3, <2>1, <2>3, OneProgramMoves
<1>4. CASE Register(w)
    BY <1>3, <1>4 DEF Register, RegisterWorker, Runs, Unassigned
<1>5. CASE AskTask(w)
    BY <1>3, <1>5 DEF AskTask, TaskReadVersion, ProgramInv, ServerInv, LeaseInv, Runs, Unassigned
<1>6. CASE TaskAnswered(w)
    <2>1. CASE TaskLeaseRefused(w) /\ Exits(w)
        BY <1>1, <2>1, ExitKeeps DEF TaskLeaseRefused, ProgramInv, ServerInv, LeaseInv
    <2>2. ASSUME NEW a \in 1 .. MaxAssignments, TaskLeaseGranted(w, a),
                 program' = [program EXCEPT ![w] = [@ EXCEPT !.at = "granted", !.asg = a]]
          PROVE  ProgramInv'
        <3> DEFINE r == [program[w] EXCEPT !.at = "granted", !.asg = a]
        <3>1. a \in DOMAIN assignments' /\ assignments'[a].client = TrainerOf[w] /\ a \in Nat
            BY <1>1, <2>2, LeasedIsOwn DEF TaskLeaseGranted
        <3>2. /\ r \in ProgramRecord /\ r.at = "granted" /\ r.asg = a
              /\ r.trained = program[w].trained
              /\ program' = [program EXCEPT ![w] = r] /\ program'[w] = r
            BY <1>1, <2>2, <3>1 DEF ProgramInv, ProgramRecord, Places
        <3> HIDE DEF r
        <3>3. program[w].trained = 0
            BY <1>1, <1>6 DEF TaskAnswered, Runs, ProgramKnows, Unassigned
        <3>4. /\ lease'[w].at = "task" /\ lease'[w].asg = a
              /\ \A v \in Workers : v # w => lease'[v] = lease[v]
            BY <1>1, <2>2 DEF TaskLeaseGranted, ProgramInv, ServerInv, LeaseInv
        <3>5. ProgramKnows(w)' /\ WorkerKnows(w)'
            BY <1>1, <1>2, <3>1, <3>2, <3>3, <3>4
               DEF ProgramKnows, WorkerKnows, Tasked, ClientOf
        <3> QED
            BY <1>1, <3>2, <3>4, <3>5, OneProgramMoves
    <2> QED
        BY <1>6, <2>1, <2>2 DEF TaskAnswered
<1>7. CASE TaskReady(w)
    <2> DEFINE f == ActiveModelVersion > 0
               r == [program[w] EXCEPT !.at = "ready", !.fetches = f]
    <2>1. f \in BOOLEAN
        OBVIOUS
    <2> HIDE DEF f
    <2>2. /\ r \in ProgramRecord /\ r.at = "ready" /\ r.asg = program[w].asg
          /\ r.trained = program[w].trained
          /\ program' = [program EXCEPT ![w] = r] /\ program'[w] = r
        BY <1>1, <1>7, <2>1 DEF TaskReady, ProgramInv, ProgramRecord, Places, f
    <2> HIDE DEF r
    <2>3. /\ program[w].at = "granted" /\ lease[w].asg = program[w].asg
          /\ LeaseWorkerTask(w, program[w].asg)
          /\ UNCHANGED <<models, assignments>>
          /\ \A v \in Workers : v # w => lease'[v] = lease[v]
        BY <1>1, <1>7 DEF TaskReady, Runs, WorkerKnows, TaskLease, LeaseWorkerTask,
           ProgramInv, ServerInv, LeaseInv
    <2>4. ProgramKnows(w)'
        BY <1>1, <2>2, <2>3 DEF ProgramKnows, Unassigned, ClientOf
    <2>5. \E t \in DOMAIN tasks' : tasks'[t].worker = w /\ tasks'[t].asg = program[w].asg
        <3> DEFINE mine == {t \in TasksOf(program[w].asg) : tasks[t].worker = w}
                   new == [worker |-> w, asg |-> program[w].asg, status |-> "leased"]
        <3>1. CASE mine # {}
            BY <2>3, <3>1 DEF LeaseWorkerTask, TasksOf
        <3>2. CASE mine = {}
            <4>1. tasks' = Append(tasks, new) /\ tasks \in Seq(Task)
                BY <1>1, <2>3, <3>2 DEF LeaseWorkerTask, CoreInv, StoreTypeOK
            <4>2. new \in Task
                BY <1>1 DEF Task, TaskStatus, ReportableStatus, ProgramRecord
            <4>3. Len(tasks) + 1 \in DOMAIN tasks' /\ tasks'[Len(tasks) + 1] = new
                <5> HIDE DEF new
                <5> QED
                    BY <1>1, <4>1, <4>2, AppendIsSeq, CoreTypes
            <4> QED
                BY <4>3
        <3> QED
            BY <3>1, <3>2
    <2>6. WorkerKnows(w)'
        BY <2>2, <2>5 DEF WorkerKnows
    <2> QED
        BY <1>1, <2>2, <2>3, <2>4, <2>6, OneProgramMoves
<1>8. CASE ReportRunning(w)
    BY <1>1, <1>8, GoingOnKeeps
       DEF ReportRunning, ReportTaskStatus, Runs, Unassigned, Tasked, Places
<1>9. CASE ReportFailed(w)
    BY <1>1, <1>9, ExitKeeps DEF ReportFailed, ReportTaskStatus
<1>10. CASE StillRunning(w)
    BY <1>1, <1>10, GoingOnKeeps DEF StillRunning, Heartbeat, Runs, Unassigned, Tasked, Places
<1>11. CASE ReportCompleted(w)
    BY <1>1, <1>11, GoingOnKeeps
       DEF ReportCompleted, ReportTaskStatus, Runs, Unassigned, Tasked, Places
<1> QED
    BY <1>4, <1>5, <1>6, <1>7, <1>8, <1>9, <1>10, <1>11 DEF WorkerStep

LEMMA ProgramNext ==
    ASSUME ProgramInv, [TrainingNext]_trainingVars
    PROVE  ProgramInv'
<1>1. [Next]_vars /\ rollbacks' = rollbacks
    BY TrainingServer
<1>2. ASSUME NEW p \in PythonClients, ConfigAnswered(p) \/ AskConfig(p)
      PROVE  ProgramInv'
    BY <1>1, <1>2, PythonStepKeeps
<1>3. CASE SubmitStep /\ UNCHANGED program
    <2>1. lease' = lease
        BY <1>3 DEF SubmitStep, SubmitReadJob, SubmitValidate, SubmitCheckRound, SubmitWait,
           SubmitNotAggregated, SubmitOpenCheckpoint, SubmitWriteCheckpoint,
           SubmitNotWritten, SubmitRecordModel, SubmitAccept, SubmitAdvance
    <2> QED
        BY <1>1, <1>3, <2>1, NoProgramMoves
<1>4. ASSUME NEW p \in Programs, FetchServed(p)
      PROVE  ProgramInv'
    BY <1>1, <1>4, FetchServedKeeps
<1>5. ASSUME NEW p \in Programs, FetchTimesOut(p)
      PROVE  ProgramInv'
    BY <1>1, <1>5, GoingOnKeeps
       DEF FetchTimesOut, Runs, vars, Unassigned, Tasked, Places
<1>6. ASSUME NEW p \in Programs, Send(p)
      PROVE  ProgramInv'
    BY <1>1, <1>6, GoingOnKeeps
       DEF Send, SubmitReadVersion, Runs, Unassigned, Tasked, Places
<1>7. ASSUME NEW p \in Programs, Answered(p)
      PROVE  ProgramInv'
    BY <1>1, <1>7, ExitKeeps DEF Answered, vars
<1>8. ASSUME NEW w \in Workers, WorkerStep(w)
      PROVE  ProgramInv'
    BY <1>1, <1>8, WorkerStepKeeps
<1>9. ASSUME NEW spec, AdminCreateTrainingJob(spec), UNCHANGED program
      PROVE  ProgramInv'
    BY <1>1, <1>9, NoProgramMoves DEF AdminCreateTrainingJob
<1>10. CASE StaleLeaseRunsOut
    BY <1>1, <1>10, NoProgramMoves DEF StaleLeaseRunsOut
<1>11. CASE UNCHANGED trainingVars
    BY <1>1, <1>11, NoProgramMoves DEF trainingVars, vars
<1> QED
    BY <1>2, <1>3, <1>4, <1>5, <1>6, <1>7, <1>8, <1>9, <1>10, <1>11
       DEF TrainingNext, HandlerStep, MutexStep, FreeStep

LEMMA ProgramStart == TrainingInit => ProgramInv
<1> SUFFICES ASSUME TrainingInit
             PROVE  ProgramInv
    OBVIOUS
<1>1. ServerInv
    BY ServerInit DEF TrainingInit
<1>2. AgreeInv /\ rollbacks = 0
    BY DEF TrainingInit, Init, BufferInit, IdleRollback, AgreeInv
<1>3. models = <<>> /\ program = [p \in Programs |-> Stopped]
    BY DEF TrainingInit, Init, StoreInit
<1>4. NewestActive
    BY <1>3 DEF NewestActive
<1>5. Stopped \in ProgramRecord /\ Stopped.at = "stopped" /\ Stopped.trained = 0
    BY DEF Stopped, ProgramRecord, Places
<1>6. \A p \in Programs : ProgramKnows(p)
    BY <1>3, <1>5 DEF ProgramKnows, Unassigned
<1>7. \A w \in Workers : WorkerKnows(w)
    BY <1>3, <1>5, ProgramNames DEF WorkerKnows, Tasked
<1> QED
    BY <1>1, <1>2, <1>3, <1>4, <1>5, <1>6, <1>7 DEF ProgramInv

LEMMA ProgramInvariant == TrainingSpec => []ProgramInv
<1>1. ProgramInv /\ [TrainingNext]_trainingVars => ProgramInv'
    BY ProgramNext
<1> QED
    BY ProgramStart, <1>1, PTL DEF TrainingSpec, TrainingSteps

-----------------------------------------------------------------------------
(* What was trained *)

(* The server that the programs drive is one that ControlPlane allows,     *)
(* step by step, so what is proved of ControlPlane holds while they run.   *)
THEOREM TrainingUsesServer == TrainingSpec => Spec
<1>1. TrainingInit => Init
    BY DEF TrainingInit
<1>2. ProgramInv /\ [TrainingNext]_trainingVars => [Next]_vars
    BY TrainingServer
<1> QED
    BY <1>1, <1>2, ProgramInvariant, PTL DEF TrainingSpec, TrainingSteps, Spec

(* A call tells programs apart only if no two of them act for one client.  *)
OwnClients == \A p, q \in Programs : ClientOf(p) = ClientOf(q) => p = q

(* A step other than a program's sending keeps the call's request, or      *)
(* leaves one that names no base version.                                  *)
HandledCall == call'.req = call.req \/ call'.req.base = 0

LEMMA SubmitStepHandles ==
    ASSUME SubmitStep, ServerInv
    PROVE  HandledCall
<1>1. call \in CallRecord /\ IdleCall.req.base = 0
    BY DEF ServerInv, CallInv, IdleCall, NoRequest
<1>2. CASE SubmitReadJob \/ SubmitOpenCheckpoint \/ SubmitWriteCheckpoint
    BY <1>1, <1>2 DEF SubmitReadJob, SubmitOpenCheckpoint, SubmitWriteCheckpoint,
       CallRecord, HandledCall
<1>3. CASE SubmitValidate \/ SubmitCheckRound \/ SubmitAccept
    BY <1>1, <1>3 DEF SubmitValidate, SubmitCheckRound, SubmitAccept, Answer,
       CallRecord, HandledCall
<1>4. CASE SubmitWait \/ SubmitRecordModel
    BY <1>1, <1>4 DEF SubmitWait, SubmitRecordModel, AfterBuffer, Answer,
       CallRecord, HandledCall
<1>5. CASE SubmitNotAggregated \/ SubmitNotWritten \/ SubmitAdvance
    BY <1>1, <1>5 DEF SubmitNotAggregated, SubmitNotWritten, SubmitAdvance, Answer,
       HandledCall
<1> QED
    BY <1>2, <1>3, <1>4, <1>5 DEF SubmitStep

(* A submission that is not stale names the newest version or none, and    *)
(* what its program was served lies between the two.                       *)
LEMMA SendTrained ==
    ASSUME OwnClients, ProgramInv, NEW p \in Programs, Send(p)
    PROVE  TrainedFromBase'
<1> DEFINE req == AssignedRequest(program[p].asg)
<1>1. /\ program[p].at \notin Unassigned /\ ProgramKnows(p)
      /\ program[p].trained \in Nat /\ CoreInv
    BY DEF Send, Runs, Unassigned, ProgramInv, ProgramRecord, ServerInv
<1>2. /\ req.client = ClientOf(p) /\ req.base = assignments[program[p].asg].base
      /\ program[p].trained # 0 => req.base <= program[p].trained
      /\ program[p].trained <= Len(models)
      /\ req.base \in Nat /\ Len(models) \in Nat
    BY <1>1, CoreTypes DEF ProgramKnows, AssignedRequest, CoreInv, StoreTypeOK, Assignment
<1>3. ActiveModelVersion = Len(models)
    BY <1>1, NewestIsActiveVersion DEF ProgramInv
<1> HIDE DEF req
<1>4. /\ \A q \in Programs : program'[q].trained = program[q].trained
      /\ \A q \in Programs : q # p => program'[q] = program[q]
    BY DEF Send, Goes, ProgramInv, ProgramRecord
<1>5. CASE call' = IdleCall
    BY <1>5 DEF TrainedFromBase, IdleCall, NoRequest
<1>6. CASE call'.req = req /\ ~Stale(req, ActiveModelVersion)
    <2> SUFFICES ASSUME NEW q \in Programs, req.client = ClientOf(q), req.base > 0
                 PROVE  program'[q].trained \in {0, req.base}
        BY <1>6 DEF TrainedFromBase
    <2>1. q = p
        BY <1>2 DEF OwnClients
    <2>2. Len(models) = 0 \/ req.base = Len(models)
        BY <1>2, <1>3, <1>6 DEF Stale
    <2> QED
        BY <1>1, <1>2, <1>4, <2>1, <2>2
<1> QED
    <2>1. SubmitReadVersion(req, "ok")
        BY DEF Send, req
    <2> QED
        BY <1>5, <1>6, <2>1 DEF SubmitReadVersion, Answer, IdleCall

LEMMA TrainedNext ==
    ASSUME OwnClients, ProgramInv, TrainedFromBase, [TrainingNext]_trainingVars
    PROVE  TrainedFromBase'
<1>1. ASSUME HandledCall,
             \A p \in Programs : program'[p] = program[p] \/ program'[p].at # "sent"
      PROVE  TrainedFromBase'
    BY <1>1 DEF TrainedFromBase, HandledCall, Runs
<1>2. ASSUME NEW p \in Programs, NEW r \in ProgramRecord, r.at # "sent",
             program' = [program EXCEPT ![p] = r], HandledCall
      PROVE  TrainedFromBase'
    BY <1>1, <1>2 DEF ProgramInv
<1>3. IdleCall.req.base = 0 /\ Stopped \in ProgramRecord /\ Stopped.at # "sent"
    BY DEF IdleCall, NoRequest, Stopped, ProgramRecord, Places
<1>4. ASSUME NEW p \in PythonClients, ConfigAnswered(p) \/ AskConfig(p)
      PROVE  TrainedFromBase'
    <2>0. p \in Programs
        BY DEF Programs
    <2>1. HandledCall
        <3>1. CASE ConfigAnswered(p)
            BY <1>3, <3>1 DEF ConfigAnswered, ConfigLease, HandledCall
        <3>2. CASE AskConfig(p)
            BY <3>2 DEF AskConfig, ConfigReadVersion, HandledCall, IdleCall, NoRequest
        <3> QED
            BY <1>4, <3>1, <3>2
    <2>2. \A q \in Programs : program'[q] = program[q] \/ program'[q].at # "sent"
        <3>1. program \in [Programs -> ProgramRecord]
            BY DEF ProgramInv
        <3>2. CASE Goes(p, "asking") \/ Exits(p)
            BY <1>3, <2>0, <3>1, <3>2 DEF Goes, Exits, ProgramRecord
        <3>3. CASE \E a \in 1 .. MaxAssignments :
                      program' = [program EXCEPT ![p] =
                          [@ EXCEPT !.at = IF call.version > 0 THEN "fetch" ELSE "trained",
                                    !.asg = a]]
            BY <2>0, <3>1, <3>3 DEF ProgramRecord
        <3> QED
            BY <1>4, <3>2, <3>3 DEF ConfigAnswered, AskConfig
    <2> QED
        BY <1>1, <2>1, <2>2
<1>5. CASE SubmitStep /\ UNCHANGED program
    BY <1>1, <1>5, SubmitStepHandles DEF ProgramInv
<1>6. ASSUME NEW p \in Programs, FetchServed(p) \/ FetchTimesOut(p) \/ Answered(p)
      PROVE  TrainedFromBase'
    <2>1. HandledCall
        BY <1>6 DEF FetchServed, FetchTimesOut, Answered, vars, HandledCall
    <2>2. \A q \in Programs : program'[q] = program[q] \/ program'[q].at # "sent"
        BY <1>3, <1>6 DEF FetchServed, FetchTimesOut, Answered, Goes, Exits,
           ProgramInv, ProgramRecord
    <2> QED
        BY <1>1, <2>1, <2>2
<1>7. ASSUME NEW p \in Programs, Send(p)
      PROVE  TrainedFromBase'
    BY <1>7, SendTrained
<1>8. ASSUME NEW w \in Workers, WorkerStep(w)
      PROVE  TrainedFromBase'
    <2>1. w \in Programs /\ HandledCall
        BY <1>8, WorkerStepServer, ProgramNames DEF callVars, HandledCall
    <2>2. \A q \in Programs : program'[q] = program[q] \/ program'[q].at # "sent"
        BY <1>3, <1>8, <2>1 DEF WorkerStep, Register, AskTask, TaskAnswered, TaskReady,
           ReportRunning, ReportFailed, StillRunning, ReportCompleted, Goes, Exits,
           ProgramInv, ProgramRecord
    <2> QED
        BY <1>1, <2>1, <2>2
<1>9. ASSUME NEW spec, AdminCreateTrainingJob(spec), UNCHANGED program
      PROVE  TrainedFromBase'
    BY <1>1, <1>9 DEF AdminCreateTrainingJob, callVars, HandledCall
<1>10. CASE StaleLeaseRunsOut
    BY <1>1, <1>10 DEF StaleLeaseRunsOut, callVars, HandledCall
<1>11. CASE UNCHANGED trainingVars
    BY <1>1, <1>11 DEF trainingVars, vars, HandledCall
<1> QED
    BY <1>4, <1>5, <1>6, <1>7, <1>8, <1>9, <1>10, <1>11
       DEF TrainingNext, HandlerStep, MutexStep, FreeStep

(* Where every program acts for a client of its own, a submission past the *)
(* check for stale versions holds weights trained from the version it      *)
(* names, or from scratch.                                                 *)
THEOREM TrainedFromBaseHolds == TrainingSpec => [](OwnClients => TrainedFromBase)
<1>1. TrainingInit => TrainedFromBase
    BY DEF TrainingInit, Init, IdleCall, NoRequest, TrainedFromBase
<1>2. ProgramInv /\ (OwnClients => TrainedFromBase) /\ [TrainingNext]_trainingVars
      => (OwnClients => TrainedFromBase)'
    <2> SUFFICES ASSUME ProgramInv, OwnClients => TrainedFromBase,
                        [TrainingNext]_trainingVars, OwnClients'
                 PROVE  TrainedFromBase'
        OBVIOUS
    <2>1. OwnClients
        BY DEF OwnClients, Programs, PythonClients, ClientOf
    <2> QED
        BY <2>1, TrainedNext
<1> QED
    BY <1>1, <1>2, ProgramInvariant, PTL DEF TrainingSpec, TrainingSteps

=============================================================================
