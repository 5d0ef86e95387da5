--------------------------- MODULE StateStoreProofs ---------------------------
(***************************************************************************)
(* Proofs about the state store under arbitrary callers (StoreSpec), for   *)
(* every set of clients and workers and every value of the bounds.         *)
(***************************************************************************)
EXTENDS StateStore, FiniteSetTheorems, TLAPS

-----------------------------------------------------------------------------
(* Sequences *)

LEMMA SeqIsFunction ==
    ASSUME NEW T, NEW s \in Seq(T)
    PROVE  Len(s) \in Nat /\ DOMAIN s = 1 .. Len(s) /\ s \in [1 .. Len(s) -> T]
OBVIOUS

LEMMA FunctionIsSeq ==
    ASSUME NEW T, NEW n \in Nat, NEW f \in [1 .. n -> T]
    PROVE  f \in Seq(T) /\ Len(f) = n /\ DOMAIN f = 1 .. n
OBVIOUS

LEMMA AppendIsSeq ==
    ASSUME NEW T, NEW s \in Seq(T), NEW e \in T
    PROVE  /\ Append(s, e) \in Seq(T)
           /\ Len(Append(s, e)) = Len(s) + 1
           /\ DOMAIN Append(s, e) = 1 .. Len(s) + 1
           /\ \A i \in 1 .. Len(s) : Append(s, e)[i] = s[i]
           /\ Append(s, e)[Len(s) + 1] = e
OBVIOUS

-----------------------------------------------------------------------------
(* Lookups *)

(* The job the walk from the back finds is the last one created. *)
LEMMA ActiveJobIsNewest ==
    ASSUME StoreTypeOK, OnlyNewestJobActive, HasActiveJob
    PROVE  /\ ActiveJob = Len(jobs)
           /\ ActiveJob \in DOMAIN jobs
           /\ ActiveJobs = {ActiveJob}
<1>1. Len(jobs) \in Nat /\ DOMAIN jobs = 1 .. Len(jobs)
    BY SeqIsFunction DEF StoreTypeOK
<1>2. ActiveJobs = {Len(jobs)}
    BY DEF OnlyNewestJobActive, HasActiveJob
<1>3. ActiveJob \in ActiveJobs /\ ActiveJob = Len(jobs)
    BY <1>1, <1>2 DEF ActiveJob
<1> QED
    BY <1>2, <1>3 DEF ActiveJobs

(* The active version is a stored one, or 0. *)
LEMMA ActiveModelVersionType ==
    ASSUME StoreTypeOK, OneActiveModel
    PROVE  ActiveModelVersion \in 0 .. Len(models)
<1>1. Len(models) \in Nat /\ DOMAIN models = 1 .. Len(models)
    BY SeqIsFunction DEF StoreTypeOK
<1>2. CASE ActiveModels = {}
    BY <1>1, <1>2 DEF ActiveModelVersion
<1>3. CASE ActiveModels # {}
    <2>1. models # <<>>
        BY <1>1, <1>3 DEF ActiveModels
    <2>2. PICK v \in DOMAIN models : \A u \in DOMAIN models : models[u].active <=> u = v
        BY <2>1 DEF OneActiveModel
    <2>3. ActiveModels = {v}
        BY <2>2, Zenon DEF ActiveModels
    <2>4. ActiveModelVersion = v
        BY <1>1, <2>2, <2>3 DEF ActiveModelVersion
    <2> QED
        BY <1>1, <2>2, <2>4
<1> QED
    BY <1>2, <1>3

(* Expiry changes statuses only, and only of leases that have run out. *)
LEMMA ExpiredShape ==
    ASSUME assignments \in Seq(Assignment)
    PROVE  /\ Expired \in Seq(Assignment)
           /\ Len(Expired) = Len(assignments)
           /\ DOMAIN Expired = DOMAIN assignments
           /\ \A i \in DOMAIN assignments :
                 /\ i \notin Overdue => Expired[i] = assignments[i]
                 /\ i \in Overdue =>
                       Expired[i] = [assignments[i] EXCEPT !.status = "expired"]
           /\ Overdue \subseteq DOMAIN assignments
<1>1. Len(assignments) \in Nat /\ DOMAIN assignments = 1 .. Len(assignments)
      /\ assignments \in [1 .. Len(assignments) -> Assignment]
    BY SeqIsFunction
<1>2. Expired \in [1 .. Len(assignments) -> Assignment]
    BY <1>1 DEF Expired, Assignment, AssignmentStatus
<1>3. Expired \in Seq(Assignment) /\ Len(Expired) = Len(assignments)
      /\ DOMAIN Expired = DOMAIN assignments
    BY <1>1, <1>2, FunctionIsSeq
<1> QED
    BY <1>3, Zenon DEF Expired, Overdue

-----------------------------------------------------------------------------
(* The inductive core: types, at most one job to find, exactly one active  *)
(* model.  The lookups (CHOOSE) need the last two to be well defined.      *)

CoreInv == StoreTypeOK /\ OnlyNewestJobActive /\ OneActiveModel

(* What CoreInv says of each variable, in the form the steps use. *)
LEMMA CoreTypes ==
    ASSUME CoreInv
    PROVE  /\ Len(jobs) \in Nat /\ DOMAIN jobs = 1 .. Len(jobs)
           /\ \A j \in DOMAIN jobs : jobs[j] \in Job
           /\ Len(assignments) \in Nat /\ DOMAIN assignments = 1 .. Len(assignments)
           /\ \A i \in DOMAIN assignments : assignments[i] \in Assignment
           /\ Len(models) \in Nat /\ DOMAIN models = 1 .. Len(models)
           /\ \A v \in DOMAIN models : models[v] \in Model
           /\ Len(tasks) \in Nat /\ DOMAIN tasks = 1 .. Len(tasks)
           /\ \A t \in DOMAIN tasks : tasks[t] \in Task
           /\ \A w \in Workers : workers[w] \in Worker
BY SeqIsFunction DEF CoreInv, StoreTypeOK

LEMMA CreateTrainingJobCore ==
    ASSUME CoreInv, NEW spec \in JobSpecs, CreateTrainingJob(spec)
    PROVE  CoreInv'
<1> DEFINE old == [j \in DOMAIN jobs |-> IF j \in ActiveJobs
                                         THEN [jobs[j] EXCEPT !.status = "superseded"]
                                         ELSE jobs[j]]
           new == NewJob(spec)
<1>1. new \in Job
    <2>1. spec.target \in Nat /\ spec.planned \in Nat /\ spec.min \in Nat
        BY StoreAssumption
    <2>2. ActiveModelVersion \in Nat
        BY ActiveModelVersionType, CoreTypes DEF CoreInv
    <2> QED
        BY <2>1, <2>2 DEF NewJob, Job, JobStatus
<1>2. old \in Seq(Job) /\ Len(old) = Len(jobs) /\ DOMAIN old = DOMAIN jobs
    <2>1. old \in [1 .. Len(jobs) -> Job]
        BY CoreTypes DEF Job, JobStatus
    <2> QED
        BY <2>1, FunctionIsSeq, CoreTypes
<1>3. /\ jobs' \in Seq(Job)
      /\ Len(jobs') = Len(jobs) + 1
      /\ DOMAIN jobs' = 1 .. Len(jobs) + 1
      /\ \A j \in DOMAIN jobs : jobs'[j] = old[j]
    <2>1. jobs' = Append(old, new)
        BY DEF CreateTrainingJob
    <2> HIDE DEF old, new
    <2> QED
        BY <2>1, <1>1, <1>2, AppendIsSeq, CoreTypes
<1>4. UNCHANGED <<assignments, models, workers, tasks>>
    BY DEF CreateTrainingJob
<1>5. StoreTypeOK'
    BY <1>3, <1>4, CoreTypes DEF CoreInv, StoreTypeOK
<1>6. OnlyNewestJobActive'
    <2>1. \A j \in DOMAIN jobs : ~IsActiveJobStatus(old[j].status)
        BY CoreTypes DEF ActiveJobs, IsActiveJobStatus, Job
    <2>2. \A j \in DOMAIN jobs' : IsActiveJobStatus(jobs'[j].status) => j = Len(jobs')
        <3> HIDE DEF old, new
        <3> QED
            BY <1>3, <2>1, CoreTypes
    <2> QED
        BY <2>2 DEF OnlyNewestJobActive, ActiveJobs
<1>7. OneActiveModel'
    BY <1>4 DEF CoreInv, OneActiveModel
<1> QED
    BY <1>5, <1>6, <1>7 DEF CoreInv

LEMMA RecordAggregatedModelCore ==
    ASSUME CoreInv, NEW r \in Nat, RecordAggregatedModel(r)
    PROVE  CoreInv'
<1> DEFINE old == [v \in DOMAIN models |-> [models[v] EXCEPT !.active = FALSE]]
           new == [round |-> r, active |-> TRUE]
<1>1. old \in Seq(Model) /\ Len(old) = Len(models) /\ DOMAIN old = DOMAIN models
    <2>1. old \in [1 .. Len(models) -> Model]
        BY CoreTypes DEF Model
    <2> QED
        BY <2>1, FunctionIsSeq, CoreTypes
<1>2. /\ models' \in Seq(Model)
      /\ DOMAIN models' = 1 .. Len(models) + 1
      /\ \A v \in DOMAIN models : models'[v] = old[v]
      /\ models'[Len(models) + 1] = new
    <2>1. models' = Append(old, new)
        BY DEF RecordAggregatedModel
    <2>2. new \in Model
        BY DEF Model
    <2> HIDE DEF old, new
    <2> QED
        BY <2>1, <2>2, <1>1, AppendIsSeq, CoreTypes
<1>3. UNCHANGED <<jobs, assignments, workers, tasks>>
    BY DEF RecordAggregatedModel
<1>4. StoreTypeOK'
    BY <1>2, <1>3 DEF CoreInv, StoreTypeOK
<1>5. OnlyNewestJobActive'
    BY <1>3 DEF CoreInv, OnlyNewestJobActive, ActiveJobs
<1>6. OneActiveModel'
    <2>1. \A u \in DOMAIN models : models'[u].active = FALSE
        BY <1>2, CoreTypes DEF Model
    <2>2. models'[Len(models) + 1].active = TRUE
        BY <1>2
    <2>3. \A u \in DOMAIN models' : models'[u].active <=> u = Len(models) + 1
        BY <1>2, <2>1, <2>2, CoreTypes
    <2> QED
        BY <1>2, <2>3, CoreTypes DEF OneActiveModel
<1> QED
    BY <1>4, <1>5, <1>6 DEF CoreInv

LEMMA RollbackModelCore ==
    ASSUME CoreInv, NEW target, RollbackModel(target)
    PROVE  CoreInv'
<1>1. models' = [v \in DOMAIN models |-> [models[v] EXCEPT !.active = (v = target)]]
      /\ target \in DOMAIN models
    BY DEF RollbackModel
<1>2. models' \in Seq(Model) /\ DOMAIN models' = DOMAIN models
    <2>1. models' \in [1 .. Len(models) -> Model]
        BY <1>1, CoreTypes DEF Model
    <2> QED
        BY <2>1, FunctionIsSeq, CoreTypes
<1>3. UNCHANGED <<jobs, assignments, workers, tasks>>
    BY DEF RollbackModel
<1>4. StoreTypeOK'
    BY <1>2, <1>3 DEF CoreInv, StoreTypeOK
<1>5. OnlyNewestJobActive'
    BY <1>3 DEF CoreInv, OnlyNewestJobActive, ActiveJobs
<1>6. OneActiveModel'
    <2>1. \A u \in DOMAIN models' : models'[u].active <=> u = target
        BY <1>1, <1>2, CoreTypes DEF Model
    <2> QED
        BY <2>1, <1>1, <1>2 DEF OneActiveModel
<1> QED
    BY <1>4, <1>5, <1>6 DEF CoreInv

(* Expiry, saved or not. *)
LEMMA ExpiryTypes ==
    ASSUME CoreInv
    PROVE  /\ Expired \in Seq(Assignment)
           /\ Len(Expired) = Len(assignments)
           /\ DOMAIN Expired = DOMAIN assignments
           /\ \A i \in DOMAIN assignments : /\ Expired[i].job = assignments[i].job
                                            /\ Expired[i].client = assignments[i].client
                                            /\ Expired[i].round = assignments[i].round
                                            /\ Expired[i].base = assignments[i].base
                                            /\ Expired[i].due = assignments[i].due
           /\ \A i \in Overdue : /\ i \in DOMAIN assignments
                                 /\ assignments[i].status = "leased" /\ assignments[i].due
                                 /\ Expired[i].status = "expired"
           /\ \A i \in DOMAIN assignments \ Overdue : Expired[i] = assignments[i]
<1>1. assignments \in Seq(Assignment)
    BY DEF CoreInv, StoreTypeOK
<1>2. Overdue \subseteq DOMAIN assignments
      /\ \A i \in Overdue : assignments[i].status = "leased" /\ assignments[i].due
    BY DEF Overdue
<1>3. \A i \in DOMAIN assignments \ Overdue : Expired[i] = assignments[i]
    BY <1>1, ExpiredShape
<1>4. \A i \in Overdue : Expired[i] = [assignments[i] EXCEPT !.status = "expired"]
    BY <1>1, <1>2, ExpiredShape
<1>5. \A i \in Overdue : /\ Expired[i].job = assignments[i].job
                         /\ Expired[i].client = assignments[i].client
                         /\ Expired[i].round = assignments[i].round
                         /\ Expired[i].base = assignments[i].base
                         /\ Expired[i].due = assignments[i].due
                         /\ Expired[i].status = "expired"
    <2> TAKE i \in Overdue
    <2>1. assignments[i] \in Assignment
        BY <1>2, CoreTypes
    <2>2. Expired[i] = [assignments[i] EXCEPT !.status = "expired"]
        BY <1>4
    <2> QED
        BY <2>1, <2>2 DEF Assignment
<1> QED
    BY <1>1, <1>2, <1>3, <1>5, ExpiredShape

LEMMA ExpireAssignmentsCore ==
    ASSUME CoreInv, ExpireAssignments
    PROVE  CoreInv'
<1>1. assignments' = Expired /\ UNCHANGED <<jobs, models, workers, tasks>>
    BY DEF ExpireAssignments
<1>2. StoreTypeOK'
    BY <1>1, ExpiryTypes DEF CoreInv, StoreTypeOK
<1> QED
    BY <1>1, <1>2 DEF CoreInv, OnlyNewestJobActive, ActiveJobs, OneActiveModel

(* A status change of the active job. *)
LEMMA StartedCore ==
    ASSUME CoreInv, HasActiveJob, NEW s \in JobStatus, Started(ActiveJob, s)
    PROVE  /\ jobs' \in Seq(Job)
           /\ DOMAIN jobs' = DOMAIN jobs
           /\ OnlyNewestJobActive'
<1>1. jobs' = [jobs EXCEPT ![ActiveJob].status = s]
    BY DEF Started
<1>2. ActiveJob = Len(jobs) /\ ActiveJob \in DOMAIN jobs /\ ActiveJobs = {ActiveJob}
    BY ActiveJobIsNewest DEF CoreInv
<1>3. jobs' \in [1 .. Len(jobs) -> Job]
    BY <1>1, <1>2, CoreTypes DEF Job
<1>4. jobs' \in Seq(Job) /\ DOMAIN jobs' = DOMAIN jobs /\ Len(jobs') = Len(jobs)
    BY <1>3, FunctionIsSeq, CoreTypes
<1>5. \A j \in DOMAIN jobs \ {ActiveJob} : ~IsActiveJobStatus(jobs'[j].status)
    BY <1>1, <1>2, CoreTypes DEF ActiveJobs
<1>6. OnlyNewestJobActive'
    BY <1>2, <1>4, <1>5 DEF OnlyNewestJobActive, ActiveJobs
<1> QED
    BY <1>4, <1>6

LEMMA LeaseKeptCore ==
    ASSUME CoreInv, HasActiveJob, NEW s \in JobStatus, Started(ActiveJob, s),
           assignments' = Expired, UNCHANGED <<models, workers, tasks>>
    PROVE  CoreInv'
<1>1. StoreTypeOK'
    BY StartedCore, ExpiryTypes DEF CoreInv, StoreTypeOK
<1> QED
    BY <1>1, StartedCore DEF CoreInv, OneActiveModel

LEMMA LeaseIssuedCore ==
    ASSUME CoreInv, NEW c \in Clients, NEW version \in 0 .. Len(models),
           LeaseIssued(c, version)
    PROVE  CoreInv'
<1> DEFINE new == [job |-> ActiveJob, client |-> c, round |-> jobs[ActiveJob].round,
                   base |-> version, status |-> "leased", due |-> FALSE]
<1>1. /\ HasActiveJob /\ Started(ActiveJob, "running")
      /\ assignments' = Append(Expired, new)
      /\ UNCHANGED <<models, workers, tasks>>
    BY DEF LeaseIssued
<1>2. ActiveJob \in DOMAIN jobs
    BY <1>1, ActiveJobIsNewest DEF CoreInv
<1>3. new \in Assignment
    <2>1. jobs[ActiveJob].round \in Nat /\ ActiveJob \in Nat /\ version \in Nat
        BY <1>2, CoreTypes DEF Job
    <2> QED
        BY <2>1 DEF Assignment, AssignmentStatus
<1>4. jobs' \in Seq(Job) /\ DOMAIN jobs' = DOMAIN jobs /\ OnlyNewestJobActive'
    BY <1>1, StartedCore DEF JobStatus
<1>5. /\ assignments' \in Seq(Assignment)
      /\ DOMAIN assignments' = 1 .. Len(assignments) + 1
      /\ \A i \in DOMAIN assignments : assignments'[i].job = assignments[i].job
      /\ assignments'[Len(assignments) + 1] = new
    <2> HIDE DEF new
    <2> QED
        BY <1>1, <1>3, ExpiryTypes, AppendIsSeq, CoreTypes
<1>6. \A i \in DOMAIN assignments' : assignments'[i].job \in DOMAIN jobs'
    <2>1. \A i \in DOMAIN assignments : assignments'[i].job \in DOMAIN jobs'
        BY <1>4, <1>5 DEF CoreInv, StoreTypeOK
    <2>2. assignments'[Len(assignments) + 1].job \in DOMAIN jobs'
        BY <1>2, <1>4, <1>5
    <2> QED
        BY <2>1, <2>2, <1>5, CoreTypes
<1>7. StoreTypeOK'
    BY <1>1, <1>4, <1>5, <1>6, CoreTypes DEF CoreInv, StoreTypeOK
<1> QED
    BY <1>1, <1>4, <1>7 DEF CoreInv, OneActiveModel

LEMMA IdleType ==
    ASSUME CoreInv, NEW w \in Workers, NEW done
    PROVE  Idle(w, done) \in Worker /\ Idle(w, done).task \in 0 .. Len(tasks)
           /\ Idle(w, done).status = "idle"
<1>1. workers[w] \in Worker /\ workers[w].task \in 0 .. Len(tasks) /\ Len(tasks) \in Nat
    BY CoreTypes DEF CoreInv, StoreTypeOK
<1> QED
    BY <1>1 DEF Idle, Worker, WorkerStatus

(* The shape shared by AcceptedSubmission and AdvanceTrainingJobRound:     *)
(* statuses of assignments and tasks change, some workers become idle.     *)
LEMMA StatusChangeTypes ==
    ASSUME CoreInv,
           jobs' \in Seq(Job), DOMAIN jobs' = DOMAIN jobs,
           assignments' \in Seq(Assignment), DOMAIN assignments' = DOMAIN assignments,
           \A i \in DOMAIN assignments : assignments'[i].job = assignments[i].job,
           tasks' \in Seq(Task), Len(tasks') = Len(tasks),
           \A t \in DOMAIN tasks : tasks'[t].asg = tasks[t].asg,
           workers' \in [Workers -> Worker],
           \A w \in Workers : workers'[w].task \in {0, workers[w].task},
           UNCHANGED models
    PROVE  StoreTypeOK'
<1>1. DOMAIN tasks' = DOMAIN tasks /\ Len(tasks) \in Nat
    BY SeqIsFunction DEF CoreInv, StoreTypeOK
<1>2. \A w \in Workers : workers'[w].task \in 0 .. Len(tasks')
    <2>1. \A w \in Workers : workers[w].task \in 0 .. Len(tasks)
        BY DEF CoreInv, StoreTypeOK
    <2> QED
        BY <1>1, <2>1
<1> QED
    BY <1>1, <1>2 DEF CoreInv, StoreTypeOK

LEMMA AcceptedSubmissionCore ==
    ASSUME CoreInv, NEW req, AcceptedSubmission(req)
    PROVE  CoreInv'
<1>1. /\ req.asg \in DOMAIN assignments /\ Live(assignments[req.asg])
      /\ assignments' = [Expired EXCEPT ![req.asg].status = "submitted"]
      /\ tasks' = [t \in DOMAIN tasks |->
                      IF t \in TasksOf(req.asg)
                      THEN [tasks[t] EXCEPT !.status = "submitted"] ELSE tasks[t]]
      /\ workers' = [w \in Workers |->
                      IF \E t \in TasksOf(req.asg) : tasks[t].worker = w
                      THEN Idle(w, TasksOf(req.asg)) ELSE workers[w]]
      /\ UNCHANGED <<jobs, models>>
    BY DEF AcceptedSubmission, Submittable
<1>2. /\ assignments' \in Seq(Assignment) /\ DOMAIN assignments' = DOMAIN assignments
      /\ \A i \in DOMAIN assignments : assignments'[i].job = assignments[i].job
    <2>1. Expired \in [1 .. Len(assignments) -> Assignment]
        BY ExpiryTypes, SeqIsFunction
    <2>2. assignments' \in [1 .. Len(assignments) -> Assignment]
        <3>1. \A e \in Assignment : [e EXCEPT !.status = "submitted"] \in Assignment
            BY DEF Assignment, AssignmentStatus
        <3> QED
            BY <1>1, <2>1, <3>1, CoreTypes
    <2>3. \A i \in 1 .. Len(assignments) : assignments'[i].job = Expired[i].job
        BY <1>1, <2>1, CoreTypes DEF Assignment
    <2> QED
        BY <2>2, <2>3, FunctionIsSeq, CoreTypes, ExpiryTypes
<1>3. /\ tasks' \in Seq(Task) /\ Len(tasks') = Len(tasks)
      /\ \A t \in DOMAIN tasks : tasks'[t].asg = tasks[t].asg
    <2>1. tasks' \in [1 .. Len(tasks) -> Task]
        BY <1>1, CoreTypes DEF Task, TaskStatus, ReportableStatus
    <2>2. \A t \in DOMAIN tasks : tasks'[t].asg = tasks[t].asg
        BY <1>1, CoreTypes DEF Task
    <2> QED
        BY <2>1, <2>2, FunctionIsSeq, CoreTypes
<1>4. /\ workers' \in [Workers -> Worker]
      /\ \A w \in Workers : workers'[w].task \in {0, workers[w].task}
    <2>1. \A w \in Workers : Idle(w, TasksOf(req.asg)) \in Worker
        BY IdleType
    <2>2. \A w \in Workers : Idle(w, TasksOf(req.asg)).task \in {0, workers[w].task}
        BY CoreTypes DEF Idle, Worker
    <2> QED
        BY <1>1, <2>1, <2>2, CoreTypes
<1>5. StoreTypeOK'
    BY <1>1, <1>2, <1>3, <1>4, StatusChangeTypes DEF CoreInv, StoreTypeOK
<1> QED
    BY <1>1, <1>5 DEF CoreInv, OnlyNewestJobActive, ActiveJobs, OneActiveModel

LEMMA RecordWeightSubmissionCore ==
    ASSUME CoreInv, RecordWeightSubmission
    PROVE  CoreInv'
BY DEF RecordWeightSubmission, storeVars, CoreInv, StoreTypeOK, OnlyNewestJobActive,
       ActiveJobs, OneActiveModel

LEMMA ClosedJobType ==
    ASSUME CoreInv, NEW j \in DOMAIN jobs, NEW r \in Nat, NEW version \in Nat
    PROVE  ClosedJob(j, r, version) \in Job
<1> DEFINE completed == jobs[j].completed + 1
           status == IF jobs[j].target > 0 /\ completed >= jobs[j].target
                     THEN "completed" ELSE "running"
<1>1. jobs[j] \in Job
    BY CoreTypes
<1>2. status \in JobStatus /\ completed \in Nat /\ r + 1 \in Nat
    BY <1>1 DEF Job, JobStatus
<1>3. ClosedJob(j, r, version) =
          [jobs[j] EXCEPT !.status = status, !.completed = completed,
                          !.round = r + 1, !.model = version]
    BY DEF ClosedJob
<1> HIDE DEF status, completed
<1> QED
    BY <1>1, <1>2, <1>3 DEF Job

LEMMA AdvanceTrainingJobRoundCore ==
    ASSUME CoreInv, NEW r \in Nat, NEW version \in Nat,
           AdvanceTrainingJobRound(r, version)
    PROVE  CoreInv'
<1>1. CASE ~HasActiveJob
    <2>1. UNCHANGED storeVars
        BY <1>1 DEF AdvanceTrainingJobRound
    <2> QED
        BY <2>1 DEF storeVars, CoreInv, StoreTypeOK, OnlyNewestJobActive, ActiveJobs,
                    OneActiveModel
<1>2. CASE HasActiveJob
    <2> DEFINE j == ActiveJob
    <2>1. /\ assignments' = [i \in DOMAIN assignments |->
                 IF i \in RoundAssignments(j, r)
                 THEN [assignments[i] EXCEPT !.status = ClosedAssignmentStatus(@)]
                 ELSE assignments[i]]
          /\ tasks' = [t \in DOMAIN tasks |->
                 IF t \in RoundTasks(j, r)
                 THEN [tasks[t] EXCEPT !.status = ClosedTaskStatus(@)] ELSE tasks[t]]
          /\ workers' = [w \in Workers |->
                 IF workers[w].task \in {t \in RoundTasks(j, r) : tasks[t].worker = w}
                 THEN [status |-> "idle", task |-> 0] ELSE workers[w]]
          /\ jobs' = [jobs EXCEPT ![j] = ClosedJob(j, r, version)]
          /\ UNCHANGED models
        BY <1>2 DEF AdvanceTrainingJobRound
    <2>2. j = Len(jobs) /\ j \in DOMAIN jobs /\ ActiveJobs = {j}
        BY <1>2, ActiveJobIsNewest DEF CoreInv
    <2>3. /\ jobs' \in Seq(Job) /\ DOMAIN jobs' = DOMAIN jobs /\ Len(jobs') = Len(jobs)
          /\ \A k \in DOMAIN jobs \ {j} : jobs'[k] = jobs[k]
        <3> DEFINE closed == ClosedJob(j, r, version)
        <3>2. closed \in Job
            BY <2>2, ClosedJobType
        <3>3. jobs' = [k \in DOMAIN jobs |-> IF k = j THEN closed ELSE jobs[k]]
            BY <2>1, <2>2, CoreTypes
        <3> HIDE DEF closed, j
        <3>4. jobs' \in [1 .. Len(jobs) -> Job]
            BY <3>2, <3>3, CoreTypes
        <3>5. \A k \in DOMAIN jobs \ {j} : jobs'[k] = jobs[k]
            BY <3>3
        <3> QED
            BY <3>4, <3>5, FunctionIsSeq, CoreTypes
    <2>4. /\ assignments' \in Seq(Assignment) /\ DOMAIN assignments' = DOMAIN assignments
          /\ \A i \in DOMAIN assignments : assignments'[i].job = assignments[i].job
        <3>1. assignments' \in [1 .. Len(assignments) -> Assignment]
            BY <2>1, CoreTypes DEF Assignment, AssignmentStatus, ClosedAssignmentStatus
        <3>2. \A i \in DOMAIN assignments : assignments'[i].job = assignments[i].job
            BY <2>1, CoreTypes DEF Assignment
        <3> QED
            BY <3>1, <3>2, FunctionIsSeq, CoreTypes
    <2>5. /\ tasks' \in Seq(Task) /\ Len(tasks') = Len(tasks)
          /\ \A t \in DOMAIN tasks : tasks'[t].asg = tasks[t].asg
        <3>1. tasks' \in [1 .. Len(tasks) -> Task]
            BY <2>1, CoreTypes DEF Task, TaskStatus, ReportableStatus, ClosedTaskStatus
        <3>2. \A t \in DOMAIN tasks : tasks'[t].asg = tasks[t].asg
            BY <2>1, CoreTypes DEF Task
        <3> QED
            BY <3>1, <3>2, FunctionIsSeq, CoreTypes
    <2>6. /\ workers' \in [Workers -> Worker]
          /\ \A w \in Workers : workers'[w].task \in {0, workers[w].task}
        BY <2>1, CoreTypes DEF Worker, WorkerStatus
    <2>7. StoreTypeOK'
        <3> HIDE DEF j
        <3> QED
            BY <2>1, <2>3, <2>4, <2>5, <2>6, StatusChangeTypes
    <2>8. OnlyNewestJobActive'
        <3>1. \A k \in DOMAIN jobs \ {j} : ~IsActiveJobStatus(jobs'[k].status)
            BY <2>2, <2>3 DEF ActiveJobs
        <3> QED
            BY <2>2, <2>3, <3>1 DEF OnlyNewestJobActive, ActiveJobs
    <2> QED
        BY <2>1, <2>7, <2>8 DEF CoreInv, OneActiveModel
<1> QED
    BY <1>1, <1>2

(* Steps of workers and their tasks leave jobs, assignments and models. *)
LEMMA WorkerStepTypes ==
    ASSUME CoreInv, UNCHANGED <<jobs, assignments, models>>,
           tasks' \in Seq(Task), Len(tasks) <= Len(tasks'),
           \A t \in DOMAIN tasks' : tasks'[t].asg \in DOMAIN assignments,
           workers' \in [Workers -> Worker],
           \A w \in Workers : workers'[w].task \in 0 .. Len(tasks')
    PROVE  CoreInv'
BY DEF CoreInv, StoreTypeOK, OnlyNewestJobActive, ActiveJobs, OneActiveModel

LEMMA UpsertWorkerCore ==
    ASSUME CoreInv, NEW w \in Workers, UpsertWorker(w)
    PROVE  CoreInv'
<1>1. /\ workers' = [workers EXCEPT ![w].status = "idle"]
      /\ UNCHANGED <<jobs, assignments, models, tasks>>
    BY DEF UpsertWorker
<1>2. workers \in [Workers -> Worker] /\ \A x \in Workers : workers[x].task \in 0 .. Len(tasks)
    BY DEF CoreInv, StoreTypeOK
<1>3. workers' \in [Workers -> Worker] /\ \A x \in Workers : workers'[x].task = workers[x].task
    BY <1>1, <1>2 DEF Worker, WorkerStatus
<1>4. tasks \in Seq(Task) /\ Len(tasks) \in Nat
      /\ \A t \in DOMAIN tasks : tasks[t].asg \in DOMAIN assignments
    BY CoreTypes DEF CoreInv, StoreTypeOK
<1> QED
    BY <1>1, <1>2, <1>3, <1>4, WorkerStepTypes

LEMMA LeaseWorkerTaskCore ==
    ASSUME CoreInv, NEW w \in Workers, NEW a \in DOMAIN assignments, LeaseWorkerTask(w, a)
    PROVE  CoreInv'
<1> DEFINE mine == {t \in TasksOf(a) : tasks[t].worker = w}
           new == [worker |-> w, asg |-> a, status |-> "leased"]
<1>1. UNCHANGED <<jobs, assignments, models>>
    BY DEF LeaseWorkerTask
<1>2. /\ tasks \in Seq(Task) /\ Len(tasks) \in Nat /\ DOMAIN tasks = 1 .. Len(tasks)
      /\ \A t \in DOMAIN tasks : tasks[t].asg \in DOMAIN assignments
      /\ workers \in [Workers -> Worker]
      /\ \A x \in Workers : workers[x].task \in 0 .. Len(tasks)
    BY CoreTypes DEF CoreInv, StoreTypeOK
<1>3. CASE mine # {}
    <2>1. UNCHANGED tasks
          /\ \E t \in mine : workers' = [workers EXCEPT ![w] = [status |-> "leased", task |-> t]]
        BY <1>3 DEF LeaseWorkerTask
    <2>2. PICK t \in mine : workers' = [workers EXCEPT ![w] = [status |-> "leased", task |-> t]]
        BY <2>1
    <2>3. t \in 1 .. Len(tasks) /\ [status |-> "leased", task |-> t] \in Worker
        BY <1>2 DEF TasksOf, Worker, WorkerStatus
    <2>4. workers' \in [Workers -> Worker]
          /\ \A x \in Workers : workers'[x].task \in 0 .. Len(tasks)
        BY <2>2, <2>3, <1>2
    <2> QED
        BY <1>1, <1>2, <2>1, <2>4, WorkerStepTypes
<1>4. CASE mine = {}
    <2>1. tasks' = Append(tasks, new)
          /\ workers' = [workers EXCEPT ![w] = [status |-> "leased", task |-> Len(tasks) + 1]]
        BY <1>4 DEF LeaseWorkerTask
    <2>2. new \in Task /\ new.asg = a
        BY CoreTypes DEF Task, TaskStatus, ReportableStatus
    <2>3. /\ tasks' \in Seq(Task) /\ Len(tasks') = Len(tasks) + 1
          /\ \A t \in DOMAIN tasks' : tasks'[t].asg \in DOMAIN assignments
        <3> HIDE DEF new
        <3> QED
            BY <1>2, <2>1, <2>2, AppendIsSeq
    <2>4. workers' \in [Workers -> Worker]
          /\ \A x \in Workers : workers'[x].task \in 0 .. Len(tasks')
        <3>1. [status |-> "leased", task |-> Len(tasks) + 1] \in Worker
            BY <1>2 DEF Worker, WorkerStatus
        <3> QED
            BY <1>2, <2>1, <2>3, <3>1
    <2> QED
        BY <1>1, <1>2, <2>3, <2>4, WorkerStepTypes
<1> QED
    BY <1>3, <1>4

LEMMA UpdateWorkerTaskStatusCore ==
    ASSUME CoreInv, NEW w \in Workers, NEW t, NEW s \in ReportableStatus,
           UpdateWorkerTaskStatus(w, t, s)
    PROVE  CoreInv'
<1> DEFINE next == CASE s = "running" -> [status |-> "busy", task |-> t]
                     [] s = "leased"  -> [status |-> "leased", task |-> t]
                     [] OTHER         -> Idle(w, {t})
<1>1. /\ t \in DOMAIN tasks
      /\ tasks' = [tasks EXCEPT ![t].status = s]
      /\ workers' = [workers EXCEPT ![w] = next]
      /\ UNCHANGED <<jobs, assignments, models>>
    BY DEF UpdateWorkerTaskStatus
<1>2. /\ Len(tasks) \in Nat /\ DOMAIN tasks = 1 .. Len(tasks)
      /\ \A u \in DOMAIN tasks : tasks[u] \in Task /\ tasks[u].asg \in DOMAIN assignments
      /\ workers \in [Workers -> Worker]
      /\ \A x \in Workers : workers[x].task \in 0 .. Len(tasks)
    BY CoreTypes DEF CoreInv, StoreTypeOK
<1>3. next \in Worker /\ next.task \in 0 .. Len(tasks)
    <2>1. Idle(w, {t}) \in Worker /\ Idle(w, {t}).task \in 0 .. Len(tasks)
        BY IdleType
    <2> QED
        BY <1>1, <1>2, <2>1 DEF Worker, WorkerStatus
<1>4. /\ tasks' \in Seq(Task) /\ Len(tasks') = Len(tasks)
      /\ \A u \in DOMAIN tasks' : tasks'[u].asg \in DOMAIN assignments
    <2>1. tasks \in [1 .. Len(tasks) -> Task]
        BY SeqIsFunction DEF CoreInv, StoreTypeOK
    <2>2. tasks' \in [1 .. Len(tasks) -> Task]
        BY <1>1, <2>1 DEF Task, TaskStatus
    <2>3. \A u \in 1 .. Len(tasks) : tasks'[u].asg = tasks[u].asg
        BY <1>1, <2>1 DEF Task
    <2> QED
        BY <1>2, <2>2, <2>3, FunctionIsSeq
<1>5. workers' \in [Workers -> Worker]
      /\ \A x \in Workers : workers'[x].task \in 0 .. Len(tasks')
    <2> HIDE DEF next
    <2> QED
        BY <1>1, <1>2, <1>3, <1>4
<1> HIDE DEF next
<1> QED
    BY <1>1, <1>2, <1>4, <1>5, WorkerStepTypes

LEMMA RecordWorkerHeartbeatCore ==
    ASSUME CoreInv, NEW w \in Workers, NEW t \in {0} \union DOMAIN tasks,
           RecordWorkerHeartbeat(w, t)
    PROVE  CoreInv'
<1> DEFINE next == IF t # 0 THEN [status |-> "busy", task |-> t]
                   ELSE IF workers[w].status # "leased"
                        THEN [workers[w] EXCEPT !.status = "idle"] ELSE workers[w]
<1>1. /\ tasks \in Seq(Task) /\ Len(tasks) \in Nat /\ DOMAIN tasks = 1 .. Len(tasks)
      /\ \A u \in DOMAIN tasks : tasks[u].asg \in DOMAIN assignments
      /\ workers \in [Workers -> Worker]
      /\ \A x \in Workers : workers[x].task \in 0 .. Len(tasks)
    BY CoreTypes DEF CoreInv, StoreTypeOK
<1>2. /\ workers' = [workers EXCEPT ![w] = next]
      /\ UNCHANGED <<jobs, assignments, models, tasks>>
    BY <1>1 DEF RecordWorkerHeartbeat
<1>3. next \in Worker /\ next.task \in 0 .. Len(tasks)
    BY <1>1 DEF Worker, WorkerStatus
<1>4. workers' \in [Workers -> Worker]
      /\ \A x \in Workers : workers'[x].task \in 0 .. Len(tasks)
    <2> HIDE DEF next
    <2> QED
        BY <1>1, <1>2, <1>3
<1> QED
    BY <1>1, <1>2, <1>4, WorkerStepTypes

LEMMA LeaseRunsOutCore ==
    ASSUME CoreInv, NEW i, LeaseRunsOut(i)
    PROVE  CoreInv'
<1>1. /\ i \in DOMAIN assignments /\ assignments[i].status = "leased"
      /\ assignments' = [assignments EXCEPT ![i].due = TRUE]
      /\ UNCHANGED <<jobs, models, workers, tasks>>
    BY DEF LeaseRunsOut, Live
<1>2. assignments \in [1 .. Len(assignments) -> Assignment]
    BY SeqIsFunction DEF CoreInv, StoreTypeOK
<1>3. assignments' \in [1 .. Len(assignments) -> Assignment]
    BY <1>1, <1>2 DEF Assignment
<1>4. \A k \in 1 .. Len(assignments) : assignments'[k].job = assignments[k].job
    BY <1>1, <1>2 DEF Assignment
<1>5. assignments' \in Seq(Assignment) /\ DOMAIN assignments' = DOMAIN assignments
    BY <1>3, FunctionIsSeq, CoreTypes
<1>6. StoreTypeOK'
    BY <1>1, <1>4, <1>5, CoreTypes DEF CoreInv, StoreTypeOK
<1> QED
    BY <1>1, <1>6 DEF CoreInv, OnlyNewestJobActive, ActiveJobs, OneActiveModel

-----------------------------------------------------------------------------
(* Leasing from a job has three outcomes. *)
LEMMA LeaseFromJobCore ==
    ASSUME CoreInv, NEW c \in Clients, NEW version \in 0 .. Len(models),
           LeaseFromJob(c, version)
    PROVE  CoreInv'
<1>2. CASE \E a \in DOMAIN assignments : LeaseReused(c, a)
    <2>1. PICK a \in DOMAIN assignments : LeaseReused(c, a)
        BY <1>2
    <2> QED
        BY <2>1, LeaseKeptCore DEF LeaseReused, JobStatus
<1>3. CASE LeaseRefused(c)
    <2>1. PICK s \in JobStatus : Started(ActiveJob, s)
        BY <1>3 DEF LeaseRefused, JobStatus
    <2> QED
        BY <1>3, <2>1, LeaseKeptCore DEF LeaseRefused
<1>4. CASE LeaseIssued(c, version)
    BY <1>4, LeaseIssuedCore
<1> QED
    BY <1>2, <1>3, <1>4 DEF LeaseFromJob

LEMMA CoreInit == StoreInit => CoreInv
<1> SUFFICES ASSUME StoreInit PROVE CoreInv
    OBVIOUS
<1>1. /\ jobs = <<>> /\ assignments = <<>> /\ models = <<>> /\ tasks = <<>>
      /\ workers = [w \in Workers |-> [status |-> "unregistered", task |-> 0]]
    BY DEF StoreInit
<1>2. \A T : <<>> \in Seq(T)
    OBVIOUS
<1>3. workers \in [Workers -> Worker] /\ \A w \in Workers : workers[w].task = 0
    BY <1>1 DEF Worker, WorkerStatus
<1>4. StoreTypeOK
    BY <1>1, <1>2, <1>3 DEF StoreTypeOK
<1> QED
    BY <1>1, <1>4 DEF CoreInv, OnlyNewestJobActive, ActiveJobs, OneActiveModel

LEMMA CoreNext == CoreInv /\ [StoreNext]_storeVars => CoreInv'
<1> SUFFICES ASSUME CoreInv, [StoreNext]_storeVars PROVE CoreInv'
    OBVIOUS
<1>0. Rounds \subseteq Nat /\ 0 .. Len(models) \subseteq Nat
    BY FederationAssumption, CoreTypes DEF Rounds
<1>1. ASSUME NEW spec \in JobSpecs, CreateTrainingJob(spec) PROVE CoreInv'
    BY <1>1, CreateTrainingJobCore
<1>2. ASSUME NEW r \in Rounds, RecordAggregatedModel(r) PROVE CoreInv'
    BY <1>0, <1>2, RecordAggregatedModelCore
<1>3. ASSUME NEW v \in DOMAIN models, RollbackModel(v) PROVE CoreInv'
    BY <1>3, RollbackModelCore
<1>4. ASSUME NEW c \in Clients, NEW v \in 0 .. Len(models), LeaseFromJob(c, v)
      PROVE  CoreInv'
    BY <1>4, LeaseFromJobCore
<1>5. ASSUME ExpireAssignments PROVE CoreInv'
    BY <1>5, ExpireAssignmentsCore
<1>6. ASSUME NEW req, AcceptedSubmission(req) PROVE CoreInv'
    BY <1>6, AcceptedSubmissionCore
<1>7. ASSUME RecordWeightSubmission PROVE CoreInv'
    BY <1>7, RecordWeightSubmissionCore
<1>8. ASSUME NEW r \in Rounds, NEW v \in 0 .. Len(models), AdvanceTrainingJobRound(r, v)
      PROVE  CoreInv'
    BY <1>0, <1>8, AdvanceTrainingJobRoundCore
<1>9. ASSUME NEW w \in Workers, UpsertWorker(w) PROVE CoreInv'
    BY <1>9, UpsertWorkerCore
<1>10. ASSUME NEW w \in Workers, NEW i \in DOMAIN assignments, LeaseWorkerTask(w, i)
       PROVE  CoreInv'
    BY <1>10, LeaseWorkerTaskCore
<1>11. ASSUME NEW w \in Workers, NEW t, NEW s \in ReportableStatus,
              UpdateWorkerTaskStatus(w, t, s)
       PROVE  CoreInv'
    BY <1>11, UpdateWorkerTaskStatusCore
<1>12. ASSUME NEW w \in Workers, NEW t \in {0} \union OwnTasks(w),
              RecordWorkerHeartbeat(w, t)
       PROVE  CoreInv'
    BY <1>12, RecordWorkerHeartbeatCore DEF OwnTasks
<1>13. ASSUME NEW i \in DOMAIN assignments, LeaseRunsOut(i) PROVE CoreInv'
    BY <1>13, LeaseRunsOutCore
<1>14. ASSUME UNCHANGED storeVars PROVE CoreInv'
    BY <1>14 DEF storeVars, CoreInv, StoreTypeOK, OnlyNewestJobActive, ActiveJobs,
                 OneActiveModel
<1>15. CASE CallbackOperation
    BY <1>15, <1>2, <1>4, <1>6, <1>7, <1>8 DEF CallbackOperation
<1>16. CASE ServiceOperation
    BY <1>16, <1>1, <1>3, <1>4, <1>9, <1>10, <1>11, <1>12 DEF ServiceOperation
<1> QED
    BY <1>5, <1>13, <1>14, <1>15, <1>16 DEF StoreNext

(* The three parts of CoreInv hold together, and every operation of the    *)
(* store's public interface preserves them.                                *)
THEOREM CoreInvariant == StoreSpec => []CoreInv
BY CoreInit, CoreNext, PTL DEF StoreSpec

(* The state store keeps its types, and every position a record names      *)
(* exists, under any order of calls of state_store.cpp's operations.       *)
THEOREM StoreTypeCorrect == StoreSpec => []StoreTypeOK
<1>1. CoreInv => StoreTypeOK
    BY DEF CoreInv
<1> QED
    BY <1>1, CoreInvariant, PTL

(* CreateTrainingJob supersedes every active job of its scope, and no      *)
(* other operation makes an old job active again.                          *)
THEOREM NewestJobOnly == StoreSpec => []OnlyNewestJobActive
<1>1. CoreInv => OnlyNewestJobActive
    BY DEF CoreInv
<1> QED
    BY <1>1, CoreInvariant, PTL

(* RecordAggregatedModel and RollbackModel leave exactly one version of a  *)
(* scope active.                                                           *)
THEOREM SingleActiveModel == StoreSpec => []OneActiveModel
<1>1. CoreInv => OneActiveModel
    BY DEF CoreInv
<1> QED
    BY <1>1, CoreInvariant, PTL

-----------------------------------------------------------------------------
(* Assignments.  Every step but the issue of a lease keeps the set of      *)
(* assignments and what they are for, moves statuses forward only, and     *)
(* brings no lease into force that was not.                                *)

SameLease(i) == /\ assignments'[i].job = assignments[i].job
                /\ assignments'[i].client = assignments[i].client
                /\ assignments'[i].round = assignments[i].round
                /\ assignments'[i].base = assignments[i].base
AssignmentsKept ==
    /\ DOMAIN assignments' = DOMAIN assignments
    /\ \A i \in DOMAIN assignments : SameLease(i) /\ MovesForward(i) /\ (Held(i)' => Held(i))

LEMMA UnchangedKept ==
    ASSUME UNCHANGED assignments
    PROVE  AssignmentsKept
BY DEF AssignmentsKept, SameLease, MovesForward, Held

LEMMA ExpiryKept ==
    ASSUME CoreInv, assignments' = Expired
    PROVE  AssignmentsKept
<1>1. \A i \in DOMAIN assignments : SameLease(i) /\ MovesForward(i)
    BY ExpiryTypes DEF SameLease, MovesForward
<1>2. ASSUME NEW i \in DOMAIN assignments, Held(i)' PROVE Held(i)
    <2>1. i \in Overdue => assignments[i].status = "leased"
        BY DEF Overdue
    <2>2. CASE i \in Overdue
        BY <2>1, <2>2 DEF Held
    <2>3. CASE i \notin Overdue
        <3>1. Expired[i] = assignments[i]
            BY <2>3, ExpiryTypes
        <3> QED
            BY <1>2, <2>3, <3>1 DEF Held
    <2> QED
        BY <2>2, <2>3
<1> QED
    BY <1>1, <1>2, ExpiryTypes DEF AssignmentsKept

LEMMA AcceptedSubmissionKept ==
    ASSUME CoreInv, NEW req, AcceptedSubmission(req)
    PROVE  AssignmentsKept
<1>1. /\ req.asg \in DOMAIN assignments /\ assignments[req.asg].status = "leased"
      /\ ~assignments[req.asg].due /\ req.asg \notin Overdue
      /\ assignments' = [Expired EXCEPT ![req.asg].status = "submitted"]
    BY DEF AcceptedSubmission, Submittable, Live, Overdue
<1>2. /\ Expired \in [1 .. Len(assignments) -> Assignment]
      /\ DOMAIN assignments = 1 .. Len(assignments)
    BY ExpiryTypes, SeqIsFunction
<1>3. DOMAIN assignments' = DOMAIN assignments
    BY <1>1, <1>2
<1>4. ASSUME NEW i \in DOMAIN assignments
      PROVE  SameLease(i) /\ MovesForward(i) /\ (Held(i)' => Held(i))
    <2>1. CASE i = req.asg
        <3>1. Expired[i] = assignments[i] /\ Expired[i] \in Assignment
            BY <1>1, <1>2, <2>1, ExpiryTypes
        <3>2. assignments'[i] = [assignments[i] EXCEPT !.status = "submitted"]
            BY <1>1, <1>2, <2>1, <3>1
        <3> QED
            BY <1>1, <2>1, <3>1, <3>2 DEF SameLease, MovesForward, Held, Assignment
    <2>2. CASE i # req.asg
        <3>1. assignments'[i] = Expired[i]
            BY <1>1, <1>2, <2>2
        <3>2. i \in Overdue => /\ Expired[i].status = "expired"
                               /\ assignments[i].status = "leased" /\ assignments[i].due
            BY ExpiryTypes
        <3>3. i \notin Overdue => Expired[i] = assignments[i]
            BY ExpiryTypes
        <3>4. SameLease(i)
            BY <3>1, ExpiryTypes DEF SameLease
        <3> QED
            BY <1>1, <3>1, <3>2, <3>3, <3>4 DEF MovesForward, Held
    <2> QED
        BY <2>1, <2>2
<1> QED
    BY <1>3, <1>4 DEF AssignmentsKept

LEMMA AdvanceKept ==
    ASSUME CoreInv, NEW r, NEW version, AdvanceTrainingJobRound(r, version)
    PROVE  AssignmentsKept
<1>1. CASE ~HasActiveJob
    BY <1>1, UnchangedKept DEF AdvanceTrainingJobRound, storeVars
<1>2. CASE HasActiveJob
    <2>1. assignments' = [i \in DOMAIN assignments |->
              IF i \in RoundAssignments(ActiveJob, r)
              THEN [assignments[i] EXCEPT !.status = ClosedAssignmentStatus(@)]
              ELSE assignments[i]]
        BY <1>2 DEF AdvanceTrainingJobRound
    <2>2. ASSUME NEW i \in DOMAIN assignments
          PROVE  SameLease(i) /\ MovesForward(i) /\ (Held(i)' => Held(i))
        <3>1. assignments[i] \in Assignment
            BY CoreTypes
        <3>2. \/ assignments'[i] = assignments[i]
              \/ assignments'[i] = [assignments[i] EXCEPT
                                       !.status = ClosedAssignmentStatus(assignments[i].status)]
            BY <2>1
        <3> QED
            BY <2>1, <3>1, <3>2 DEF SameLease, MovesForward, Held, Assignment,
                                    ClosedAssignmentStatus
    <2> QED
        BY <2>1, <2>2 DEF AssignmentsKept
<1> QED
    BY <1>1, <1>2

LEMMA LeaseRunsOutKept ==
    ASSUME CoreInv, NEW i \in DOMAIN assignments, LeaseRunsOut(i)
    PROVE  AssignmentsKept
<1>1. assignments' = [assignments EXCEPT ![i].due = TRUE]
    BY DEF LeaseRunsOut
<1>2. /\ assignments \in [1 .. Len(assignments) -> Assignment]
      /\ DOMAIN assignments = 1 .. Len(assignments)
    BY SeqIsFunction DEF CoreInv, StoreTypeOK
<1>3. ASSUME NEW k \in DOMAIN assignments
      PROVE  /\ SameLease(k)
             /\ assignments'[k].status = assignments[k].status
    BY <1>1, <1>2 DEF SameLease, Assignment
<1> QED
    BY <1>1, <1>2, <1>3 DEF AssignmentsKept, MovesForward, Held

LEMMA OnlyIssueAddsAssignments ==
    ASSUME CoreInv, [StoreNext]_storeVars
    PROVE  \/ AssignmentsKept
           \/ \E c \in Clients, v \in 0 .. Len(models) : LeaseIssued(c, v)
<1>1. ASSUME NEW spec, CreateTrainingJob(spec) PROVE AssignmentsKept
    BY <1>1, UnchangedKept DEF CreateTrainingJob
<1>2. ASSUME NEW r, RecordAggregatedModel(r) PROVE AssignmentsKept
    BY <1>2, UnchangedKept DEF RecordAggregatedModel
<1>3. ASSUME NEW v, RollbackModel(v) PROVE AssignmentsKept
    BY <1>3, UnchangedKept DEF RollbackModel
<1>4. ASSUME NEW c \in Clients, NEW v \in 0 .. Len(models), LeaseFromJob(c, v),
             ~LeaseIssued(c, v)
      PROVE  AssignmentsKept
    BY <1>4, ExpiryKept DEF LeaseFromJob, LeaseReused, LeaseRefused
<1>5. ASSUME ExpireAssignments PROVE AssignmentsKept
    BY <1>5, ExpiryKept DEF ExpireAssignments
<1>6. ASSUME NEW req, AcceptedSubmission(req) PROVE AssignmentsKept
    BY <1>6, AcceptedSubmissionKept
<1>7. ASSUME RecordWeightSubmission PROVE AssignmentsKept
    BY <1>7, UnchangedKept DEF RecordWeightSubmission, storeVars
<1>8. ASSUME NEW r, NEW v, AdvanceTrainingJobRound(r, v) PROVE AssignmentsKept
    BY <1>8, AdvanceKept
<1>9. ASSUME NEW w, UpsertWorker(w) PROVE AssignmentsKept
    BY <1>9, UnchangedKept DEF UpsertWorker
<1>10. ASSUME NEW w, NEW i, LeaseWorkerTask(w, i) PROVE AssignmentsKept
    BY <1>10, UnchangedKept DEF LeaseWorkerTask
<1>11. ASSUME NEW w, NEW t, NEW s, UpdateWorkerTaskStatus(w, t, s) PROVE AssignmentsKept
    BY <1>11, UnchangedKept DEF UpdateWorkerTaskStatus
<1>12. ASSUME NEW w, NEW t, RecordWorkerHeartbeat(w, t) PROVE AssignmentsKept
    BY <1>12, UnchangedKept DEF RecordWorkerHeartbeat
<1>13. ASSUME NEW i \in DOMAIN assignments, LeaseRunsOut(i) PROVE AssignmentsKept
    BY <1>13, LeaseRunsOutKept
<1>14. ASSUME UNCHANGED storeVars PROVE AssignmentsKept
    BY <1>14, UnchangedKept DEF storeVars
<1>15. CASE CallbackOperation
    BY <1>15, <1>2, <1>4, <1>6, <1>7, <1>8 DEF CallbackOperation
<1>16. CASE ServiceOperation
    BY <1>16, <1>1, <1>3, <1>4, <1>9, <1>10, <1>11, <1>12 DEF ServiceOperation
<1> QED
    BY <1>5, <1>13, <1>14, <1>15, <1>16 DEF StoreNext

(* A lease is issued at the next position, and only when every lease the   *)
(* client held for the job's current round has run out.                    *)
LEMMA LeaseIssuedShape ==
    ASSUME CoreInv, NEW c, NEW version, LeaseIssued(c, version)
    PROVE  /\ DOMAIN assignments' = DOMAIN assignments \union {Len(assignments) + 1}
           /\ \A i \in DOMAIN assignments : assignments'[i] = Expired[i]
           /\ assignments'[Len(assignments) + 1].job = ActiveJob
           /\ assignments'[Len(assignments) + 1].client = c
           /\ assignments'[Len(assignments) + 1].round = jobs[ActiveJob].round
           /\ assignments'[Len(assignments) + 1].base = version
           /\ assignments'[Len(assignments) + 1].status = "leased"
           /\ HeldLeases(ActiveJob, c) = {}
<1> DEFINE new == [job |-> ActiveJob, client |-> c, round |-> jobs[ActiveJob].round,
                   base |-> version, status |-> "leased", due |-> FALSE]
<1>1. assignments' = Append(Expired, new) /\ HeldLeases(ActiveJob, c) = {}
    BY DEF LeaseIssued
<1>2. Expired \in Seq(Assignment) /\ Len(Expired) = Len(assignments)
      /\ DOMAIN assignments = 1 .. Len(assignments) /\ Len(assignments) \in Nat
    BY ExpiryTypes, CoreTypes
<1>3. DOMAIN assignments' = 1 .. Len(assignments) + 1
      /\ \A i \in 1 .. Len(assignments) : assignments'[i] = Expired[i]
      /\ assignments'[Len(assignments) + 1] = new
    <2> HIDE DEF new
    <2> QED
        BY <1>1, <1>2
<1>4. DOMAIN assignments' = DOMAIN assignments \union {Len(assignments) + 1}
    BY <1>2, <1>3
<1> QED
    BY <1>1, <1>2, <1>3, <1>4

LEMMA LeaseIssuedForward ==
    ASSUME CoreInv, NEW c, NEW version, LeaseIssued(c, version)
    PROVE  \A i \in DOMAIN assignments : SameLease(i) /\ MovesForward(i)
BY LeaseIssuedShape, ExpiryTypes DEF SameLease, MovesForward

(* After the issue, a lease in force was in force before and has not run   *)
(* out, or is the new one.                                                 *)
LEMMA LeaseIssuedHeld ==
    ASSUME CoreInv, NEW c, NEW version, LeaseIssued(c, version),
           NEW i \in DOMAIN assignments, Held(i)'
    PROVE  Live(assignments[i]) /\ assignments'[i] = assignments[i]
<1>1. Expired[i].status = "leased" /\ assignments'[i] = Expired[i]
    BY LeaseIssuedShape DEF Held
<1>2. i \notin Overdue /\ Expired[i] = assignments[i]
    BY <1>1, ExpiryTypes
<1> QED
    BY <1>1, <1>2 DEF Overdue, Live

LEMMA LeaseExclusiveNext ==
    ASSUME CoreInv, LeaseExclusive, [StoreNext]_storeVars
    PROVE  LeaseExclusive'
<1>1. CASE AssignmentsKept
    <2>1. \A i \in DOMAIN assignments' : i \in DOMAIN assignments /\ SameLease(i)
                                         /\ (Held(i)' => Held(i))
        BY <1>1 DEF AssignmentsKept
    <2> QED
        BY <2>1 DEF LeaseExclusive, SameLease
<1>2. ASSUME NEW c \in Clients, NEW v, LeaseIssued(c, v)
      PROVE  LeaseExclusive'
    <2> DEFINE n == Len(assignments) + 1
               same(i, k) == /\ assignments'[i].job = assignments'[k].job
                             /\ assignments'[i].client = assignments'[k].client
                             /\ assignments'[i].round = assignments'[k].round
    <2>1. ASSUME NEW i \in DOMAIN assignments, Held(i)'
          PROVE  ~same(i, n)
        <3>1. Live(assignments[i]) /\ assignments'[i] = assignments[i]
            BY <1>2, <2>1, LeaseIssuedHeld
        <3>2. i \notin HeldLeases(ActiveJob, c)
            BY <1>2, LeaseIssuedShape
        <3>3. /\ assignments'[n].job = ActiveJob
              /\ assignments'[n].client = c
              /\ assignments'[n].round = jobs[ActiveJob].round
            BY <1>2, LeaseIssuedShape
        <3>4. ~(/\ assignments[i].job = ActiveJob
                /\ assignments[i].client = c
                /\ assignments[i].round = jobs[ActiveJob].round)
            BY <2>1, <3>1, <3>2 DEF HeldLeases
        <3> QED
            BY <3>1, <3>3, <3>4
    <2>2. ASSUME NEW i \in DOMAIN assignments, NEW k \in DOMAIN assignments,
                 Held(i)', Held(k)', same(i, k)
          PROVE  i = k
        <3>1. Live(assignments[i]) /\ assignments'[i] = assignments[i]
            BY <1>2, <2>2, LeaseIssuedHeld
        <3>2. Live(assignments[k]) /\ assignments'[k] = assignments[k]
            BY <1>2, <2>2, LeaseIssuedHeld
        <3> QED
            BY <2>2, <3>1, <3>2 DEF LeaseExclusive, Held, Live
    <2>3. ASSUME NEW i \in DOMAIN assignments', NEW k \in DOMAIN assignments',
                 Held(i)', Held(k)', same(i, k)
          PROVE  i = k
        <3>1. (i \in DOMAIN assignments \/ i = n) /\ (k \in DOMAIN assignments \/ k = n)
            BY <1>2, LeaseIssuedShape
        <3>2. CASE i = n /\ k \in DOMAIN assignments
            <4>1. same(k, n)
                BY <2>3, <3>2
            <4> QED
                BY <2>1, <2>3, <3>2, <4>1
        <3>3. CASE k = n /\ i \in DOMAIN assignments
            BY <2>1, <2>3, <3>3
        <3>4. CASE i \in DOMAIN assignments /\ k \in DOMAIN assignments
            BY <2>2, <2>3, <3>4
        <3> QED
            BY <3>1, <3>2, <3>3, <3>4
    <2> QED
        BY <2>3 DEF LeaseExclusive
<1> QED
    BY <1>1, <1>2, OnlyIssueAddsAssignments

(* LeaseTrainingAssignment never gives a client a second lease for a round *)
(* it still holds one for.                                                 *)
THEOREM LeaseExclusiveHolds == StoreSpec => []LeaseExclusive
<1>1. StoreInit => LeaseExclusive
    BY DEF StoreInit, LeaseExclusive
<1>2. CoreInv /\ LeaseExclusive /\ [StoreNext]_storeVars => LeaseExclusive'
    BY LeaseExclusiveNext
<1> QED
    BY <1>1, <1>2, CoreInvariant, PTL DEF StoreSpec

(* No operation of the store takes an assignment back to a status it left, *)
(* nor reports as aggregated one that was not submitted.                   *)
THEOREM AssignmentForwardHolds == StoreSpec => AssignmentForward
<1>1. CoreInv /\ [StoreNext]_storeVars
         => [\A i \in DOMAIN assignments : MovesForward(i)]_storeVars
    <2> SUFFICES ASSUME CoreInv, [StoreNext]_storeVars
                 PROVE  \A i \in DOMAIN assignments : MovesForward(i)
        OBVIOUS
    <2>1. CASE AssignmentsKept
        BY <2>1 DEF AssignmentsKept
    <2>2. CASE \E c \in Clients, v \in 0 .. Len(models) : LeaseIssued(c, v)
        BY <2>2, LeaseIssuedForward
    <2> QED
        BY <2>1, <2>2, OnlyIssueAddsAssignments
<1> QED
    BY <1>1, CoreInvariant, PTL DEF StoreSpec, AssignmentForward

-----------------------------------------------------------------------------
(* Workers and tasks.  A task never changes hands, and a worker only ever  *)
(* turns from idle towards a task of its own.                              *)

TasksKept ==
    /\ DOMAIN tasks \subseteq DOMAIN tasks'
    /\ \A t \in DOMAIN tasks : /\ tasks'[t].worker = tasks[t].worker
                               /\ tasks'[t].asg = tasks[t].asg
OwnsItsTask(w) == workers[w].task \in DOMAIN tasks /\ tasks[workers[w].task].worker = w
WorkersSound ==
    \A w \in Workers :
        \/ workers'[w].status = workers[w].status /\ workers'[w].task = workers[w].task
        \/ workers'[w].status = "idle"
        \/ OwnsItsTask(w)'
(* A task that is added is for a lease its worker has no task for. *)
NewTasksDistinct ==
    \A s, t \in DOMAIN tasks' :
        /\ t \notin DOMAIN tasks
        /\ tasks'[s].worker = tasks'[t].worker /\ tasks'[s].asg = tasks'[t].asg
        => s = t

LEMMA TasksUnchanged ==
    ASSUME UNCHANGED tasks
    PROVE  TasksKept /\ NewTasksDistinct
BY DEF TasksKept, NewTasksDistinct

LEMMA AcceptedSubmissionTasks ==
    ASSUME CoreInv, NEW req, AcceptedSubmission(req)
    PROVE  TasksKept /\ NewTasksDistinct /\ WorkersSound
<1>1. /\ tasks' = [t \in DOMAIN tasks |->
                      IF t \in TasksOf(req.asg)
                      THEN [tasks[t] EXCEPT !.status = "submitted"] ELSE tasks[t]]
      /\ workers' = [w \in Workers |->
                      IF \E t \in TasksOf(req.asg) : tasks[t].worker = w
                      THEN Idle(w, TasksOf(req.asg)) ELSE workers[w]]
    BY DEF AcceptedSubmission
<1>2. \A t \in DOMAIN tasks : /\ tasks'[t].worker = tasks[t].worker
                              /\ tasks'[t].asg = tasks[t].asg
    BY <1>1, CoreTypes DEF Task
<1>3. \A w \in Workers : workers'[w] = workers[w] \/ workers'[w].status = "idle"
    BY <1>1, IdleType
<1> QED
    BY <1>1, <1>2, <1>3 DEF TasksKept, NewTasksDistinct, WorkersSound

LEMMA AdvanceTasks ==
    ASSUME CoreInv, NEW r, NEW version, AdvanceTrainingJobRound(r, version)
    PROVE  TasksKept /\ NewTasksDistinct /\ WorkersSound
<1>1. CASE ~HasActiveJob
    BY <1>1, TasksUnchanged DEF AdvanceTrainingJobRound, storeVars, WorkersSound
<1>2. CASE HasActiveJob
    <2>1. /\ tasks' = [t \in DOMAIN tasks |->
                 IF t \in RoundTasks(ActiveJob, r)
                 THEN [tasks[t] EXCEPT !.status = ClosedTaskStatus(@)] ELSE tasks[t]]
          /\ workers' = [w \in Workers |->
                 IF workers[w].task \in {t \in RoundTasks(ActiveJob, r) : tasks[t].worker = w}
                 THEN [status |-> "idle", task |-> 0] ELSE workers[w]]
        BY <1>2 DEF AdvanceTrainingJobRound
    <2>2. \A t \in DOMAIN tasks : /\ tasks'[t].worker = tasks[t].worker
                                  /\ tasks'[t].asg = tasks[t].asg
        BY <2>1, CoreTypes DEF Task
    <2>3. \A w \in Workers : workers'[w] = workers[w] \/ workers'[w].status = "idle"
        BY <2>1
    <2> QED
        BY <2>1, <2>2, <2>3 DEF TasksKept, NewTasksDistinct, WorkersSound
<1> QED
    BY <1>1, <1>2

LEMMA UpsertWorkerTasks ==
    ASSUME CoreInv, NEW w \in Workers, UpsertWorker(w)
    PROVE  TasksKept /\ NewTasksDistinct /\ WorkersSound
<1>1. UNCHANGED tasks /\ workers' = [workers EXCEPT ![w].status = "idle"]
    BY DEF UpsertWorker
<1>2. workers \in [Workers -> Worker]
    BY DEF CoreInv, StoreTypeOK
<1>3. WorkersSound
    BY <1>1, <1>2 DEF WorkersSound, Worker
<1> QED
    BY <1>1, <1>3, TasksUnchanged

LEMMA LeaseWorkerTaskTasks ==
    ASSUME CoreInv, NEW w \in Workers, NEW a \in DOMAIN assignments, LeaseWorkerTask(w, a)
    PROVE  TasksKept /\ NewTasksDistinct /\ WorkersSound
<1> DEFINE mine == {t \in TasksOf(a) : tasks[t].worker = w}
           new == [worker |-> w, asg |-> a, status |-> "leased"]
<1>1. /\ tasks \in Seq(Task) /\ Len(tasks) \in Nat /\ DOMAIN tasks = 1 .. Len(tasks)
      /\ workers \in [Workers -> Worker]
    BY CoreTypes DEF CoreInv, StoreTypeOK
<1>2. CASE mine # {}
    <2>1. PICK t \in mine : workers' = [workers EXCEPT ![w] = [status |-> "leased", task |-> t]]
        BY <1>2 DEF LeaseWorkerTask
    <2>2. UNCHANGED tasks
        BY <1>2 DEF LeaseWorkerTask
    <2>3. t \in DOMAIN tasks /\ tasks[t].worker = w
        BY DEF TasksOf
    <2>4. WorkersSound
        BY <1>1, <2>1, <2>2, <2>3 DEF WorkersSound, OwnsItsTask
    <2> QED
        BY <2>2, <2>4, TasksUnchanged
<1>3. CASE mine = {}
    <2>1. tasks' = Append(tasks, new)
          /\ workers' = [workers EXCEPT ![w] = [status |-> "leased", task |-> Len(tasks) + 1]]
        BY <1>3 DEF LeaseWorkerTask
    <2>2. new \in Task /\ new.worker = w /\ new.asg = a
        BY CoreTypes DEF Task, TaskStatus, ReportableStatus
    <2>3. /\ DOMAIN tasks' = DOMAIN tasks \union {Len(tasks) + 1}
          /\ Len(tasks) + 1 \notin DOMAIN tasks
          /\ \A t \in DOMAIN tasks : tasks'[t] = tasks[t]
          /\ tasks'[Len(tasks) + 1] = new
        <3> HIDE DEF new
        <3> QED
            BY <1>1, <2>1, <2>2, AppendIsSeq
    <2>4. TasksKept
        BY <2>3 DEF TasksKept
    <2>5. NewTasksDistinct
        <3>1. \A s \in DOMAIN tasks : ~(tasks[s].worker = w /\ tasks[s].asg = a)
            BY <1>3 DEF TasksOf
        <3> HIDE DEF new, mine
        <3> QED
            BY <2>2, <2>3, <3>1 DEF NewTasksDistinct
    <2>6. WorkersSound
        <3>1. OwnsItsTask(w)'
            BY <1>1, <2>1, <2>2, <2>3 DEF OwnsItsTask
        <3>2. \A x \in Workers \ {w} : workers'[x] = workers[x]
            BY <1>1, <2>1
        <3> QED
            BY <3>1, <3>2 DEF WorkersSound
    <2> QED
        BY <2>4, <2>5, <2>6
<1> QED
    BY <1>2, <1>3

LEMMA UpdateWorkerTaskStatusTasks ==
    ASSUME CoreInv, NEW w \in Workers, NEW t, NEW s, UpdateWorkerTaskStatus(w, t, s)
    PROVE  TasksKept /\ NewTasksDistinct /\ WorkersSound
<1> DEFINE next == CASE s = "running" -> [status |-> "busy", task |-> t]
                     [] s = "leased"  -> [status |-> "leased", task |-> t]
                     [] OTHER         -> Idle(w, {t})
<1>1. /\ t \in DOMAIN tasks /\ tasks[t].worker = w
      /\ tasks' = [tasks EXCEPT ![t].status = s]
      /\ workers' = [workers EXCEPT ![w] = next]
    BY DEF UpdateWorkerTaskStatus
<1>2. tasks \in [1 .. Len(tasks) -> Task] /\ workers \in [Workers -> Worker]
    BY SeqIsFunction DEF CoreInv, StoreTypeOK
<1>3. /\ DOMAIN tasks' = DOMAIN tasks
      /\ \A u \in DOMAIN tasks : /\ tasks'[u].worker = tasks[u].worker
                                 /\ tasks'[u].asg = tasks[u].asg
    BY <1>1, <1>2 DEF Task
<1>4. next.status = "idle" \/ next.task = t
    BY IdleType
<1>5. WorkersSound
    <2>1. workers'[w] = next /\ \A x \in Workers \ {w} : workers'[x] = workers[x]
        BY <1>1, <1>2
    <2> HIDE DEF next
    <2> QED
        BY <1>1, <1>3, <1>4, <2>1 DEF WorkersSound, OwnsItsTask
<1> QED
    BY <1>3, <1>5 DEF TasksKept, NewTasksDistinct

LEMMA RecordWorkerHeartbeatTasks ==
    ASSUME CoreInv, NEW w \in Workers, NEW t \in {0} \union OwnTasks(w),
           RecordWorkerHeartbeat(w, t)
    PROVE  TasksKept /\ NewTasksDistinct /\ WorkersSound
<1> DEFINE next == IF t # 0 THEN [status |-> "busy", task |-> t]
                   ELSE IF workers[w].status # "leased"
                        THEN [workers[w] EXCEPT !.status = "idle"] ELSE workers[w]
<1>1. workers \in [Workers -> Worker]
    BY DEF CoreInv, StoreTypeOK
<1>2. workers' = [workers EXCEPT ![w] = next] /\ UNCHANGED tasks
    BY <1>1 DEF RecordWorkerHeartbeat
<1>3. \/ t \in DOMAIN tasks /\ tasks[t].worker = w /\ next.task = t
      \/ next.status = "idle"
      \/ next = workers[w]
    BY <1>1 DEF OwnTasks, Worker
<1>4. WorkersSound
    <2>1. workers'[w] = next /\ \A x \in Workers \ {w} : workers'[x] = workers[x]
        BY <1>1, <1>2
    <2> HIDE DEF next
    <2> QED
        BY <1>2, <1>3, <2>1 DEF WorkersSound, OwnsItsTask
<1> QED
    BY <1>2, <1>4, TasksUnchanged

LEMMA TasksNext ==
    ASSUME CoreInv, [StoreNext]_storeVars
    PROVE  TasksKept /\ NewTasksDistinct /\ WorkersSound
<1>0. ASSUME UNCHANGED <<workers, tasks>> PROVE TasksKept /\ NewTasksDistinct /\ WorkersSound
    BY <1>0, TasksUnchanged DEF WorkersSound
<1>1. ASSUME NEW spec, CreateTrainingJob(spec) PROVE UNCHANGED <<workers, tasks>>
    BY <1>1 DEF CreateTrainingJob
<1>2. ASSUME NEW r, RecordAggregatedModel(r) PROVE UNCHANGED <<workers, tasks>>
    BY <1>2 DEF RecordAggregatedModel
<1>3. ASSUME NEW v, RollbackModel(v) PROVE UNCHANGED <<workers, tasks>>
    BY <1>3 DEF RollbackModel
<1>4. ASSUME NEW c, NEW v, LeaseFromJob(c, v) PROVE UNCHANGED <<workers, tasks>>
    BY <1>4 DEF LeaseFromJob, LeaseReused, LeaseRefused, LeaseIssued
<1>5. ASSUME ExpireAssignments \/ RecordWeightSubmission PROVE UNCHANGED <<workers, tasks>>
    BY <1>5 DEF ExpireAssignments, RecordWeightSubmission, storeVars
<1>6. ASSUME NEW i, LeaseRunsOut(i) PROVE UNCHANGED <<workers, tasks>>
    BY <1>6 DEF LeaseRunsOut
<1>7. CASE CallbackOperation
    BY <1>7, <1>0, <1>2, <1>4, <1>5, AcceptedSubmissionTasks, AdvanceTasks
       DEF CallbackOperation
<1>8. CASE ServiceOperation
    BY <1>8, <1>0, <1>1, <1>3, <1>4, UpsertWorkerTasks, LeaseWorkerTaskTasks,
       UpdateWorkerTaskStatusTasks, RecordWorkerHeartbeatTasks
       DEF ServiceOperation
<1> QED
    BY <1>0, <1>5, <1>6, <1>7, <1>8 DEF StoreNext, storeVars

(* RecordWorkerHeartbeat, UpdateWorkerTaskStatus, LeaseWorkerTask and the  *)
(* closing of rounds never leave a worker at another worker's task.        *)
THEOREM BusyWorkerOwnsTaskHolds == StoreSpec => []BusyWorkerOwnsTask
<1>1. StoreInit => BusyWorkerOwnsTask
    BY DEF StoreInit, BusyWorkerOwnsTask
<1>2. CoreInv /\ BusyWorkerOwnsTask /\ [StoreNext]_storeVars => BusyWorkerOwnsTask'
    <2> SUFFICES ASSUME CoreInv, BusyWorkerOwnsTask, [StoreNext]_storeVars,
                        NEW w \in Workers, workers'[w].status \in {"leased", "busy"}
                 PROVE  OwnsItsTask(w)'
        BY DEF BusyWorkerOwnsTask, OwnsItsTask
    <2>1. TasksKept /\ WorkersSound
        BY TasksNext
    <2>2. CASE workers'[w].status = workers[w].status /\ workers'[w].task = workers[w].task
        BY <2>1, <2>2 DEF BusyWorkerOwnsTask, OwnsItsTask, TasksKept
    <2> QED
        BY <2>1, <2>2 DEF WorkersSound
<1> QED
    BY <1>1, <1>2, CoreInvariant, PTL DEF StoreSpec

(* LeaseWorkerTask gives a worker the task it already has for a lease.     *)
THEOREM OneTaskPerLeaseHolds == StoreSpec => []OneTaskPerLease
<1>1. StoreInit => OneTaskPerLease
    BY DEF StoreInit, OneTaskPerLease
<1>2. CoreInv /\ OneTaskPerLease /\ [StoreNext]_storeVars => OneTaskPerLease'
    <2> SUFFICES ASSUME CoreInv, OneTaskPerLease, [StoreNext]_storeVars
                 PROVE  OneTaskPerLease'
        OBVIOUS
    <2>1. TasksKept /\ NewTasksDistinct
        BY TasksNext
    <2> QED
        BY <2>1 DEF OneTaskPerLease, TasksKept, NewTasksDistinct
<1> QED
    BY <1>1, <1>2, CoreInvariant, PTL DEF StoreSpec

-----------------------------------------------------------------------------
(* Jobs keep what their administrator asked for. *)

JobsKept ==
    /\ DOMAIN jobs \subseteq DOMAIN jobs'
    /\ \A j \in DOMAIN jobs : /\ jobs'[j].planned = jobs[j].planned
                              /\ jobs'[j].min = jobs[j].min
    /\ \A j \in DOMAIN jobs' \ DOMAIN jobs : jobs'[j].planned \in Nat \ {0}

LEMMA JobsUnchanged ==
    ASSUME UNCHANGED jobs
    PROVE  JobsKept
BY DEF JobsKept

LEMMA CreateTrainingJobJobs ==
    ASSUME CoreInv, NEW spec \in JobSpecs, CreateTrainingJob(spec)
    PROVE  JobsKept
<1> DEFINE old == [j \in DOMAIN jobs |-> IF j \in ActiveJobs
                                         THEN [jobs[j] EXCEPT !.status = "superseded"]
                                         ELSE jobs[j]]
           new == NewJob(spec)
<1>1. new.planned \in Nat \ {0}
    BY StoreAssumption DEF NewJob
<1>2. old \in Seq(Job \union {new}) /\ Len(old) = Len(jobs) /\ DOMAIN old = DOMAIN jobs
    <2>1. old \in [1 .. Len(jobs) -> Job]
        BY CoreTypes DEF Job, JobStatus
    <2> HIDE DEF old, new
    <2>2. old \in [1 .. Len(jobs) -> Job \union {new}]
        BY <2>1
    <2> QED
        BY <2>2, FunctionIsSeq, CoreTypes
<1>3. \A j \in DOMAIN jobs : old[j].planned = jobs[j].planned /\ old[j].min = jobs[j].min
    BY CoreTypes DEF Job
<1>4. /\ DOMAIN jobs' = DOMAIN jobs \union {Len(jobs) + 1}
      /\ \A j \in DOMAIN jobs : jobs'[j] = old[j]
      /\ jobs'[Len(jobs) + 1] = new
    <2>1. jobs' = Append(old, new)
        BY DEF CreateTrainingJob
    <2>2. new \in Job \union {new}
        OBVIOUS
    <2> HIDE DEF old, new
    <2> QED
        BY <2>1, <2>2, <1>2, AppendIsSeq, CoreTypes
<1> HIDE DEF old, new
<1> QED
    BY <1>1, <1>3, <1>4 DEF JobsKept

LEMMA StartedJobs ==
    ASSUME CoreInv, NEW s, Started(ActiveJob, s)
    PROVE  JobsKept
<1>1. jobs' = [jobs EXCEPT ![ActiveJob].status = s]
    BY DEF Started
<1>2. \A j \in DOMAIN jobs : jobs'[j].planned = jobs[j].planned /\ jobs'[j].min = jobs[j].min
    BY <1>1, CoreTypes DEF Job
<1> QED
    BY <1>1, <1>2 DEF JobsKept

LEMMA AdvanceJobs ==
    ASSUME CoreInv, NEW r, NEW version, AdvanceTrainingJobRound(r, version)
    PROVE  JobsKept
<1>1. CASE ~HasActiveJob
    BY <1>1, JobsUnchanged DEF AdvanceTrainingJobRound, storeVars
<1>2. CASE HasActiveJob
    <2>1. jobs' = [jobs EXCEPT ![ActiveJob] = ClosedJob(ActiveJob, r, version)]
        BY <1>2 DEF AdvanceTrainingJobRound
    <2>2. jobs[ActiveJob] \in Job
        BY <1>2, ActiveJobIsNewest, CoreTypes DEF CoreInv
    <2>3. /\ ClosedJob(ActiveJob, r, version).planned = jobs[ActiveJob].planned
          /\ ClosedJob(ActiveJob, r, version).min = jobs[ActiveJob].min
        BY <2>2 DEF ClosedJob, Job
    <2> QED
        BY <2>1, <2>3, CoreTypes DEF JobsKept
<1> QED
    BY <1>1, <1>2

LEMMA JobsNext ==
    ASSUME CoreInv, [StoreNext]_storeVars
    PROVE  JobsKept
<1>2. ASSUME NEW r, RecordAggregatedModel(r) PROVE UNCHANGED jobs
    BY <1>2 DEF RecordAggregatedModel
<1>3. ASSUME NEW v, RollbackModel(v) PROVE UNCHANGED jobs
    BY <1>3 DEF RollbackModel
<1>4. ASSUME NEW c, NEW v, LeaseFromJob(c, v) PROVE JobsKept
    BY <1>4, StartedJobs DEF LeaseFromJob, LeaseReused, LeaseRefused, LeaseIssued
<1>5. ASSUME ExpireAssignments \/ RecordWeightSubmission PROVE UNCHANGED jobs
    BY <1>5 DEF ExpireAssignments, RecordWeightSubmission, storeVars
<1>6. ASSUME NEW i, LeaseRunsOut(i) PROVE UNCHANGED jobs
    BY <1>6 DEF LeaseRunsOut
<1>7. ASSUME NEW req, AcceptedSubmission(req) PROVE UNCHANGED jobs
    BY <1>7 DEF AcceptedSubmission
<1>8. ASSUME NEW w, UpsertWorker(w) PROVE UNCHANGED jobs
    BY <1>8 DEF UpsertWorker
<1>9. ASSUME NEW w, NEW i, LeaseWorkerTask(w, i) PROVE UNCHANGED jobs
    BY <1>9 DEF LeaseWorkerTask
<1>10. ASSUME NEW w, NEW t, NEW s, UpdateWorkerTaskStatus(w, t, s) PROVE UNCHANGED jobs
    BY <1>10 DEF UpdateWorkerTaskStatus
<1>11. ASSUME NEW w, NEW t, RecordWorkerHeartbeat(w, t) PROVE UNCHANGED jobs
    BY <1>11 DEF RecordWorkerHeartbeat
<1>12. CASE CallbackOperation
    BY <1>12, JobsUnchanged, <1>2, <1>4, <1>5, <1>7, AdvanceJobs DEF CallbackOperation
<1>13. CASE ServiceOperation
    BY <1>13, JobsUnchanged, CreateTrainingJobJobs, <1>3, <1>4, <1>8, <1>9, <1>10, <1>11
       DEF ServiceOperation
<1> QED
    BY <1>5, <1>6, <1>12, <1>13, JobsUnchanged DEF StoreNext, storeVars

-----------------------------------------------------------------------------
(* The leases in force for the round of a job. *)

LeasesOf(j, r) == {k \in DOMAIN assignments : /\ Held(k)
                                              /\ assignments[k].job = j
                                              /\ assignments[k].round = r}

CapacityInv ==
    /\ \A j \in DOMAIN jobs : jobs[j].planned \in Nat \ {0}
    /\ LeasesWithinCapacity

LEMMA LeasesFinite ==
    ASSUME CoreInv, NEW P, P \subseteq DOMAIN assignments
    PROVE  IsFiniteSet(P)
<1>1. IsFiniteSet(DOMAIN assignments)
    BY CoreTypes, FS_Interval
<1> QED
    BY <1>1, FS_Subset

(* A set of leases that only lost members keeps within the capacity. *)
LEMMA FewerLeases ==
    ASSUME CoreInv, CapacityInv, NEW i \in DOMAIN assignments, NEW P,
           P \subseteq LeasesOf(assignments[i].job, assignments[i].round)
    PROVE  Cardinality(P) <= jobs[assignments[i].job].planned
<1> DEFINE Q == LeasesOf(assignments[i].job, assignments[i].round)
<1>1. IsFiniteSet(Q)
    BY LeasesFinite DEF LeasesOf
<1>2. Cardinality(P) <= Cardinality(Q) /\ Cardinality(P) \in Nat /\ Cardinality(Q) \in Nat
    BY <1>1, FS_Subset, FS_CardinalityType
<1>3. Cardinality(Q) <= jobs[assignments[i].job].planned
    BY DEF CapacityInv, LeasesWithinCapacity, LeasesOf
<1>4. jobs[assignments[i].job].planned \in Nat
    BY DEF CapacityInv, CoreInv, StoreTypeOK
<1> QED
    BY <1>2, <1>3, <1>4

LEMMA CapacityNext ==
    ASSUME CoreInv, CapacityInv, [StoreNext]_storeVars
    PROVE  CapacityInv'
<1>1. JobsKept
    BY JobsNext
<1>2. \A j \in DOMAIN jobs' : jobs'[j].planned \in Nat \ {0}
    BY <1>1 DEF JobsKept, CapacityInv
<1>3. \A i \in DOMAIN assignments :
          jobs'[assignments[i].job].planned = jobs[assignments[i].job].planned
    BY <1>1 DEF JobsKept, CoreInv, StoreTypeOK
<1>4. CASE AssignmentsKept
    <2>1. ASSUME NEW i \in DOMAIN assignments'
          PROVE  Cardinality(LeasesOf(assignments[i].job, assignments[i].round)')
                     <= jobs'[assignments'[i].job].planned
        <3>1. i \in DOMAIN assignments /\ assignments'[i].job = assignments[i].job
              /\ assignments'[i].round = assignments[i].round
            BY <1>4 DEF AssignmentsKept, SameLease
        <3>2. LeasesOf(assignments[i].job, assignments[i].round)'
                  \subseteq LeasesOf(assignments[i].job, assignments[i].round)
            BY <1>4, <3>1 DEF AssignmentsKept, SameLease, LeasesOf
        <3> QED
            BY <1>3, <3>1, <3>2, FewerLeases
    <2> QED
        BY <1>2, <2>1 DEF CapacityInv, LeasesWithinCapacity, LeasesOf
<1>5. ASSUME NEW c \in Clients, NEW v, LeaseIssued(c, v)
      PROVE  CapacityInv'
    <2> DEFINE n == Len(assignments) + 1
               after(i) == LeasesOf(assignments[i].job, assignments[i].round)'
    <2>1. /\ DOMAIN assignments' = DOMAIN assignments \union {n}
          /\ n \notin DOMAIN assignments
          /\ assignments'[n].job = ActiveJob
          /\ assignments'[n].round = jobs[ActiveJob].round
          /\ ActiveJob \in DOMAIN jobs
        <3>1. n \notin DOMAIN assignments
            BY CoreTypes
        <3>2. ActiveJob \in DOMAIN jobs
            BY <1>5, ActiveJobIsNewest DEF LeaseIssued, CoreInv
        <3> QED
            BY <1>5, <3>1, <3>2, LeaseIssuedShape
    <2>2. \A k \in DOMAIN assignments :
              /\ assignments'[k].job = assignments[k].job
              /\ assignments'[k].round = assignments[k].round
              /\ Held(k)' => Live(assignments[k])
        BY <1>5, LeaseIssuedForward, LeaseIssuedHeld DEF SameLease
    <2>3. ASSUME NEW i \in DOMAIN assignments',
                 assignments'[i].job = ActiveJob, assignments'[i].round = jobs[ActiveJob].round
          PROVE  Cardinality(after(i)) <= jobs'[assignments'[i].job].planned
        <3>1. after(i) \subseteq RoundLeases(ActiveJob) \union {n}
            BY <2>1, <2>2, <2>3 DEF LeasesOf, RoundLeases
        <3>2. IsFiniteSet(RoundLeases(ActiveJob)) /\ n \notin RoundLeases(ActiveJob)
            BY <2>1, LeasesFinite DEF RoundLeases
        <3>3. /\ IsFiniteSet(RoundLeases(ActiveJob) \union {n})
              /\ Cardinality(RoundLeases(ActiveJob) \union {n})
                     = Cardinality(RoundLeases(ActiveJob)) + 1
            BY <3>2, FS_AddElement
        <3>4. Cardinality(after(i)) <= Cardinality(RoundLeases(ActiveJob)) + 1
            BY <3>1, <3>3, FS_Subset
        <3>5. RoundCapacity(ActiveJob) = jobs[ActiveJob].planned
            BY <2>1 DEF RoundCapacity, CapacityInv
        <3>6. Cardinality(RoundLeases(ActiveJob)) < jobs[ActiveJob].planned
            BY <1>5, <3>5 DEF LeaseIssued
        <3>7. jobs'[ActiveJob].planned = jobs[ActiveJob].planned
              /\ jobs[ActiveJob].planned \in Nat
            BY <1>1, <2>1 DEF JobsKept, CapacityInv
        <3>8. Cardinality(after(i)) \in Nat /\ Cardinality(RoundLeases(ActiveJob)) \in Nat
            BY <3>1, <3>2, <3>3, FS_Subset, FS_CardinalityType
        <3> HIDE DEF n, after
        <3> QED
            BY <2>3, <3>4, <3>6, <3>7, <3>8
    <2>4. ASSUME NEW i \in DOMAIN assignments',
                 ~(assignments'[i].job = ActiveJob /\ assignments'[i].round = jobs[ActiveJob].round)
          PROVE  Cardinality(after(i)) <= jobs'[assignments'[i].job].planned
        <3>1. i \in DOMAIN assignments
            BY <2>1, <2>4
        <3>2. after(i) \subseteq LeasesOf(assignments[i].job, assignments[i].round)
            BY <2>1, <2>2, <2>4, <3>1 DEF LeasesOf, Held, Live
        <3> QED
            BY <1>3, <2>2, <3>1, <3>2, FewerLeases
    <2> QED
        BY <1>2, <2>3, <2>4 DEF CapacityInv, LeasesWithinCapacity, LeasesOf
<1> QED
    BY <1>4, <1>5, OnlyIssueAddsAssignments

(* LeaseTrainingAssignment counts the leases in force only after the       *)
(* overdue ones have expired, so it never grants more than planned.        *)
THEOREM LeasesWithinCapacityHolds == StoreSpec => []LeasesWithinCapacity
<1>1. StoreInit => CapacityInv
    BY DEF StoreInit, CapacityInv, LeasesWithinCapacity
<1>2. CoreInv /\ CapacityInv /\ [StoreNext]_storeVars => CapacityInv'
    BY CapacityNext
<1>3. CapacityInv => LeasesWithinCapacity
    BY DEF CapacityInv
<1> QED
    BY <1>1, <1>2, <1>3, CoreInvariant, PTL DEF StoreSpec

-----------------------------------------------------------------------------
(* What the callers of the store can rely on across any of its operations: *)
(* positions stay, and so does what the record there is about.             *)

ModelsKept ==
    /\ DOMAIN models \subseteq DOMAIN models'
    /\ \A v \in DOMAIN models : models'[v].round = models[v].round
RecordsKept ==
    /\ DOMAIN assignments \subseteq DOMAIN assignments'
    /\ \A i \in DOMAIN assignments : SameLease(i)
    /\ \A i \in DOMAIN assignments' \ DOMAIN assignments :
          assignments'[i].base \in 0 .. Len(models)
    /\ JobsKept
    /\ ModelsKept

LEMMA ModelsUnchanged ==
    ASSUME UNCHANGED models
    PROVE  ModelsKept
BY DEF ModelsKept

LEMMA RecordAggregatedModelShape ==
    ASSUME CoreInv, NEW r \in Nat, RecordAggregatedModel(r)
    PROVE  /\ ModelsKept
           /\ Len(models') = Len(models) + 1
           /\ DOMAIN models' = DOMAIN models \union {Len(models) + 1}
           /\ models'[Len(models) + 1] = [round |-> r, active |-> TRUE]
           /\ \A v \in DOMAIN models : models'[v].active = FALSE
<1> DEFINE old == [v \in DOMAIN models |-> [models[v] EXCEPT !.active = FALSE]]
           new == [round |-> r, active |-> TRUE]
<1>1. old \in Seq(Model) /\ Len(old) = Len(models) /\ DOMAIN old = DOMAIN models
    <2>1. old \in [1 .. Len(models) -> Model]
        BY CoreTypes DEF Model
    <2> QED
        BY <2>1, FunctionIsSeq, CoreTypes
<1>2. \A v \in DOMAIN models : old[v].round = models[v].round /\ old[v].active = FALSE
    BY CoreTypes DEF Model
<1>3. models' = Append(old, new) /\ new \in Model
    BY DEF RecordAggregatedModel, Model
<1> HIDE DEF old
<1> QED
    BY <1>1, <1>2, <1>3, AppendIsSeq, CoreTypes DEF ModelsKept

LEMMA ModelsNext ==
    ASSUME CoreInv, [StoreNext]_storeVars
    PROVE  ModelsKept
<1>1. ASSUME NEW spec, CreateTrainingJob(spec) PROVE UNCHANGED models
    BY <1>1 DEF CreateTrainingJob
<1>2. ASSUME NEW r \in Rounds, RecordAggregatedModel(r) PROVE ModelsKept
    <2>1. r \in Nat
        BY FederationAssumption DEF Rounds
    <2> QED
        BY <1>2, <2>1, RecordAggregatedModelShape
<1>3. ASSUME NEW v, RollbackModel(v) PROVE ModelsKept
    BY <1>3, CoreTypes DEF RollbackModel, ModelsKept, Model
<1>4. ASSUME NEW c, NEW v, LeaseFromJob(c, v) PROVE UNCHANGED models
    BY <1>4 DEF LeaseFromJob, LeaseReused, LeaseRefused, LeaseIssued
<1>5. ASSUME ExpireAssignments \/ RecordWeightSubmission PROVE UNCHANGED models
    BY <1>5 DEF ExpireAssignments, RecordWeightSubmission, storeVars
<1>6. ASSUME NEW i, LeaseRunsOut(i) PROVE UNCHANGED models
    BY <1>6 DEF LeaseRunsOut
<1>7. ASSUME NEW req, AcceptedSubmission(req) PROVE UNCHANGED models
    BY <1>7 DEF AcceptedSubmission
<1>8. ASSUME NEW w, UpsertWorker(w) PROVE UNCHANGED models
    BY <1>8 DEF UpsertWorker
<1>9. ASSUME NEW w, NEW i, LeaseWorkerTask(w, i) PROVE UNCHANGED models
    BY <1>9 DEF LeaseWorkerTask
<1>10. ASSUME NEW w, NEW t, NEW s, UpdateWorkerTaskStatus(w, t, s) PROVE UNCHANGED models
    BY <1>10 DEF UpdateWorkerTaskStatus
<1>11. ASSUME NEW w, NEW t, RecordWorkerHeartbeat(w, t) PROVE UNCHANGED models
    BY <1>11 DEF RecordWorkerHeartbeat
<1>12. ASSUME NEW r, NEW v, AdvanceTrainingJobRound(r, v) PROVE UNCHANGED models
    BY <1>12 DEF AdvanceTrainingJobRound, storeVars
<1>13. CASE CallbackOperation
    BY <1>13, ModelsUnchanged, <1>2, <1>4, <1>5, <1>7, <1>12 DEF CallbackOperation
<1>14. CASE ServiceOperation
    BY <1>14, ModelsUnchanged, <1>1, <1>3, <1>4, <1>8, <1>9, <1>10, <1>11
       DEF ServiceOperation
<1> QED
    BY <1>5, <1>6, <1>13, <1>14, ModelsUnchanged DEF StoreNext, storeVars

LEMMA RecordsNext ==
    ASSUME CoreInv, [StoreNext]_storeVars
    PROVE  RecordsKept
<1>1. JobsKept /\ ModelsKept
    BY JobsNext, ModelsNext
<1>2. CASE AssignmentsKept
    BY <1>1, <1>2 DEF AssignmentsKept, RecordsKept
<1>3. ASSUME NEW c \in Clients, NEW v \in 0 .. Len(models), LeaseIssued(c, v)
      PROVE  RecordsKept
    BY <1>1, <1>3, LeaseIssuedShape, LeaseIssuedForward DEF RecordsKept
<1> QED
    BY <1>2, <1>3, OnlyIssueAddsAssignments

(* Only AcceptTrainingAssignmentSubmission and AdvanceTrainingJobRound     *)
(* change which assignments are submitted or aggregated.                   *)
TakenStatus == {"submitted", "aggregated"}
TakenKept ==
    \A i \in DOMAIN assignments' :
        assignments'[i].status \in TakenStatus =>
            i \in DOMAIN assignments /\ assignments[i].status = assignments'[i].status

LEMMA TakenUnchanged ==
    ASSUME UNCHANGED assignments
    PROVE  TakenKept
BY DEF TakenKept

LEMMA ExpiryTaken ==
    ASSUME CoreInv, assignments' = Expired
    PROVE  TakenKept
BY ExpiryTypes DEF TakenKept, TakenStatus

LEMMA LeaseFromJobTaken ==
    ASSUME CoreInv, NEW c, NEW v, LeaseFromJob(c, v)
    PROVE  TakenKept
<1>1. CASE LeaseIssued(c, v)
    BY <1>1, LeaseIssuedShape, ExpiryTypes DEF TakenKept, TakenStatus
<1> QED
    BY <1>1, ExpiryTaken DEF LeaseFromJob, LeaseReused, LeaseRefused

LEMMA LeaseRunsOutTaken ==
    ASSUME CoreInv, NEW i \in DOMAIN assignments, LeaseRunsOut(i)
    PROVE  TakenKept
<1>1. assignments' = [assignments EXCEPT ![i].due = TRUE]
    BY DEF LeaseRunsOut
<1>2. assignments \in [1 .. Len(assignments) -> Assignment]
    BY SeqIsFunction DEF CoreInv, StoreTypeOK
<1>3. \A k \in DOMAIN assignments : assignments'[k].status = assignments[k].status
    BY <1>1, <1>2 DEF Assignment
<1> QED
    BY <1>1, <1>2, <1>3 DEF TakenKept

=============================================================================
