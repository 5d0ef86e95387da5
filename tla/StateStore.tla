------------------------------ MODULE StateStore ------------------------------
(***************************************************************************)
(* The control plane's persistent state (server/state_store.cpp) for one   *)
(* tenant/model scope: training jobs, assignment leases, model versions,   *)
(* workers and worker tasks.  Every public operation runs under the        *)
(* store's mutex, so each is one atomic action here.                       *)
(*                                                                         *)
(* Records live in vectors that only grow, so a job, assignment, model or  *)
(* task is named by its position; 0 stands for the empty identifier.       *)
(* Wall-clock time is abstracted to one bit per assignment: `due' says     *)
(* that expires_at <= now.                                                 *)
(***************************************************************************)
EXTENDS FederationBase

CONSTANTS
    Workers,            \* worker identifiers
    TrainerOf,          \* the trainer client each worker registers
    JobSpecs,           \* target/planned/min triples an administrator asks for
    DefaultMinClients,  \* config.fl.required_clients
    MaxJobs,            \* bound on created training jobs
    MaxAssignments,     \* bound on issued assignments
    MaxModels,          \* bound on recorded model versions
    MaxDue              \* bound on the number of leases that run out

ASSUME StoreAssumption ==
    /\ TrainerOf \in [Workers -> Clients]
    /\ JobSpecs \subseteq [target : Nat \ {0}, planned : Nat \ {0}, min : Nat \ {0}]
    /\ DefaultMinClients \in Nat \ {0}
    /\ {MaxJobs, MaxAssignments, MaxModels, MaxDue} \subseteq Nat

VARIABLES
    jobs,         \* training_jobs_
    assignments,  \* assignments_
    models,       \* models_; a model's version is its position
    workers,      \* workers_
    tasks         \* worker_tasks_

storeVars == <<jobs, assignments, models, workers, tasks>>

JobStatus == {"planned", "running", "completed", "superseded"}
AssignmentStatus == {"leased", "submitted", "expired", "missed", "aggregated"}
WorkerStatus == {"unregistered", "idle", "leased", "busy"}
ReportableStatus ==
    {"leased", "running", "completed", "failed", "submitted", "aggregated"}
TaskStatus == ReportableStatus \union {"missed"}

Job == [target : Nat, planned : Nat, min : Nat,
        status : JobStatus, round : Nat, completed : Nat, model : Nat]
Assignment == [job : Nat, client : Clients, round : Nat, base : Nat,
               status : AssignmentStatus, due : BOOLEAN]
Model == [round : Nat, active : BOOLEAN]
Worker == [status : WorkerStatus, task : Nat]
Task == [worker : Workers, asg : Nat, status : TaskStatus]

(* What a client names when it submits weights; job = asg = 0 is an ad-hoc *)
(* submission outside any scheduled job.                                   *)
Request == [client : Clients, job : Nat, asg : Nat, round : Nat, base : Nat]

-----------------------------------------------------------------------------
(* Lookups *)

IsActiveJobStatus(s) == s \in {"planned", "running"}

ActiveJobs == {j \in DOMAIN jobs : IsActiveJobStatus(jobs[j].status)}
HasActiveJob == ActiveJobs # {}
(* Lookups walk training_jobs_ from the back. *)
ActiveJob == CHOOSE j \in ActiveJobs : \A k \in ActiveJobs : k <= j

ActiveModels == {v \in DOMAIN models : models[v].active}
(* 0 when no model of the scope is active. *)
ActiveModelVersion ==
    IF ActiveModels = {} THEN 0
    ELSE CHOOSE v \in ActiveModels : \A u \in ActiveModels : v <= u

Live(a) == a.status = "leased" /\ ~a.due

(* Leases whose time has come; every operation that reads leases first     *)
(* turns them to expired, in memory.                                       *)
Overdue == {i \in DOMAIN assignments : /\ assignments[i].status = "leased"
                                       /\ assignments[i].due}
Expired == [i \in DOMAIN assignments |->
               IF i \in Overdue
               THEN [assignments[i] EXCEPT !.status = "expired"]
               ELSE assignments[i]]

(* Mutant: a lease for an older base version is not found. *)
HeldLeasesOfBase(j, c) == {i \in DOMAIN assignments :
                              /\ assignments[i].job = j
                              /\ assignments[i].client = c
                              /\ assignments[i].round = jobs[j].round
                              /\ assignments[i].base = ActiveModelVersion
                              /\ Live(assignments[i])}
HeldLeases(j, c) == {i \in DOMAIN assignments :
                        /\ assignments[i].job = j
                        /\ assignments[i].client = c
                        /\ assignments[i].round = jobs[j].round
                        /\ Live(assignments[i])}
(* Mutant: leases are counted per base version. *)
RoundLeasesOfBase(j) == {i \in DOMAIN assignments :
                            /\ assignments[i].job = j
                            /\ assignments[i].round = jobs[j].round
                            /\ assignments[i].base = ActiveModelVersion
                            /\ Live(assignments[i])}
RoundLeases(j) == {i \in DOMAIN assignments :
                        /\ assignments[i].job = j
                        /\ assignments[i].round = jobs[j].round
                        /\ Live(assignments[i])}
RoundCapacity(j) ==
    IF jobs[j].planned > 0 THEN jobs[j].planned
    ELSE IF jobs[j].min > 0 THEN jobs[j].min ELSE DefaultMinClients

Finished(j) == jobs[j].target > 0 /\ jobs[j].completed >= jobs[j].target

(* ExpireAssignmentsLocked with nothing else.                              *)
ExpireAssignments ==
    /\ assignments' = Expired
    /\ UNCHANGED <<jobs, models, workers, tasks>>

-----------------------------------------------------------------------------
(* Training jobs and models *)

NewJob(spec) ==
    [target |-> spec.target, planned |-> spec.planned, min |-> spec.min,
     status |-> "planned", round |-> 1, completed |-> 0, model |-> ActiveModelVersion]

(* Mutant: only jobs that have started are superseded. *)
CreateTrainingJobKeepsPlanned(spec) ==
    /\ Len(jobs) < MaxJobs
    /\ jobs' = Append([j \in DOMAIN jobs |->
                          IF jobs[j].status = "running"
                          THEN [jobs[j] EXCEPT !.status = "superseded"]
                          ELSE jobs[j]],
                      NewJob(spec))
    /\ UNCHANGED <<assignments, models, workers, tasks>>
CreateTrainingJob(spec) ==
    /\ Len(jobs) < MaxJobs
    /\ jobs' = Append([j \in DOMAIN jobs |->
                          IF j \in ActiveJobs
                          THEN [jobs[j] EXCEPT !.status = "superseded"]
                          ELSE jobs[j]],
                      NewJob(spec))
    /\ UNCHANGED <<assignments, models, workers, tasks>>

(* The new version is one above every stored one and the only active one. *)
RecordAggregatedModel(r) ==
    /\ Len(models) < MaxModels
    /\ models' = Append([v \in DOMAIN models |-> [models[v] EXCEPT !.active = FALSE]],
                        [round |-> r, active |-> TRUE])
    /\ UNCHANGED <<jobs, assignments, workers, tasks>>

(* Mutant: the versions above the target stay active. *)
RollbackModelKeepsNewer(target) ==
    /\ target \in DOMAIN models
    /\ models' = [models EXCEPT ![target].active = TRUE]
    /\ UNCHANGED <<jobs, assignments, workers, tasks>>
RollbackModel(target) ==
    /\ target \in DOMAIN models
    /\ models' = [v \in DOMAIN models |-> [models[v] EXCEPT !.active = (v = target)]]
    /\ UNCHANGED <<jobs, assignments, workers, tasks>>

-----------------------------------------------------------------------------
(* Assignment leases *)

LeaseWithoutJob ==
    /\ ~HasActiveJob
    /\ ExpireAssignments

Started(j, s) == jobs' = [jobs EXCEPT ![j].status = s]

(* The caller still holds a live lease for the current round. *)
LeaseReused(c, a) ==
    /\ HasActiveJob /\ ~Finished(ActiveJob)
    /\ a \in HeldLeases(ActiveJob, c)
    /\ \A b \in HeldLeases(ActiveJob, c) : a <= b
    /\ Started(ActiveJob, "running")
    /\ assignments' = Expired
    /\ UNCHANGED <<models, workers, tasks>>

LeaseRefused(c) ==
    /\ HasActiveJob
    /\ \/ Finished(ActiveJob)
       \/ /\ HeldLeases(ActiveJob, c) = {}
          /\ Cardinality(RoundLeases(ActiveJob)) >= RoundCapacity(ActiveJob)
    /\ Started(ActiveJob, IF Finished(ActiveJob) THEN "completed" ELSE "running")
    /\ assignments' = Expired
    /\ UNCHANGED <<models, workers, tasks>>

LeaseIssued(c, version) ==
    /\ HasActiveJob /\ ~Finished(ActiveJob)
    /\ HeldLeases(ActiveJob, c) = {}
    /\ Cardinality(RoundLeases(ActiveJob)) < RoundCapacity(ActiveJob)
    /\ Len(assignments) < MaxAssignments
    /\ Started(ActiveJob, "running")
    /\ assignments' = Append(Expired,
           [job |-> ActiveJob, client |-> c, round |-> jobs[ActiveJob].round,
            base |-> version, status |-> "leased", due |-> FALSE])
    /\ UNCHANGED <<models, workers, tasks>>

LeaseFromJob(c, version) ==
    \/ \E a \in DOMAIN assignments : LeaseReused(c, a)
    \/ LeaseRefused(c)
    \/ LeaseIssued(c, version)
LeaseTrainingAssignment(c, version) ==
    LeaseWithoutJob \/ LeaseFromJob(c, version)

(* The checks Validate and Accept share, after expiry. *)
Submittable(req) ==
    /\ req.job = ActiveJob
    /\ req.asg \in DOMAIN assignments
    /\ assignments[req.asg].client = req.client
    /\ Live(assignments[req.asg])
    /\ assignments[req.asg].round = req.round
    /\ \/ req.base = 0
       \/ assignments[req.asg].base = 0
       \/ req.base = assignments[req.asg].base

(* Whether the call succeeds is Submittable, or no job being active. *)
ValidateTrainingAssignmentSubmission(req) == ExpireAssignments

TasksOf(a) == {t \in DOMAIN tasks : tasks[t].asg = a}

(* Mutant: the task is cleared, the status forgotten. *)
IdleKeepsStatus(w, done) ==
    IF workers[w].task \in done THEN [workers[w] EXCEPT !.task = 0]
    ELSE [workers[w] EXCEPT !.status = "idle"]
Idle(w, done) == IF workers[w].task \in done
                 THEN [status |-> "idle", task |-> 0]
                 ELSE [workers[w] EXCEPT !.status = "idle"]

AcceptedSubmission(req) ==
    /\ HasActiveJob /\ Submittable(req)
    /\ assignments' = [Expired EXCEPT ![req.asg].status = "submitted"]
    /\ tasks' = [t \in DOMAIN tasks |->
                    IF t \in TasksOf(req.asg)
                    THEN [tasks[t] EXCEPT !.status = "submitted"] ELSE tasks[t]]
    /\ workers' = [w \in Workers |->
                    IF \E t \in TasksOf(req.asg) : tasks[t].worker = w
                    THEN Idle(w, TasksOf(req.asg)) ELSE workers[w]]
    /\ UNCHANGED <<jobs, models>>

UnacceptedSubmission(req) ==
    /\ ~(HasActiveJob /\ Submittable(req))
    /\ ExpireAssignments

AcceptTrainingAssignmentSubmission(req) ==
    \/ AcceptedSubmission(req)
    \/ UnacceptedSubmission(req)

(* UpdateClientLastRound and RecordWeightSubmission touch counters only.   *)
RecordWeightSubmission == UNCHANGED storeVars

RoundAssignments(j, r) == {i \in DOMAIN assignments :
                              assignments[i].job = j /\ assignments[i].round = r}
RoundTasks(j, r) == {t \in DOMAIN tasks : tasks[t].asg \in RoundAssignments(j, r)}

(* Mutant: a lease that was not used counts as aggregated. *)
ClosedAssignmentStatusAll(s) ==
    IF s \in {"submitted", "leased"} THEN "aggregated" ELSE s
ClosedAssignmentStatus(s) ==
    IF s = "submitted" THEN "aggregated" ELSE IF s = "leased" THEN "missed" ELSE s
ClosedTaskStatus(s) ==
    IF s \in {"submitted", "completed"} THEN "aggregated"
    ELSE IF s \in {"leased", "running"} THEN "missed" ELSE s

(* Mutant: the next round is counted, but not opened. *)
ClosedJobSameRound(j, r, version) ==
    [jobs[j] EXCEPT !.completed = @ + 1, !.round = r, !.model = version]
ClosedJob(j, r, version) ==
    LET completed == jobs[j].completed + 1 IN
    [jobs[j] EXCEPT !.status = IF jobs[j].target > 0 /\ completed >= jobs[j].target
                               THEN "completed" ELSE "running",
                    !.completed = completed,
                    !.round = r + 1,
                    !.model = version]

(* Closes round r of whichever job is active now.  No job, no effect. *)
AdvanceTrainingJobRound(r, version) ==
    LET j == ActiveJob IN
    IF ~HasActiveJob THEN UNCHANGED storeVars
    ELSE
    /\ assignments' = [i \in DOMAIN assignments |->
           IF i \in RoundAssignments(j, r)
           THEN [assignments[i] EXCEPT !.status = ClosedAssignmentStatus(@)]
           ELSE assignments[i]]
    /\ tasks' = [t \in DOMAIN tasks |->
           IF t \in RoundTasks(j, r)
           THEN [tasks[t] EXCEPT !.status = ClosedTaskStatus(@)] ELSE tasks[t]]
    /\ workers' = [w \in Workers |->
           IF workers[w].task \in {t \in RoundTasks(j, r) : tasks[t].worker = w}
           THEN [status |-> "idle", task |-> 0] ELSE workers[w]]
    /\ jobs' = [jobs EXCEPT ![j] = ClosedJob(j, r, version)]
    /\ UNCHANGED models

-----------------------------------------------------------------------------
(* Workers and their tasks *)

UpsertWorker(w) ==
    /\ workers' = [workers EXCEPT ![w].status = "idle"]
    /\ UNCHANGED <<jobs, assignments, models, tasks>>

(* Mutant: the worker's task is not looked up first. *)
LeaseWorkerTaskAgain(w, a) ==
    /\ workers[w].status # "unregistered"
    /\ tasks' = Append(tasks, [worker |-> w, asg |-> a, status |-> "leased"])
    /\ workers' = [workers EXCEPT ![w] = [status |-> "leased", task |-> Len(tasks) + 1]]
    /\ UNCHANGED <<jobs, assignments, models>>
(* Mutant: a reused task is announced under a fresh identifier. *)
LeaseWorkerTaskRenamed(w, a) ==
    /\ workers[w].status # "unregistered"
    /\ tasks' = IF \E t \in TasksOf(a) : tasks[t].worker = w THEN tasks
                ELSE Append(tasks, [worker |-> w, asg |-> a, status |-> "leased"])
    /\ workers' = [workers EXCEPT ![w] = [status |-> "leased", task |-> Len(tasks) + 1]]
    /\ UNCHANGED <<jobs, assignments, models>>
LeaseWorkerTask(w, a) ==
    LET mine == {t \in TasksOf(a) : tasks[t].worker = w} IN
    /\ workers[w].status # "unregistered"
    /\ IF mine # {}
       THEN /\ UNCHANGED tasks
            /\ \E t \in mine : workers' = [workers EXCEPT ![w] =
                                              [status |-> "leased", task |-> t]]
       ELSE /\ tasks' = Append(tasks, [worker |-> w, asg |-> a, status |-> "leased"])
            /\ workers' = [workers EXCEPT ![w] =
                              [status |-> "leased", task |-> Len(tasks) + 1]]
    /\ UNCHANGED <<jobs, assignments, models>>

(* Any reportable status is taken, whatever the task's status was. *)
UpdateWorkerTaskStatus(w, t, s) ==
    /\ t \in DOMAIN tasks /\ tasks[t].worker = w
    /\ tasks' = [tasks EXCEPT ![t].status = s]
    /\ workers' = [workers EXCEPT ![w] =
           CASE s = "running" -> [status |-> "busy", task |-> t]
             [] s = "leased"  -> [status |-> "leased", task |-> t]
             [] OTHER         -> Idle(w, {t})]
    /\ UNCHANGED <<jobs, assignments, models>>

(* The task a heartbeat names (0: none) is taken as it comes. *)
RecordWorkerHeartbeat(w, t) ==
    /\ workers[w].status # "unregistered"
    /\ workers' = [workers EXCEPT ![w] =
           IF t # 0 THEN [status |-> "busy", task |-> t]
           ELSE IF @.status # "leased" THEN [@ EXCEPT !.status = "idle"] ELSE @]
    /\ UNCHANGED <<jobs, assignments, models, tasks>>

-----------------------------------------------------------------------------
(* Time and restart *)

(* A lease runs out.  Leases of a job share one TTL, so they run out in    *)
(* the order they were issued.                                             *)
LeaseRunsOut(i) ==
    /\ i \in DOMAIN assignments /\ Live(assignments[i])
    /\ Cardinality({k \in DOMAIN assignments : assignments[k].due}) < MaxDue
    /\ \A k \in DOMAIN assignments :
          k < i /\ assignments[k].job = assignments[i].job => ~Live(assignments[k])
    /\ assignments' = [assignments EXCEPT ![i].due = TRUE]
    /\ UNCHANGED <<jobs, models, workers, tasks>>

(* Load reads the file back and expires the leases that ran out meanwhile; *)
(* module PersistentStore says what is in the file.                        *)
Reload == ExpireAssignments

-----------------------------------------------------------------------------
StoreInit ==
    /\ jobs = <<>>
    /\ assignments = <<>>
    /\ models = <<>>
    /\ workers = [w \in Workers |-> [status |-> "unregistered", task |-> 0]]
    /\ tasks = <<>>

(* The tasks a worker was ever leased, which its heartbeats may name. *)
OwnTasks(w) == {t \in DOMAIN tasks : tasks[t].worker = w}

(* The operations of completion-queue threads that save the file ...       *)
CallbackOperation ==
    \/ \E c \in Clients, v \in 0 .. Len(models) : LeaseFromJob(c, v)
    \/ \E i \in DOMAIN assignments, b \in 0 .. Len(models) :
          AcceptedSubmission([client |-> assignments[i].client,
                              job |-> assignments[i].job, asg |-> i,
                              round |-> assignments[i].round, base |-> b])
    \/ RecordWeightSubmission
    \/ \E r \in Rounds : RecordAggregatedModel(r)
    \/ \E r \in Rounds, v \in 0 .. Len(models) :
          HasActiveJob /\ AdvanceTrainingJobRound(r, v)

(* ... and those of synchronous service threads (leases come from both).   *)
ServiceOperation ==
    \/ \E spec \in JobSpecs : CreateTrainingJob(spec)
    \/ \E v \in DOMAIN models : RollbackModel(v)
    \/ \E c \in Clients, v \in 0 .. Len(models) : LeaseFromJob(c, v)
    \/ \E w \in Workers : UpsertWorker(w)
    \/ \E w \in Workers, i \in DOMAIN assignments :
          assignments[i].client = TrainerOf[w] /\ LeaseWorkerTask(w, i)
    \/ \E w \in Workers, t \in DOMAIN tasks, s \in ReportableStatus :
          UpdateWorkerTaskStatus(w, t, s)
    \/ \E w \in Workers : \E t \in {0} \union OwnTasks(w) : RecordWorkerHeartbeat(w, t)

(* The store under arbitrary callers: any operation, at any moment, with   *)
(* any arguments its callers can form; those that fail may still expire    *)
(* leases.                                                                 *)
StoreNext ==
    \/ CallbackOperation
    \/ ServiceOperation
    \/ ExpireAssignments
    \/ \E i \in DOMAIN assignments : LeaseRunsOut(i)

StoreSpec == StoreInit /\ [][StoreNext]_storeVars

-----------------------------------------------------------------------------
(* Properties: what the store guarantees to any callers *)

(* Every record has its type, and every position a record names exists.    *)
StoreTypeOK ==
    /\ jobs \in Seq(Job)
    /\ assignments \in Seq(Assignment)
    /\ models \in Seq(Model)
    /\ workers \in [Workers -> Worker]
    /\ tasks \in Seq(Task)
    /\ \A i \in DOMAIN assignments : assignments[i].job \in DOMAIN jobs
    /\ \A t \in DOMAIN tasks : tasks[t].asg \in DOMAIN assignments
    /\ \A w \in Workers : workers[w].task \in 0 .. Len(tasks)

(* A client holds at most one lease for a round of a job, although the     *)
(* reuse branch of LeaseTrainingAssignment looks only at leases that have  *)
(* not run out: the expired ones must have been closed by then.            *)
Held(i) == assignments[i].status = "leased"
LeaseExclusive ==
    \A i, k \in DOMAIN assignments :
        /\ Held(i) /\ Held(k)
        /\ assignments[i].job = assignments[k].job
        /\ assignments[i].client = assignments[k].client
        /\ assignments[i].round = assignments[k].round
        => i = k

(* The leases in force for a round never exceed the clients its job plans  *)
(* for, though they are counted after expiry and issued by two services.   *)
(* (Submitted assignments are not counted: more clients than planned may   *)
(* take part in a round.)                                                  *)
LeasesWithinCapacity ==
    \A i \in DOMAIN assignments :
        Cardinality({k \in DOMAIN assignments :
                        /\ Held(k)
                        /\ assignments[k].job = assignments[i].job
                        /\ assignments[k].round = assignments[i].round})
            <= jobs[assignments[i].job].planned

(* Only the newest job of a scope can be planned or running, so the lookup *)
(* from the back and the supersede loop agree on what "the" job is.        *)
OnlyNewestJobActive == ActiveJobs \subseteq {Len(jobs)}

(* A scope with models has exactly one active version.                     *)
OneActiveModel ==
    models # <<>> => \E v \in DOMAIN models :
                        \A u \in DOMAIN models : models[u].active <=> u = v

(* A worker that is not idle is working on a task of its own, whatever the *)
(* order of its lease, status report and heartbeat calls and of the rounds *)
(* the server closes meanwhile.                                            *)
BusyWorkerOwnsTask ==
    \A w \in Workers :
        workers[w].status \in {"leased", "busy"} =>
            workers[w].task \in DOMAIN tasks /\ tasks[workers[w].task].worker = w

(* Leasing is idempotent: a worker has one task per assignment.            *)
OneTaskPerLease ==
    \A s, t \in DOMAIN tasks :
        tasks[s].worker = tasks[t].worker /\ tasks[s].asg = tasks[t].asg => s = t

(* An assignment's status only moves forward: a lease is submitted, missed *)
(* or, once it has run out, expired; a submitted one is aggregated; nothing*)
(* else changes, whatever reports, rollbacks and restarts come in between. *)
MovesForward(i) ==
    LET old == assignments[i]
        new == assignments'[i] IN
    \/ new.status = old.status
    \/ old.status = "leased" /\ new.status \in {"submitted", "missed"}
    \/ old.status = "leased" /\ new.status = "expired" /\ old.due
    \/ old.status = "submitted" /\ new.status = "aggregated"
AssignmentForward == [][\A i \in DOMAIN assignments : MovesForward(i)]_storeVars

=============================================================================
