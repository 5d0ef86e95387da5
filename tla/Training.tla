------------------------------- MODULE Training -------------------------------
(***************************************************************************)
(* The training programs that drive the server of module ControlPlane: the *)
(* Python client (clients/python_fl_client/train.py), which asks           *)
(* GetTrainingConfig for its assignment, and the reference worker          *)
(* (server/worker_demo_client.cpp), which leases it as a task.  Both fetch *)
(* the global model with StreamGlobalModel, train, and submit under the    *)
(* base version the assignment names.  A program does one assignment and   *)
(* exits; its operator runs it again and again.                            *)
(***************************************************************************)
EXTENDS ControlPlane

(* A program is named by its client or worker, and sends sound weights.    *)
ASSUME TrainingAssumption == Clients \cap Workers = {} /\ "ok" \in Tensors

VARIABLE
    program    \* per client or worker, where its program is and what it holds

trainingVars == <<vars, program>>

PythonClients == Clients \ {TrainerOf[w] : w \in Workers}
Programs == PythonClients \union Workers
ClientOf(p) == IF p \in Workers THEN TrainerOf[p] ELSE p

(* asg: the assignment leased; fetches: the answer named an active model;  *)
(* trained: the version training started from, 0 if from scratch.          *)
Stopped == [at |-> "stopped", asg |-> 0, fetches |-> FALSE, trained |-> 0]

Runs(p, pc) == program[p].at = pc
Goes(p, pc) == program' = [program EXCEPT ![p].at = pc]
Exits(p) == program' = [program EXCEPT ![p] = Stopped]

Leased(c, a, version) ==
    \/ LeaseReused(c, a)
    \/ a = Len(assignments) + 1 /\ LeaseIssued(c, version)

-----------------------------------------------------------------------------
(* The Python client up to its assignment *)

AskConfig(p) ==
    /\ Runs(p, "stopped")
    /\ ConfigReadVersion(p)
    /\ Goes(p, "asking")

(* Without an assignment the program raises an error.                      *)
ConfigAnswered(p) ==
    /\ Runs(p, "asking")
    /\ ConfigLease
    /\ \/ /\ LeaseWithoutJob \/ LeaseRefused(p)
          /\ Exits(p)
       \/ \E a \in 1 .. MaxAssignments :
             /\ Leased(p, a, call.version)
             /\ program' = [program EXCEPT ![p] =
                    [@ EXCEPT !.at = IF call.version > 0 THEN "fetch" ELSE "trained",
                              !.asg = a]]

-----------------------------------------------------------------------------
(* The reference worker up to its assignment *)

Register(w) ==
    /\ Runs(w, "stopped")
    /\ RegisterWorker(w)
    /\ Goes(w, "registered")

AskTask(w) ==
    /\ Runs(w, "registered")
    /\ TaskReadVersion(w)
    /\ Goes(w, "asking")

TaskAnswered(w) ==
    /\ Runs(w, "asking")
    /\ \/ TaskLeaseRefused(w) /\ Exits(w)
       \/ \E a \in 1 .. MaxAssignments :
             /\ TaskLeaseGranted(w, a)
             /\ program' = [program EXCEPT ![w] = [@ EXCEPT !.at = "granted", !.asg = a]]

(* The active model the answer names is read again after the lease.        *)
TaskReady(w) ==
    /\ Runs(w, "granted")
    /\ TaskLease(w)
    /\ program' = [program EXCEPT ![w] = [@ EXCEPT !.at = "ready",
                                                   !.fetches = ActiveModelVersion > 0]]

TaskOf(w) == CHOOSE t \in OwnTasks(w) : tasks[t].asg = program[w].asg
RoundOf(p) == assignments[program[p].asg].round

ReportRunning(w) ==
    /\ Runs(w, "ready")
    /\ ReportTaskStatus(w, TaskOf(w), "running")
    /\ Goes(w, IF program[w].fetches /\ RoundOf(w) > 1 THEN "fetch" ELSE "trained")

ReportFailed(w) ==
    /\ Runs(w, "failed")
    /\ ReportTaskStatus(w, TaskOf(w), "failed")
    /\ Exits(w)

StillRunning(w) ==
    /\ Runs(w, "trained")
    /\ Heartbeat(w, TaskOf(w))
    /\ Goes(w, "beating")

ReportCompleted(w) ==
    /\ Runs(w, "beating")
    /\ ReportTaskStatus(w, TaskOf(w), "completed")
    /\ Goes(w, "reported")

-----------------------------------------------------------------------------
(* Fetching the base model, and submitting *)

(* StreamGlobalModel sends the latest model once its round is above the    *)
(* last one received, which both programs claim to be two rounds back; its *)
(* events are handled under proceed_mutex_ too.                            *)
FetchServed(p) ==
    /\ Runs(p, "fetch")
    /\ At("idle")
    /\ latest # NoModel
    /\ latest.round > RoundOf(p) - 2
    /\ program' = [program EXCEPT ![p] = [@ EXCEPT !.at = "trained",
                                                   !.trained = latest.version]]
    /\ UNCHANGED vars

(* Ten seconds pass, many times what any handler takes.  The Python client *)
(* then trains from scratch, the worker gives up.                          *)
FetchTimesOut(p) ==
    /\ Runs(p, "fetch")
    /\ At("idle")
    /\ Goes(p, IF p \in Workers THEN "failed" ELSE "trained")
    /\ UNCHANGED vars

(* Only rounds up to MaxRound are submitted.                               *)
Send(p) ==
    /\ Runs(p, IF p \in Workers THEN "reported" ELSE "trained")
    /\ RoundOf(p) \in Rounds
    /\ SubmitReadVersion(AssignedRequest(program[p].asg), "ok")
    /\ Goes(p, "sent")

(* Accepted or not, the program ends with the answer.                      *)
Answered(p) ==
    /\ Runs(p, "sent")
    /\ call.req.client # ClientOf(p)
    /\ Exits(p)
    /\ UNCHANGED vars

-----------------------------------------------------------------------------
(* Leases outlive every program run that can still succeed.  One that names*)
(* a version no longer active is given the time to run out, after those    *)
(* its job issued before it; not within the moment a handler takes.        *)
StaleLeaseRunsOut ==
    /\ At("idle")
    /\ \E i, k \in DOMAIN assignments :
          /\ Live(assignments[k]) /\ Stale(assignments[k], ActiveModelVersion)
          /\ i <= k /\ assignments[i].job = assignments[k].job
          /\ LeaseRunsOut(i)
    /\ UNCHANGED <<bufferVars, callVars, lease, adminVars, restarts, recorded, program>>

HandlerStep ==
    \/ \E p \in PythonClients : ConfigAnswered(p)
    \/ SubmitStep /\ UNCHANGED program

(* A program's steps that wait for proceed_mutex_ ...                      *)
MutexStep(p) == (p \in PythonClients /\ AskConfig(p)) \/ FetchServed(p) \/ Send(p)

(* ... and those that do not.                                              *)
WorkerStep(w) ==
    \/ Register(w) \/ AskTask(w) \/ TaskAnswered(w) \/ TaskReady(w)
    \/ ReportRunning(w) \/ ReportFailed(w) \/ StillRunning(w) \/ ReportCompleted(w)
FreeStep(p) == (p \in Workers /\ WorkerStep(p)) \/ Answered(p)

TrainingInit == Init /\ program = [p \in Programs |-> Stopped]

TrainingNext ==
    \/ HandlerStep
    \/ \E p \in Programs : MutexStep(p) \/ FetchTimesOut(p) \/ FreeStep(p)
    \/ \E spec \in JobSpecs : AdminCreateTrainingJob(spec) /\ UNCHANGED program
    \/ StaleLeaseRunsOut

(* Handlers and programs go on; programs that compete for proceed_mutex_   *)
(* get it in the end, so a worker's fetches do not time out forever; and   *)
(* time passes.                                                            *)
TrainingSteps ==
    /\ [][TrainingNext]_trainingVars
    /\ WF_trainingVars(HandlerStep)
    /\ \A p \in Programs :
          SF_trainingVars(MutexStep(p)) /\ WF_trainingVars(FreeStep(p))
    /\ SF_trainingVars(StaleLeaseRunsOut)

TrainingSpec == TrainingInit /\ TrainingSteps

-----------------------------------------------------------------------------
(* Properties *)

(* A submission that has passed the check for stale versions does not hold *)
(* weights trained from another version than the one it names, although    *)
(* the program names the version of its lease, possibly an old one that    *)
(* was handed out again, and is served whatever model is the latest.  (It  *)
(* may hold weights trained from scratch.)                                 *)
TrainedFromBase ==
    \A p \in Programs :
        /\ Runs(p, "sent") /\ call.req.client = ClientOf(p)
        /\ call.req.base > 0
        => program[p].trained \in {0, call.req.base}

=============================================================================
