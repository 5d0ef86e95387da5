# PQ-FL: specification, model checking and proofs of the control plane

PQ-FL is a federated-learning server. Clients register under a TLS certificate,
lease a training assignment, submit encrypted weights and stream back the global
model; workers lease and report tasks on behalf of a trainer client;
administrators create training jobs, roll models back and rotate keys. This
directory specifies that server in TLA+, checks small instances with TLC and
proves its safety properties for every value of the constants with TLAPS.

Paths below are relative to `src/server/` unless they say otherwise.

## 1. Inventory

| Component | State | Operations | Modelled in |
|---|---|---|---|
| State store, `state_store.cpp` | jobs, assignment leases, model versions, workers, worker tasks, clients, datasets, audit events, one JSON file | one method per operation, each under one mutex and (almost always) ending in `SaveLocked` | `StateStore` and, for the file, `PersistentStore` (`Registration` for clients, `KeyRotation` for the key version) |
| Round buffer, `weight_buffer.cpp` | weights per scope and round, completed rounds, latest model, momentum; checkpoint files | add and aggregate, queries, restore | `WeightBuffer`; the arithmetic in `Aggregation` |
| FederatedLearning service, `federated_service.cpp` | one call object per RPC | RegisterClient, GetTrainingConfig, SubmitWeights, StreamGlobalModel | `Registration`, `ControlPlane`, `StreamCall` |
| WorkerCoordinator service, `worker_service.cpp` | none of its own | RegisterWorker, LeaseTrainingTask, ReportTaskStatus, Heartbeat | `ControlPlane`, `Registration` |
| Admin service, `admin_service.cpp` | none of its own | CreateTrainingJob, RollbackModel, RotateAtRestKey, UpsertDataset, listings | `ControlPlane`, `KeyRotation` |
| Client registry, `client_registry.cpp` | client id to certificate identity | Register, BindPeerIdentityIfMissing, queries | `Registration` |
| Crypto engine, `crypto_engine.cpp` | versioned at-rest keys and their files, payload secret, KEM key pair | load or generate, encrypt, decrypt, rotate | `KeyRotation` (at-rest keys) |
| Start-up, `main.cpp` | | keys, store, key version, registry, restored model, threads | the restart actions of each module |
| Training programs, `worker_demo_client.cpp` and `clients/python_fl_client/train.py` | the assignment held, the model trained from | obtain an assignment, fetch the model, train, submit | `Training` |

How they interact. FederatedLearning events come off a gRPC completion queue
served by at least two threads (`main.cpp:139`), each event under one
`proceed_mutex_` (`federated_service.cpp:138`). Worker and admin calls are
synchronous and run on gRPC's own threads. The store, the buffer, the registry
and the crypto engine each have their own mutex. A handler is therefore a
sequence of atomic calls, and between any two of them every other handler, the
clock and a crash may act. That is where this system is hard, and what the
modules are built to show.

What makes each component correct: leases are exclusive and statuses only move
forward; the newest job and one model version are active; what the store calls
submitted or aggregated matches what the buffer held and the model was computed
from; a model has enough contributors; a job counts the rounds it ran and
finishes; a stream frees itself exactly once and never falls asleep; a
certificate binding is final; every checkpoint stays readable; the file is always one
state and what was answered survives a crash; a model lies among what it was made from.
`PROJECT.json`
lists the hazards behind these line by line.

## 2. Modules

| Module | What it is |
|---|---|
| `FederationBase` | clients and rounds of one tenant/model scope (every lookup of the code filters by scope, so scopes do not meet) |
| `StateStore` | the store in memory: its records, one action per operation, `StoreSpec` (an atomic store under arbitrary callers), its properties |
| `PersistentStore` | extends it with `state.json`: saves, failing saves, crashes, start-up |
| `WeightBuffer` | the round buffer and the checkpoint files, as operators on their own variables |
| `Aggregation` | what the buffer computes: clipping, FedAvg, Krum, trimmed mean, momentum, noise |
| `ControlPlane` | extends `StateStore` and `WeightBuffer`; the handlers, one action per call they make, time, crashes |
| `Training` | extends `ControlPlane` with the programs that drive it |
| `StreamCall` | one StreamGlobalModel call object, gRPC, the peer |
| `Registration` | the registry, the stored bindings and their two writers |
| `KeyRotation` | the at-rest keys, their files, rotation and crashes |
| `StateStoreProofs` | theorems about `StoreSpec`, and the lemmas about its lookups and operations that the other proofs cite |
| `ControlPlaneProofs` | extends `ControlPlane` and `StateStoreProofs`: types, `Spec => StoreSpec` and what follows from it; then submissions, answers, the buffer, rounds and jobs |
| `TrainingProofs` | about `Training`; cites the invariants of `ControlPlaneProofs` |
| `PersistentStoreProofs` | about `PersistentStore`; extends `StateStoreProofs` |
| `AggregationProofs` | about `Aggregation`: induction over finite sets, sums, fractions, order statistics, and on them the aggregates |
| `StreamCallProofs`, `RegistrationProofs`, `KeyRotationProofs` | theorems about the modules they are named after |
| `MCPersistentStore`, `MCControlPlane`, `MCTraining`, `MCAggregation`, `MCStreamCall`, `MCRegistration`, `MCKeyRotation` | constants of the TLC instances |

`StoreSpec` is the abstract specification: it says what the store may do whoever
calls it, every operation being atomic and durable. Two specifications implement it:

* `ControlPlane`, from above: every step of every handler is a store
  operation or leaves the store alone (the mapping is the identity on the store's
  variables). The run `jobs` has `StoreSpec` as a PROPERTY, and `ServerImplementsStore`
  proves it for every value of the constants.
* `PersistentStore`, from below: `Known == INSTANCE StateStore WITH jobs <-
  file.jobs, ...` maps the store to what is in the file, but for leases that callers have
  seen expired without a save (`lapsed`). `ImplementsStore` says that, as long as no
  save fails, each step of what callers know, a restart after a crash anywhere included,
  is a step of `StateStore` or none. The run `state_file` checks it, `ImplementsStoreHolds`
  proves it.

### How state and actions correspond to the code

* Records live in vectors that only grow; a job, assignment, model or task is
  named by its position, 0 is the empty identifier. A model's version is its
  position, which is what "one above the highest stored version" gives.
* Time: `expires_at` and the clock become one bit, `due`, which `LeaseRunsOut`
  sets; leases of a job share a TTL and run out in the order they were issued.
  Every operation that reads leases first turns the due ones to `expired`, in
  memory, as `ExpireAssignmentsLocked` does. Whether a save follows is modelled in
  `PersistentStore`: `UnsavedExpiry` does not touch the file.
* `PersistentStore`: an operation changes memory and, holding the mutex, is `saving`
  until `Rename` replaces the file, `SaveFails` or `Crash`. A save that fails
  leaves memory ahead of the file on a synchronous thread (`dirty`), ends the process on
  a completion-queue thread, which has no handler for the exception, and at start-up makes
  `Load` clear everything and save the empty state. The temporary file
  itself is not a variable: nobody reads it.
* A tensor of `ControlPlane` is its provenance: the set of buffered submissions it was
  computed from. `"nan"` and `"alt"` payloads fail `ValidateWeights`, `"garbled"` ones
  cannot be decrypted. The empty set is an absent, truncated or empty file.
* A tensor of `Aggregation` has one dimension and a whole-number value; what is
  computed from it is an exact fraction. A value whose square overflows a float has an
  infinite norm, which scales it to 0. Dataset sizes are summed in an int of `IntSize`
  values that wraps. `config.cpp:104` requires `dp_epsilon > 0`, so noise is always
  added; what it adds is a choice from `Noises`, 0 among them.
* `SubmitWeights` is `SubmitReadVersion`, `SubmitReadJob`, `SubmitValidate`,
  `SubmitCheckRound`, then the buffer's call (`SubmitWait`, `SubmitNotAggregated`
  or `SubmitOpenCheckpoint`, `SubmitWriteCheckpoint`/`SubmitNotWritten`,
  `SubmitRecordModel`), `SubmitAccept` and `SubmitAdvance`, in the code's order and
  with its early returns. The buffer's call holds the buffer mutex to its end; it
  is split at the file operations and the call into the store because others, and
  a crash, can see those. What waits for that mutex says so (`RollbackRestore`).
* `LeaseTrainingTask` and `RollbackModel` are split the same way.
* In `Training` a program is stopped, or somewhere between its first request and the
  answer to its submission; its operator runs it again when it has ended. What it holds is
  the assignment and the version it trained from.
* `RegisterClient` and `RegisterWorker` are in `Registration`; the part of
  `RegisterWorker` that writes the worker record is in `ControlPlane`. `overlapped` is a
  history variable: the clients both handlers had at once.
* In `StreamCall` an operation is `pending` until gRPC completes it and `ready`
  until a thread has handled its event, in any order. The in-flight flags of the
  code are derived from these two sets, except for the event being handled, whose
  flag `Proceed` has just reset.
* In `KeyRotation` the registry is truncated, then written; key files written
  through a stream that is still open become durable when the operation returns.
  A checkpoint's encryption (`EncryptBlob`) and the recording of its model
  (`RecordAggregatedModel`, which asks the engine for its version again) are two steps.

## 3. Runs

Passing runs. Distinct states are of the whole instance, which TLC exhausts.

| Run | Question | Bounds | States |
|---|---|---|---|
| `jobs` | do store, buffer, models, checkpoints and answers tell the same story while leases run out, a job is superseded, payloads are bad, the disk fails and ad-hoc submissions race the job? does every step implement `StoreSpec`? | 2 clients, 2 jobs of 2 rounds, 4 assignments, 1 expiry, 3 models, round 1 open to ad-hoc submissions, default minimum 1 | 175,282 |
| `restart` | crashes anywhere, also inside a checkpoint write, while leases run out | 2 restarts, 2 clients, 1 job of 2 rounds, 4 assignments, 3 models, 1 expiry, failing disk, undecryptable payloads | 1,617,264 |
| `rollback` | rollbacks with unreadable checkpoints while a client trains through a worker whose leases, reports and heartbeats come in any order | 1 rollback, 2 models, 1 client, 1 worker, 2 assignments | 858,528 |
| `training` | does a job finish when its programs are run again and again? does what is submitted for a base version come from it? | a Python client and a worker, a restarted server with one model, a job of 2 rounds that either program closes alone or of 1 round that needs both, 8 assignments, 2 expiries | 25,827 |
| `state_file` | is the file always one state, does what was answered survive, does the store with its file implement the atomic one? | 1 client, 1 worker, 1 job, 1 model, 1 expiry, 1 crash, 1 failing save | 301,655 |
| `aggregation` | is a model among what it was made from, are outliers filtered, does momentum stay bounded? | 5 configurations of 1 to 5 clients, 3 tensors, 2 sizes, an int of 16 values, 3 models for FedAvg and 2 otherwise, 1 failing write between two models | 39,405 |
| `stream` | one call object to its end | 2 versions, 3 changes of the latest model, rounds 1 and 2 | 862 |
| `registration` | both registration handlers and a restart | 2 clients, 2 certificates, 2 worker calls, 1 restart | 700,096 |
| `key_rotation` | rotation, checkpoints and their records, crashes | 4 key versions, 3 crashes, 1 administrator | 97,680 |

What the properties say is above each of them in its module. In short:

* `SubmittedIsBuffered`, `OneSubmissionPerRound`, `AggregatedContributed`: the
  store's view of an assignment and the buffer's view of its weights agree although
  they are updated by different calls, and a client that obtains a second lease for
  a round is not counted twice. The converse of the first does not hold: weights can
  be buffered under an assignment that was then refused (see below).
* `AnswerTrue`: a submission answered as accepted is in the buffer, one answered as
  having triggered aggregation is in a recorded model. Here too the converse fails.
* `CheckpointIntact`, `EnoughContributors`, `StoreBufferAgree`, `JobRoundsInStep`,
  `ActiveRoundOpen`: what is on disk, in memory and in the store after bad payloads,
  failing disks, rollbacks and crashes.
* `LeaseExclusive`, `LeasesWithinCapacity`, `AssignmentForward`: leases do not overlap,
  stay within the round's planned clients, and no status goes back, restarts included.
* `ImplementsStore`, `FileConsistent`, `AnsweredIsDurable`: see section 2. With failing
  saves the last two still hold: the file stays a state the store could be in, and it lags
  behind memory only while the last save failed.
* `JobProgress` in `training`: although worker and client may lease under a version
  that a rollback-free server has already replaced, are handed old leases again and have
  fetches that time out, the job runs all its rounds.
* `TrainedFromBase`: a submission that passed the check for stale versions was trained
  from the version it names, or from scratch.
* `WithinSubmissions`, `OutliersFiltered`, `MomentumBounded`: the result of a round against
  a reference stated without the algorithm: bounds by the submissions it was made from, by
  those left when as many as the strategy tolerates are taken away, and by the
  momentum's geometric series.
* `NoDanglingOperation`, `OneOperationUnderWay`, `EventuallyFreed`: the stream object
  is deleted neither too early nor never. `NewRoundStreamed`: a newer round is sent.
* `RegistrationSurvives`, `BindingIsFinal`, `CertificateBinds`: registrations are
  persisted by whichever handler made them, never replaced, and admit one certificate.
* `KeysOnDisk`, `BlobsReadable`, `RecordedKeyKnown`, `StoreKeyAgree`: no rotation or
  crash loses the key of a checkpoint, and the versions that the store, the checkpoint's
  header and the engine name fit together.

Violation runs, each about one statement of the repository:

| Run | The repository says | What the run shows |
|---|---|---|
| `second_job` | `proto/pqfl.proto:49` target_rounds is "Total FL rounds to complete" | `completed_rounds_` belongs to the scope, not the job: a second job cannot run round 1 |
| `stream_disconnect` | `README.md:36` threading "to handle dynamic edge disconnects" | DONE can be handled before REQUEST, and deletes the object another thread is about to call |
| `key_crash` | `docs/crypto-architecture.md:84` older checkpoints remain decryptable | a crash while the registry is rewritten leaves a server that does not start |

More disagreements follow from the same actions and explain the bounds and conditions of
some runs; they have no run of their own:

* A lease that runs out between the buffer's call and
  `AcceptTrainingAssignmentSubmission` (`federated_service.cpp:622-675`) of the submission
  that closes a round: the round is aggregated, the call returns before
  `AdvanceTrainingJobRound`, and every later submission of the job's round is "already
  aggregated". So `ActiveRoundOpen` is checked without expiry (`MaxDue = 0`) and
  proved as long as no lease has run out, and in `training` leases only run out between calls.
* In that situation the reply says `aggregation_triggered = false`, while
  `proto/pqfl.proto:98` says "True if this submission triggered aggregation".
* `RollbackModel` activates the version (`admin_service.cpp:331`) before it reads the
  checkpoint, and answers failure without undoing it; `pqfl_self_test.cpp:80` asserts for
  the case of an unknown version that a "failed rollback must preserve the current active
  model". So `StoreBufferAgree` is checked without rollbacks.
* `RegisterClient` and `RegisterWorker` handling the same new client at once may leave one
  identity in the registry and the other in the store, and a restart settles for the
  store's. So `CertificateBinds` leaves out the clients in `overlapped`.
* `Load` catches the exception of a failing save together with that of an unreadable file
  (`state_store.cpp:275`), clears the state and saves the empty one over a good file. So
  `ImplementsStore` is claimed as long as no save fails.
* When a fetch times out the Python client trains from scratch and still submits under its
  lease's base version, which `proto/pqfl.proto:85` describes as "Which global model version
  the client trained from". So `TrainedFromBase` allows "from scratch". After a rollback by two
  rounds or more nothing is streamed to a program at all; the run has no rollbacks.
* `AggFedAvg` adds dataset sizes in an int. When it wraps, the factors need not add up to
  1 (`WithinSubmissions` and `MomentumBounded` say so). `config.cpp` accepts a momentum of 1
  or more, which nothing bounds. A failed checkpoint write counts a round's pull
  twice. With few clients Krum's f and the trim count are 0, and nothing is filtered.

Properties that hold only in some runs, on purpose: `JobRoundsInStep` with one job (a
superseded job's round is credited to its successor), `CheckpointIntact` without
restarts (a round aggregated again overwrites its file), `SubmittedIsBuffered`,
`AggregatedContributed` and `OneSubmissionPerRound` without restarts (the buffered weights
die with the process, the store's "submitted" does not), `StoreBufferAgree` without
rollbacks (failed or concurrent ones leave store and buffer apart), `StoreKeyAgree` with one
administrator (two concurrent rotations may tell the store in either order),
`JobProgress` with one job per process and sound tensors, `ActiveRoundOpen` with one job
and no ad-hoc rounds or expiry. The hazards in `PROJECT.json` say which.

### Bounds and why they are enough

All bounds are CONSTANTS: `MaxJobs`, `MaxAssignments`, `MaxModels`, `MaxRound`,
`MaxDue` (leases that run out), `MaxRollbacks`, `MaxRestarts`, `MaxVersions`,
`MaxSwitches`, `MaxVersion`, `MaxCrashes`, `MaxFaults` (saves that fail) and `MaxFailures`
(checkpoint writes that fail between two models). Two clients are enough for a round to be
half full and for two clients to compete; two rounds let a late submission of the
first meet the second; four assignments are what two clients need for both rounds, and one
of them takes the place of another when a client leases a round again after an expiry; two
models so that a rollback has somewhere to go, and one rollback so that a second version's
lease meets the first. Clients are only asked for submissions of rounds up to `MaxRound`, at
least one more than a job's rounds, and a program sends none for a later round. Clients are symmetric where no liveness is checked. The
default minimum is 1 in `jobs` so that one client aggregates a round outside the job and
another comes late to it. The runs allow deadlock
(`CHECK_DEADLOCK FALSE`) where the bounds use up what can happen, or the object of
the specification is deleted; the run `registration` checks it. Five clients
are the fewest with which Krum tolerates an outlier (`(n - 3) / 2`), and with four a trim
share of a quarter drops one at each end. One crash and one failing save are enough in `state_file` to
put each of them before, during and after every save and start-up.

### Fairness

* `ControlPlane!FairSpec`, for `second_job`: weak fairness of the event being handled (a
  completion-queue thread runs its handler to the end) and of `ConfigLease`; strong
  fairness for each client's configuration request and submission, because clients
  that keep calling compete for `proceed_mutex_`. Nothing is assumed of workers,
  administrators or the clock.
* `Training!TrainingSpec`: weak fairness of `HandlerStep` as above; strong fairness of
  each program's steps that wait for `proceed_mutex_` (`MutexStep`), so its fetches cannot
  time out forever; weak fairness of its other steps (`FreeStep`), which also says that
  its operator runs it again; strong fairness of `StaleLeaseRunsOut`, as the clock goes
  on. Leases are taken to outlive a program run that can still succeed: only one that names
  a version no longer active runs out, after those its job issued before it,
  and not within the moment a handler takes. The instance starts from a restarted server
  (`RestartedInit`), so that there is a base model to fetch and the rounds of the first
  job do not collide with the second's.
* `StreamCall!FairSpec`: gRPC completes the operations it was given, an alarm fires,
  threads handle every event. A write to a peer that has stopped reading completes when the
  transport drops the peer. The peer and the models are free.
* The other modules have safety properties only.

## 4. Proofs

The theorems hold for all clients, workers, administrators, job parameters and bounds.
Where a statement has a hypothesis, it is a state predicate in the theorem itself, and the
reason is given below.

| Module | Theorem | Statement |
|---|---|---|
| `StateStoreProofs` | `CoreInvariant` | `CoreInv` is invariant under `StoreSpec` |
| | `StoreTypeCorrect` | `StoreTypeOK`: types, and every position a record names exists |
| | `NewestJobOnly` | `OnlyNewestJobActive` |
| | `SingleActiveModel` | `OneActiveModel` |
| | `LeaseExclusiveHolds` | `LeaseExclusive` |
| | `AssignmentForwardHolds` | the action property `AssignmentForward` |
| | `BusyWorkerOwnsTaskHolds` | `BusyWorkerOwnsTask` |
| | `OneTaskPerLeaseHolds` | `OneTaskPerLease` |
| | `LeasesWithinCapacityHolds` | `LeasesWithinCapacity` |
| `ControlPlaneProofs` | `ServerTypeCorrect` | `TypeOK` of `ControlPlane` |
| | `ServerImplementsStore` | `Spec => StoreSpec`: the server implements the abstract store |
| | `ServerStoreSafe` | the store's safety invariants hold of the server |
| | `ServerAssignmentForward` | and so does `AssignmentForward` |
| | `EnoughContributorsHolds` | `EnoughContributors` |
| | `AnswerTrueHolds` | the action property `AnswerTrue` |
| | `SubmittedIsBufferedHolds` | `restarts = 0 => SubmittedIsBuffered` |
| | `AggregatedContributedHolds` | `restarts = 0 => AggregatedContributed` |
| | `OneSubmissionPerRoundHolds` | `restarts = 0 => OneSubmissionPerRound` |
| | `CheckpointIntactHolds` | `restarts = 0 => CheckpointIntact` |
| | `StoreBufferAgreeHolds` | `rollbacks = 0 => StoreBufferAgree` |
| | `JobRoundsInStepHolds` | `Len(jobs) <= 1 => JobRoundsInStep` |
| | `ActiveRoundOpenHolds` | if `AdHocRounds = {}`: `Len(jobs) <= 1 /\ NoneRanOut => ActiveRoundOpen` |
| `TrainingProofs` | `TrainingUsesServer` | `TrainingSpec => Spec` |
| | `TrainedFromBaseHolds` | `OwnClients => TrainedFromBase` |
| `PersistentStoreProofs` | `ImplementsStoreHolds` | `PersistentSpec => ImplementsStore`: while no save fails, the store with its file implements the atomic one |
| | `FileConsistentHolds` | `FileConsistent` |
| | `AnsweredIsDurableHolds` | `AnsweredIsDurable` |
| | `LoadedStoreTypeCorrect` | `StoreTypeOK` of memory, whatever was loaded |
| | `OneTaskPerLeaseLoaded` | `OneTaskPerLease` likewise |
| `AggregationProofs` | `AggregationTypeCorrect` | `AggregationTypeOK` |
| | `AggregateWithinSubmissions` | `WithinSubmissions` |
| | `AggregateFiltersOutliers` | `OutliersFiltered` |
| | `MomentumNeverBuildsUp` | `MomentumBounded` |
| `StreamCallProofs` | `TypeCorrect` | `TypeOK` of `StreamCall` |
| | `NoDanglingOperationHolds` | `NoDanglingOperation` |
| | `OneOperationHolds` | `OneOperationUnderWay` |
| `RegistrationProofs` | `TypeCorrect` | `TypeOK` of `Registration` |
| | `BindingIsFinalHolds` | the action property `BindingIsFinal` |
| | `RegistrationSurvivesHolds` | `RegistrationSurvives` |
| | `CertificateBindsHolds` | `CertificateBinds` |
| `KeyRotationProofs` | `KeyInvariant` | `KeyInv` is invariant |
| | `KeysOnDiskHolds` | `KeysOnDisk` |
| | `BlobsReadableHolds` | `BlobsReadable` |
| | `RecordedKeyKnownHolds` | `RecordedKeyKnown` |
| | `StoreKeyAgreeHolds` | `OneAdministrator => StoreKeyAgree` |

### The store

`CoreInv` is the conjunction of `StoreTypeOK`, `OnlyNewestJobActive` and
`OneActiveModel`. They are proved together because types need the other two: a lease
names `ActiveJob` and a job records `ActiveModelVersion`, both CHOOSEn, which are
positions only because the newest job and exactly one version are active. There is one
lemma per operation. `LeaseExclusive` is inductive relative to `CoreInv`: only
`LeaseIssued` adds a lease, at the next position and only if the caller holds no live
one for the round, those that had run out having been expired first. For every other
operation the `...Kept` lemmas say that no assignment changes owner and that none becomes
held that was not; the same lemmas give `BusyWorkerOwnsTask` and `OneTaskPerLease`, for
tasks, their workers and assignments.

`LeasesWithinCapacity` compares a cardinality with a job's `planned`; `CapacityInv` adds that
a job plans for at least one client. An operation that only lets leases go maps the set of
leases of a round into the old one (`LeasesFinite`, `FS_Subset`); `LeaseIssued` adds one
element to a set that its guard found smaller than `planned`.

### The server implements the store

`ServerInv` adds to `CoreInv` what the handlers keep between two calls: the assignment and
version that the submission, the worker leases and the rollbacks in progress hold (`CallInv`,
`LeaseInv`, `RollbackInv`) exist in the store, whatever other threads did since they were
read, and there is a recorded model for every version (`RecordsInv`). This is what
the refinement needs: `StoreSpec` only lets callers name what exists. `ServerImplementsStore`
then has one lemma per group of actions, which names the store operation that the
action performs, a restart being the expiry of leases that `Load` performs or a stutter. The
theorems about the store hold of the server by that (`ServerStoreSafe`,
`ServerAssignmentForward`), restarts and rollbacks included.

### Submissions

`AnswerInv` is what a submission knows at each step of its handler. Its minimum is some
created job's or the default (`Minimums`); from the write of the checkpoint on, the round's
buffer holds its weights and enough others; from the record on, a model of the round was
recorded from that buffer; and a buffer has one entry per client (`BufferInv`), without which
a count of entries would say nothing about clients. This gives `EnoughContributors` and,
at the last step of the handler, `AnswerTrue`.

`ProcessInv` relates store and buffer while the process lives (`OneProcessInv` is
`restarts = 0 => ProcessInv`): what is taken is buffered, what is aggregated has a model, a
model was made from its round's buffer, its checkpoint holds it, its round is complete; and
the call's round is still open and free of its client's weights (`CallFresh`), because a
call checks that at one step and uses it at later ones. The hypothesis `restarts = 0` is
there because the buffer does not survive: a restart leaves "submitted" in the store for
weights that are gone, and a round run again overwrites its checkpoint file.

`AgreeInv`: the buffer serves the store's active version or none, and no rollback is in
progress. Crashes are allowed, also between the checkpoint and the record. A rollback that
fails leaves the two apart, hence `rollbacks = 0`.

`JobInv`: leases in force are for the current round of their job, and a
submission that has been accepted and is about to advance the job is in the job's round. With a
second job the scope's submission closes a round of a job that it was not made for (run
`second_job`), hence `Len(jobs) <= 1`. The theorem covers expiry, crashes and rollbacks.

`RoundInv`: every completed round is one the job has left behind, or it is the current one
and the submission that completed it is on its way to advance the job. A lease that runs out
on that way breaks it, as section 3 says (`NoneRanOut`: no assignment is due), and so does an
ad-hoc submission that completes the job's round without being the job's (`AdHocRounds = {}`);
the theorem shows that for a scope's only job there is no other way, with any number of
rollbacks, restarts, workers and failing writes.

### Programs

`ProgramInv` relates a program to the server it drives: its assignment exists and is its own
client's, a worker that was granted a lease is the one whose lease is in progress, and what it
trained from is no older than its lease's base version. With `TrainingSpec`'s server being
rollback-free the active version is the newest one (`NewestActive`), so a submission that
passes the check for stale versions under its lease's base was trained from that version:
it cannot be trained from an older one and there is no newer one. `TrainingUsesServer` says that
programs only add to `ControlPlane` the order in which requests come, so its theorems hold
in `Training`; `TrainingInit` is the empty server, while the run `training` starts from a
restarted one. `OwnClients`: the server has the client's name in a request and cannot tell
two workers of one trainer apart, nor can the property.

### The file

`PersistentInv` says of the file what `MemoryInv` says of memory: `CoreInv`,
`LeaseExclusive` and `OneTaskPerLease`. `Rename` carries it from memory to the file, a
restart from the file to memory, with leases expired, and a failing save at start-up leaves
the empty state, for which it holds. `FileConsistent` adds that expiring, in what callers
know, the leases in `lapsed` keeps it. `SavedInv` says that memory and file differ at most in
expired leases whenever no save is under way and none failed; it gives `AnsweredIsDurable`.

For `ImplementsStore` an operation has to happen, for its callers, in the `Rename` that ends
it, when memory has held its result for a while. `Pending` says of one state
what the operation did: one predicate per operation of `StateStore`, its action with what
callers know for the unprimed variables and memory for the primed ones.
`OperationPends` establishes it, nothing but the mutex's holder moves until the rename, and
`PendingIsOperation` makes it a step of `Known!StoreNext`. `Related` adds the other phases of
a process whose saves have not failed: memory is what callers know when nothing is being
saved, the file when the server is down, the file with its overdue leases expired during
start-up; and leases callers have seen expired without a save are overdue in the file
(`lapsed`): a crash takes the expiry back in memory and nowhere else, and the start-up
makes it again. An unsaved expiry is an expiry for callers at once.
`RefinementInv` is `Related` as long as `faults = 0`; from a failed save on, memory may hold
what callers were told has failed.

### Aggregation

Krum, the trimmed mean and FedAvg are sums and order statistics over a round's clients,
hence folds over finite sets. The library's induction rules take a predicate as parameter, so
the module proves what it needs with sets as arguments: every non-empty set of
numbers has a least one (`LeastNumber`) and every non-empty family of subsets of a finite set a
minimal one, from the well-foundedness of `<` and of strict inclusion; `InductionOnNumbers` and
`InductionOnSubsets` say that a set closed under the step holds everything. With
them a fold is one function `g` on the subsets of its domain (`Sums`, `FoldExists`), and the
`SumOf...` lemmas tie the sums of `Aggregation` to it. `SumAtMostMultiple`, `SumBetween`
and the like bound sums term by term; fractions, which `Ratio` reduces to
lowest terms, keep their order (`AtMostTransitive`, `PlusMonotone`, `TimesMonotone`).

The inductive invariants are few. `AggregationInv` is the types and `Entries` of the buffer and of
what was last averaged: finitely many clients, tensors within the clipping norm, sizes a
client may claim. `WithinSubmissions` and `OutliersFiltered` are then facts about one
publication:

* A mean, weighted or not, is between the least and the greatest value, provided the weights add up
  to 1, i.e. the sum of sizes did not wrap (`MeanBetween`, `FedAvgBetween`); clipping
  and zero noise keep it there (`NoiselessBetween`).
* Trimmed mean: take any t clients away. The (t + 1)-th smallest value is at least the least
  value that is left, because t + 1 values cannot all belong to those t; likewise from above.
  What is averaged lies in between (`NthAtMost`, `NthAtLeast`, `TrimmedMeanFiltered`).
* Krum: a client adds up the squared distances of its k nearest, and the least sum is
  chosen. The f removed leave every other client k neighbours, so a remaining client's sum is at
  most k times the widest squared distance of those left. The chosen one's sum is no
  greater, and it includes the distance to one of those left, or it is one of them itself
  (`KrumScoreBounds`, `KrumFiltered`).

`MomentumInv` says that the latest and every published model are within the clipping norm,
so that a round pulls by at most twice the norm `k`, and that the velocity is within the
limit `2k / (1 - m)`: `m * limit + 2k = limit` is what makes the bound inductive
(`LimitIsLimit`, `VelocityBounded`). A write that fails counts its pull and
leaves the round to be counted again; a rollback changes the model the next pull starts
from and keeps the velocity; a restart forgets the velocity: all within the same bounds.

### Streams

`StreamInv` says which operations are under way in which status: the request until it is
handled, done until it is received, and of write, alarm and finish never two, and one as long as
the peer is there (`BodyInv`). `FailuresInv` says that an operation fails only after
the peer left or the call ended: a stream that stops after a failed operation has nothing
under way, and this is what rules out that it happens while the peer is still there. The
theorems hold for any order in which threads handle the events. They say nothing of the
event of the request, which a thread can still hold when done has deleted the object
(run `stream_disconnect`).

### Registration

`RegistrationSurvives` is inductive with `TypeOK`: the one step that
binds an identity in the registry leaves the handler before the call that persists it.
`CertificateBinds` needs `BindInv`, which adds what the handlers know of each other:
a client with a record is in the registry (`RecordsKnown`); a `RegisterClient`
that no worker call has met is alone with its client (`CallAlone`), and if it was
accepted it will write the first record (`CallFirst`); so a client that was answered has the
identity it was answered for in both places (`AnsweredBound`).

### Keys

`KeyInv` adds to the types: the engine has the keys of exactly the versions up to
the active one (`EngineInv`); the registry names exactly the versions up to the active one
or the one before, or does not parse, depending on how far a key write is
(`RegistryInv`); checkpoints and records name only versions that a crash now would not take
back (`ModelsInv`, `Durable`); and for those the file has the engine's key (`KeyFileInv`).
The last two make the difference: a version number that is used again
after a crash has no checkpoint under its former key. `StoreKeyAgree` needs `ToldInv`: the
store has the active version unless the administrator's rotation is the one that made it
active and has still to tell the store. Two administrators may tell it in either order, hence
`OneAdministrator`.

### Assumptions

`StoreAssumption`, `FederationAssumption`, `BufferAssumption`, `ControlPlaneAssumption`,
`TrainingAssumption`, `PersistentAssumption`, `StreamAssumption`, `RegistrationAssumption`,
`KeyAssumption` and `AggregationAssumption`, which the code gives: a worker names one trainer,
`CreateTrainingJob` rejects non-positive parameters and `config.cpp` a non-positive default,
identities are not the words the model uses for none, a worker's name is not a client's, what a
program sends is a tensor, `config.cpp` keeps the trimmed share below one half,
`federated_service.cpp:474` rejects dataset sizes below 1, a size is an int, and the square of
the clipping norm is a finite float; the rest says that bounds are numbers. TLC evaluates each
of them.

### Model-checked only

Liveness and ENABLED are out of the prover's reach: `JobProgress`, `EventuallyFreed` and
`NewRoundStreamed` stay with TLC. Every invariant and every action property of the passing
runs, and both refinements, are proved.

What happens where a hypothesis of a theorem is not met is said above and in section 3.

## 5. Not modelled, and why

* In `Aggregation`: more than one dimension and the rounding of floats (a model of a
  float's errors would be another project), a clipping norm of 0, which switches
  clipping off, and the distribution of the noise.
* Datasets, audit events, counters, read-only listings: no decision of the control plane
  but a job's existence check depends on them.
* Cryptography, TLS, identity and configuration parsing, logging: pure functions or I/O.
* The administration tools and the test client: one request after another without state
  of their own; their requests are those of `ControlPlane`'s administrators and ad-hoc
  clients. The self test is a test.
* Identifiers made of timestamps are taken as unique, and requests name what the server
  told their sender.

## 6. Plan

Done, in this order: `FederationBase`, `StateStore`, `WeightBuffer`, `ControlPlane`,
`StateStoreProofs`, `StreamCall`, `Registration`, `KeyRotation`, `PersistentStore`,
`Training`, `Aggregation`, `RegistrationProofs`, `KeyRotationProofs`, `StreamCallProofs`,
`ControlPlaneProofs`, `PersistentStoreProofs`, `TrainingProofs`, `AggregationProofs`, and the
refinement `ImplementsStore`. Every safety property of every module is now proved.

Left: tensors of more than one dimension in `Aggregation`, where Krum and the norms couple the
dimensions; `UpsertDataset` and the dataset check of `CreateTrainingJob`; and a store of several
scopes, for the claim of section 2 that they do not meet.
