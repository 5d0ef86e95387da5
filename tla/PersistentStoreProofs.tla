------------------------ MODULE PersistentStoreProofs -------------------------
(***************************************************************************)
(* Proofs about the store with its file (PersistentSpec), for any number   *)
(* of crashes and of saves that fail: the file is always one state of the  *)
(* store, what was answered is in it, and until a save fails the store     *)
(* with its file implements the atomic one (StateStore).                   *)
(***************************************************************************)
EXTENDS PersistentStore, StateStoreProofs

-----------------------------------------------------------------------------
(* Memory and file are both states a store can be in.  Each may become the *)
(* other: the file at a rename, memory at a start-up.                      *)

(* The store as the file has it. *)
File == INSTANCE StateStore WITH
    jobs <- file.jobs, assignments <- file.assignments, models <- file.models,
    workers <- file.workers, tasks <- file.tasks

MemoryInv == CoreInv /\ LeaseExclusive /\ OneTaskPerLease
FileInv ==
    /\ DOMAIN file = DOMAIN Empty
    /\ File!StoreTypeOK
    /\ File!OnlyNewestJobActive
    /\ File!OneActiveModel
    /\ File!LeaseExclusive
    /\ File!OneTaskPerLease
PersistentInv == MemoryInv /\ FileInv

MemoryIs(s) ==
    /\ jobs = s.jobs
    /\ assignments = s.assignments
    /\ models = s.models
    /\ workers = s.workers
    /\ tasks = s.tasks

LEMMA MemoryFromFile == MemoryIs(file) /\ FileInv => MemoryInv
<1> SUFFICES ASSUME MemoryIs(file), FileInv
             PROVE  MemoryInv
    OBVIOUS
<1>1. StoreTypeOK
    BY Zenon DEF FileInv, MemoryIs, File!StoreTypeOK, StoreTypeOK, File!Job, Job,
       File!Assignment, Assignment, File!Model, Model, File!Worker, Worker, File!Task, Task,
       File!JobStatus, JobStatus, File!AssignmentStatus, AssignmentStatus,
       File!WorkerStatus, WorkerStatus, File!TaskStatus, TaskStatus,
       File!ReportableStatus, ReportableStatus
<1>2. OnlyNewestJobActive
    BY Zenon DEF FileInv, MemoryIs, File!OnlyNewestJobActive, OnlyNewestJobActive,
       File!ActiveJobs, ActiveJobs, File!IsActiveJobStatus, IsActiveJobStatus
<1>3. OneActiveModel
    BY Zenon DEF FileInv, MemoryIs, File!OneActiveModel, OneActiveModel
<1>4. LeaseExclusive
    BY Zenon DEF FileInv, MemoryIs, File!LeaseExclusive, LeaseExclusive, File!Held, Held
<1>5. OneTaskPerLease
    BY Zenon DEF FileInv, MemoryIs, File!OneTaskPerLease, OneTaskPerLease
<1> QED
    BY <1>1, <1>2, <1>3, <1>4, <1>5 DEF MemoryInv, CoreInv

LEMMA FileFromMemory == file = Memory /\ MemoryInv => FileInv
<1> SUFFICES ASSUME file = Memory, MemoryInv
             PROVE  FileInv
    OBVIOUS
<1>1. MemoryIs(file) /\ DOMAIN file = DOMAIN Empty
    BY DEF Memory, MemoryIs, Empty
<1>2. File!StoreTypeOK
    BY <1>1, Zenon DEF MemoryInv, CoreInv, MemoryIs, File!StoreTypeOK, StoreTypeOK,
       File!Job, Job,
       File!Assignment, Assignment, File!Model, Model, File!Worker, Worker, File!Task, Task,
       File!JobStatus, JobStatus, File!AssignmentStatus, AssignmentStatus,
       File!WorkerStatus, WorkerStatus, File!TaskStatus, TaskStatus,
       File!ReportableStatus, ReportableStatus
<1>3. File!OnlyNewestJobActive
    BY <1>1, Zenon DEF MemoryInv, CoreInv, MemoryIs, File!OnlyNewestJobActive,
       OnlyNewestJobActive, File!ActiveJobs, ActiveJobs,
       File!IsActiveJobStatus, IsActiveJobStatus
<1>4. File!OneActiveModel
    BY <1>1, Zenon DEF MemoryInv, CoreInv, MemoryIs, File!OneActiveModel, OneActiveModel
<1>5. File!LeaseExclusive
    BY <1>1, Zenon DEF MemoryInv, MemoryIs, File!LeaseExclusive, LeaseExclusive,
       File!Held, Held
<1>6. File!OneTaskPerLease
    BY <1>1, Zenon DEF MemoryInv, MemoryIs, File!OneTaskPerLease, OneTaskPerLease
<1> QED
    BY <1>1, <1>2, <1>3, <1>4, <1>5, <1>6 DEF FileInv

(* A server that starts with an empty state may lease and record anew. *)
LEMMA MemoryFromEmpty == MemoryIs(Empty) => MemoryInv
<1> SUFFICES ASSUME MemoryIs(Empty)
             PROVE  MemoryInv
    OBVIOUS
<1>1. StoreInit
    BY DEF MemoryIs, Empty, StoreInit
<1>2. CoreInv
    BY <1>1, CoreInit
<1> QED
    BY <1>1, <1>2 DEF MemoryInv, StoreInit, LeaseExclusive, OneTaskPerLease

(* Every operation on memory keeps it so. *)
LEMMA MemoryStep ==
    ASSUME MemoryInv, [StoreNext]_storeVars
    PROVE  MemoryInv'
<1>1. CoreInv'
    BY CoreNext DEF MemoryInv
<1>2. LeaseExclusive'
    BY LeaseExclusiveNext DEF MemoryInv
<1>3. OneTaskPerLease'
    BY TasksNext, Zenon DEF MemoryInv, TasksKept, NewTasksDistinct, OneTaskPerLease
<1> QED
    BY <1>1, <1>2, <1>3 DEF MemoryInv

-----------------------------------------------------------------------------
(* The steps, one by one *)

(* A lease that runs out while the server is up or down does so for the    *)
(* file as well, and nothing else does.                                    *)
LEMMA TimePassesInFile ==
    ASSUME FileInv, NEW i, TimePasses(i)
    PROVE  FileInv'
<1> DEFINE old == file.assignments
           new == [k \in DOMAIN old |->
                      IF k = i THEN [old[k] EXCEPT !.due = TRUE] ELSE old[k]]
<1>1. file' = [file EXCEPT !.assignments = new]
    BY DEF TimePasses
<1>2. /\ DOMAIN file' = DOMAIN file
      /\ file'.assignments = new
      /\ file'.jobs = file.jobs /\ file'.models = file.models
      /\ file'.workers = file.workers /\ file'.tasks = file.tasks
    BY <1>1 DEF FileInv, Empty
<1>3. Len(old) \in Nat /\ DOMAIN old = 1 .. Len(old)
      /\ \A k \in DOMAIN old : old[k] \in File!Assignment
    BY DEF FileInv, File!StoreTypeOK
<1>4. new \in [1 .. Len(old) -> File!Assignment]
    BY <1>3 DEF File!Assignment
<1>5. new \in Seq(File!Assignment) /\ DOMAIN new = DOMAIN old
    BY <1>3, <1>4, FunctionIsSeq
<1>6. \A k \in DOMAIN old : /\ new[k].job = old[k].job
                            /\ new[k].client = old[k].client
                            /\ new[k].round = old[k].round
                            /\ new[k].status = old[k].status
    BY <1>3 DEF File!Assignment
<1> HIDE DEF new
<1>7. File!StoreTypeOK'
    BY <1>2, <1>5, <1>6 DEF FileInv, File!StoreTypeOK
<1>8. File!LeaseExclusive'
    BY <1>2, <1>5, <1>6 DEF FileInv, File!LeaseExclusive, File!Held
<1> QED
    BY <1>2, <1>7, <1>8 DEF FileInv, File!OnlyNewestJobActive, File!ActiveJobs,
       File!IsActiveJobStatus, File!OneActiveModel, File!OneTaskPerLease

LEMMA PersistentStep ==
    ASSUME PersistentInv, [PersistentNext]_vars
    PROVE  PersistentInv'
<1> USE DEF PersistentInv
<1>1. ASSUME [StoreNext]_storeVars, UNCHANGED file
      PROVE  PersistentInv'
    <2>1. MemoryInv'
        BY <1>1, MemoryStep
    <2> QED
        BY <1>1, <2>1, Zenon DEF FileInv, File!StoreTypeOK, File!OnlyNewestJobActive,
           File!ActiveJobs, File!OneActiveModel, File!LeaseExclusive, File!Held,
           File!OneTaskPerLease
<1>2. CASE UNCHANGED vars
    BY <1>1, <1>2 DEF vars, diskVars
<1>3. CASE SavingOperation
    BY <1>1, <1>3 DEF SavingOperation, StoreNext
<1>4. CASE UnsavedExpiry
    BY <1>1, <1>4 DEF UnsavedExpiry, StoreNext
<1>5. ASSUME NEW i \in DOMAIN assignments, TimePasses(i)
      PROVE  PersistentInv'
    <2>1. MemoryInv'
        BY <1>5, MemoryStep DEF TimePasses, StoreNext
    <2> QED
        BY <1>5, <2>1, TimePassesInFile
<1>6. CASE Rename
    <2>1. MemoryInv'
        BY <1>6, MemoryStep DEF Rename
    <2>2. (file = Memory)'
        BY <1>6 DEF Rename, Memory, storeVars
    <2>3. (file = Memory /\ MemoryInv => FileInv)'
        BY FileFromMemory, PTL
    <2> QED
        BY <2>1, <2>2, <2>3
<1>7. ASSUME MemoryBecomes(file), UNCHANGED file
      PROVE  PersistentInv'
    <2>1. (MemoryIs(file) /\ FileInv => MemoryInv)'
        BY MemoryFromFile, PTL
    <2>2. MemoryIs(file)'
        BY <1>7 DEF MemoryBecomes, MemoryIs
    <2>3. FileInv'
        BY <1>7, Zenon DEF FileInv, File!StoreTypeOK, File!OnlyNewestJobActive,
           File!ActiveJobs, File!OneActiveModel, File!LeaseExclusive, File!Held,
           File!OneTaskPerLease
    <2> QED
        BY <2>1, <2>2, <2>3
<1>8. CASE SaveFails
    <2>1. CASE OperationFails
        BY <1>1, <2>1 DEF OperationFails
    <2>2. CASE LoadResets
        <3>1. (MemoryIs(Empty) => MemoryInv)'
            BY MemoryFromEmpty, PTL
        <3>2. MemoryIs(Empty)'
            BY <2>2 DEF LoadResets, MemoryBecomes, MemoryIs, Empty
        <3>3. FileInv'
            BY <2>2, Zenon DEF LoadResets, FileInv, File!StoreTypeOK,
               File!OnlyNewestJobActive,
               File!ActiveJobs, File!OneActiveModel, File!LeaseExclusive, File!Held,
               File!OneTaskPerLease
        <3> QED
            BY <3>1, <3>2, <3>3
    <2>3. CASE ServerDies
        BY <1>7, <2>3 DEF ServerDies
    <2> QED
        BY <1>8, <2>1, <2>2, <2>3 DEF SaveFails
<1>9. CASE Crash
    BY <1>7, <1>9 DEF Crash, ServerDies
<1>10. CASE Load
    BY <1>1, <1>10 DEF Load, Reload, StoreNext
<1> QED
    BY <1>2, <1>3, <1>4, <1>5, <1>6, <1>8, <1>9, <1>10 DEF PersistentNext

LEMMA PersistentStart == PersistentInit => PersistentInv
<1> SUFFICES ASSUME PersistentInit
             PROVE  PersistentInv
    OBVIOUS
<1>1. MemoryIs(Empty) /\ file = Memory
    BY DEF PersistentInit, StoreInit, MemoryIs, Empty, Memory
<1> QED
    BY <1>1, MemoryFromEmpty, FileFromMemory DEF PersistentInv

LEMMA PersistentInvariant == PersistentSpec => []PersistentInv
<1>1. PersistentInv /\ [PersistentNext]_vars => PersistentInv'
    BY PersistentStep
<1> QED
    BY PersistentStart, <1>1, PTL DEF PersistentSpec

-----------------------------------------------------------------------------
(* What the file says *)

(* SaveLocked replaces the file by the whole of memory and Load gives      *)
(* memory the whole of the file, so no crash or failing save, wherever it  *)
(* comes, mixes two states.                                                *)
THEOREM FileConsistentHolds == PersistentSpec => []FileConsistent
<1>1. PersistentInv => FileConsistent
    <2> SUFFICES ASSUME FileInv
                 PROVE  FileConsistent
        BY DEF PersistentInv
    <2> DEFINE old == file.assignments
               known == KnownAssignments
    <2>1. File!Assignment = Known!Assignment
        BY DEF File!Assignment, Known!Assignment,
           File!AssignmentStatus, Known!AssignmentStatus
    <2>2. Len(old) \in Nat /\ DOMAIN old = 1 .. Len(old)
          /\ \A k \in DOMAIN old : old[k] \in Known!Assignment
        BY <2>1 DEF FileInv, File!StoreTypeOK
    <2>3. known \in [1 .. Len(old) -> Known!Assignment]
        BY <2>2 DEF KnownAssignments, Known!Assignment, Known!AssignmentStatus
    <2>4. known \in Seq(Known!Assignment) /\ DOMAIN known = DOMAIN old
        BY <2>2, <2>3, FunctionIsSeq
    <2>5. \A k \in DOMAIN old : /\ known[k].job = old[k].job
                                /\ known[k].client = old[k].client
                                /\ known[k].round = old[k].round
                                /\ known[k].status = "leased" => old[k].status = "leased"
        BY <2>2 DEF KnownAssignments, Known!Assignment
    <2> HIDE DEF known
    <2>6. known = KnownAssignments
        BY DEF known
    <2>7. Known!StoreTypeOK
        BY <2>4, <2>5, <2>6, Zenon DEF FileInv, File!StoreTypeOK, Known!StoreTypeOK,
           File!Job, Known!Job, File!JobStatus, Known!JobStatus, File!Model, Known!Model,
           File!Worker, Known!Worker, File!WorkerStatus, Known!WorkerStatus,
           File!Task, Known!Task, File!TaskStatus, Known!TaskStatus,
           File!ReportableStatus, Known!ReportableStatus
    <2>8. Known!OnlyNewestJobActive /\ Known!OneActiveModel
        BY Zenon DEF FileInv, File!OnlyNewestJobActive, Known!OnlyNewestJobActive,
           File!ActiveJobs, Known!ActiveJobs, File!IsActiveJobStatus,
           Known!IsActiveJobStatus, File!OneActiveModel, Known!OneActiveModel
    <2>9. Known!LeaseExclusive
        BY <2>4, <2>5, <2>6 DEF FileInv, File!LeaseExclusive, File!Held,
           Known!LeaseExclusive, Known!Held
    <2> QED
        BY <2>7, <2>8, <2>9 DEF FileConsistent
<1> QED
    BY <1>1, PersistentInvariant, PTL

(* What a server answers from keeps its types, whatever was loaded and     *)
(* however often a save failed (Load clears everything and starts anew).   *)
THEOREM LoadedStoreTypeCorrect == PersistentSpec => []StoreTypeOK
<1>1. PersistentInv => StoreTypeOK
    BY DEF PersistentInv, MemoryInv, CoreInv
<1> QED
    BY <1>1, PersistentInvariant, PTL

(* A worker that asks again after a restart is found its task again.       *)
THEOREM OneTaskPerLeaseLoaded == PersistentSpec => []OneTaskPerLease
<1>1. PersistentInv => OneTaskPerLease
    BY DEF PersistentInv, MemoryInv
<1> QED
    BY <1>1, PersistentInvariant, PTL

-----------------------------------------------------------------------------
(* What was answered is in the file *)

(* When nothing is being saved and the last save did not fail, memory is   *)
(* the file but for the leases that ran out since.                         *)
SameOrExpired(a, b) ==
    \/ b = a
    \/ /\ a.status = "leased" /\ a.due
       /\ b = [a EXCEPT !.status = "expired"]
Saved ==
    /\ jobs = file.jobs /\ models = file.models
    /\ workers = file.workers /\ tasks = file.tasks
    /\ DOMAIN assignments = DOMAIN file.assignments
    /\ \A i \in DOMAIN assignments : SameOrExpired(file.assignments[i], assignments[i])
SavedInv == saving = NotSaving /\ ~dirty => Saved

LEMMA SavedStep ==
    ASSUME PersistentInv, SavedInv, [PersistentNext]_vars
    PROVE  SavedInv'
<1> SUFFICES ASSUME saving' = NotSaving, ~dirty'
             PROVE  Saved'
    BY DEF SavedInv
<1>0. /\ NotSaving # Down
      /\ \A by : Saving(by) # NotSaving
      /\ NotSaving.at # "saving"
    BY DEF NotSaving, Down, Saving
<1>1. CASE UNCHANGED vars
    BY <1>1, Zenon DEF vars, diskVars, storeVars, SavedInv, Saved
<1>2. CASE SavingOperation
    BY <1>0, <1>2 DEF SavingOperation
<1>3. CASE UnsavedExpiry
    <2>1. Saved
        BY <1>3 DEF UnsavedExpiry, SavedInv
    <2>2. /\ assignments' = Expired /\ DOMAIN Expired = DOMAIN assignments
          /\ UNCHANGED <<jobs, models, workers, tasks, file>>
        BY <1>3, Zenon DEF UnsavedExpiry, ExpireAssignments, Expired
    <2>3. ASSUME NEW i \in DOMAIN assignments
          PROVE  SameOrExpired(file.assignments[i], Expired[i])
        <3>1. CASE i \in Overdue
            <4>1. Expired[i] = [assignments[i] EXCEPT !.status = "expired"]
                BY <3>1, Zenon DEF Expired
            <4>2. assignments[i].status = "leased" /\ assignments[i].due
                BY <3>1 DEF Overdue
            <4>3. assignments[i] \in Assignment /\ file.assignments[i] \in File!Assignment
                BY <2>1, CoreTypes DEF PersistentInv, MemoryInv, FileInv, Saved,
                   File!StoreTypeOK
            <4>4. assignments[i] = file.assignments[i]
                BY <2>1, <4>2, <4>3 DEF Saved, SameOrExpired, File!Assignment
            <4> QED
                BY <4>1, <4>2, <4>4 DEF SameOrExpired
        <3>2. CASE i \notin Overdue
            BY <2>1, <3>2, Zenon DEF Saved, Expired
        <3> QED
            BY <3>1, <3>2
    <2> QED
        BY <2>1, <2>2, <2>3 DEF Saved
<1>4. ASSUME NEW i \in DOMAIN assignments, TimePasses(i)
      PROVE  Saved'
    <2>1. Saved
        BY <1>0, <1>4 DEF TimePasses, SavedInv
    <2>2. /\ Live(assignments[i])
          /\ assignments' = [assignments EXCEPT ![i].due = TRUE]
          /\ UNCHANGED <<jobs, models, workers, tasks>>
        BY <1>4, Zenon DEF TimePasses, LeaseRunsOut
    <2>3. \A k \in DOMAIN assignments :
              assignments[k] \in Assignment /\ file.assignments[k] \in File!Assignment
        BY <2>1, CoreTypes DEF PersistentInv, MemoryInv, FileInv, Saved, File!StoreTypeOK
    <2>4. /\ DOMAIN file'.assignments = DOMAIN file.assignments
          /\ \A k \in DOMAIN file.assignments :
                file'.assignments[k] = IF k = i THEN [file.assignments[k] EXCEPT !.due = TRUE]
                                       ELSE file.assignments[k]
          /\ file'.jobs = file.jobs /\ file'.models = file.models
          /\ file'.workers = file.workers /\ file'.tasks = file.tasks
        BY <1>4 DEF TimePasses, PersistentInv, FileInv, Empty
    <2>5. assignments[i] = file.assignments[i]
        BY <2>1, <2>2, <2>3 DEF Saved, SameOrExpired, Live, File!Assignment
    <2>6. ASSUME NEW k \in DOMAIN assignments
          PROVE  SameOrExpired(file'.assignments[k], assignments'[k])
        <3>1. CASE k = i
            BY <2>1, <2>2, <2>4, <2>5, <3>1 DEF Saved, SameOrExpired
        <3>2. CASE k # i
            BY <2>1, <2>2, <2>4, <3>2 DEF Saved
        <3> QED
            BY <3>1, <3>2
    <2> QED
        BY <2>1, <2>2, <2>4, <2>6 DEF Saved
<1>5. CASE Rename
    BY <1>5 DEF Rename, storeVars, Memory, Saved, SameOrExpired
<1>6. CASE SaveFails
    BY <1>0, <1>6 DEF SaveFails, OperationFails, LoadResets, ServerDies
<1>7. CASE Crash
    BY <1>0, <1>7 DEF Crash, ServerDies
<1>8. CASE Load
    BY <1>0, <1>8 DEF Load
<1> QED
    BY <1>1, <1>2, <1>3, <1>4, <1>5, <1>6, <1>7, <1>8 DEF PersistentNext

(* Whatever was answered survives a crash at any later moment, as long as  *)
(* the saves before the answer did not fail.                               *)
THEOREM AnsweredIsDurableHolds == PersistentSpec => []AnsweredIsDurable
<1>1. PersistentInit => SavedInv
    BY DEF PersistentInit, SavedInv, Down, NotSaving
<1>2. PersistentInv /\ SavedInv /\ [PersistentNext]_vars => SavedInv'
    BY SavedStep
<1>3. PersistentInv /\ SavedInv => AnsweredIsDurable
    <2> SUFFICES ASSUME PersistentInv, SavedInv, saving = NotSaving, ~dirty
                 PROVE  Loaded(file) = Loaded(Memory)
        BY DEF AnsweredIsDurable
    <2> DEFINE Late(a) == IF a.status = "leased" /\ a.due
                          THEN [a EXCEPT !.status = "expired"] ELSE a
               late(f) == [i \in DOMAIN f |-> Late(f[i])]
    <2>1. Saved
        BY DEF SavedInv
    <2>2. \A i \in DOMAIN assignments : file.assignments[i] \in File!Assignment
        BY <2>1 DEF Saved, PersistentInv, FileInv, File!StoreTypeOK
    <2>3. \A i \in DOMAIN assignments : Late(file.assignments[i]) = Late(assignments[i])
        BY <2>1, <2>2 DEF Saved, SameOrExpired, File!Assignment
    <2>4. late(file.assignments) = late(assignments)
        BY <2>1, <2>3, Zenon DEF Saved
    <2>5. /\ Loaded(file) = [file EXCEPT !.assignments = late(file.assignments)]
          /\ Loaded(Memory) = [Memory EXCEPT !.assignments = late(assignments)]
        BY DEF Loaded, Memory, PersistentInv, FileInv, Empty
    <2>6. DOMAIN file = DOMAIN Memory
        BY DEF PersistentInv, FileInv, Empty, Memory
    <2> HIDE DEF late
    <2> QED
        BY <2>1, <2>4, <2>5, <2>6 DEF Saved, Memory
<1> QED
    BY <1>1, <1>2, <1>3, PersistentInvariant, PTL DEF PersistentSpec

-----------------------------------------------------------------------------
(* The file implements the store *)

(* What an operation has done to memory while its result is being saved,   *)
(* said of one state: the store its callers know is still the old one, and *)
(* memory is the new one.  One predicate per operation of StateStore, each *)
(* its action with memory for the primed variables.                        *)
ReusedPending(c, a) ==
    /\ Known!HasActiveJob /\ ~Known!Finished(Known!ActiveJob)
    /\ a \in Known!HeldLeases(Known!ActiveJob, c)
    /\ \A b \in Known!HeldLeases(Known!ActiveJob, c) : a <= b
    /\ jobs = [file.jobs EXCEPT ![Known!ActiveJob].status = "running"]
    /\ assignments = Known!Expired
    /\ models = file.models /\ workers = file.workers /\ tasks = file.tasks
RefusedPending(c) ==
    /\ Known!HasActiveJob
    /\ \/ Known!Finished(Known!ActiveJob)
       \/ /\ Known!HeldLeases(Known!ActiveJob, c) = {}
          /\ Cardinality(Known!RoundLeases(Known!ActiveJob))
                >= Known!RoundCapacity(Known!ActiveJob)
    /\ jobs = [file.jobs EXCEPT ![Known!ActiveJob].status =
                  IF Known!Finished(Known!ActiveJob) THEN "completed" ELSE "running"]
    /\ assignments = Known!Expired
    /\ models = file.models /\ workers = file.workers /\ tasks = file.tasks
IssuedPending(c, version) ==
    /\ Known!HasActiveJob /\ ~Known!Finished(Known!ActiveJob)
    /\ Known!HeldLeases(Known!ActiveJob, c) = {}
    /\ Cardinality(Known!RoundLeases(Known!ActiveJob)) < Known!RoundCapacity(Known!ActiveJob)
    /\ Len(KnownAssignments) < MaxAssignments
    /\ jobs = [file.jobs EXCEPT ![Known!ActiveJob].status = "running"]
    /\ assignments = Append(Known!Expired,
           [job |-> Known!ActiveJob, client |-> c, round |-> file.jobs[Known!ActiveJob].round,
            base |-> version, status |-> "leased", due |-> FALSE])
    /\ models = file.models /\ workers = file.workers /\ tasks = file.tasks
AcceptedPending(req) ==
    /\ Known!HasActiveJob /\ Known!Submittable(req)
    /\ assignments = [Known!Expired EXCEPT ![req.asg].status = "submitted"]
    /\ tasks = [t \in DOMAIN file.tasks |->
                   IF t \in Known!TasksOf(req.asg)
                   THEN [file.tasks[t] EXCEPT !.status = "submitted"] ELSE file.tasks[t]]
    /\ workers = [w \in Workers |->
                   IF \E t \in Known!TasksOf(req.asg) : file.tasks[t].worker = w
                   THEN Known!Idle(w, Known!TasksOf(req.asg)) ELSE file.workers[w]]
    /\ jobs = file.jobs /\ models = file.models
AggregatedPending(r) ==
    /\ Len(file.models) < MaxModels
    /\ models = Append([v \in DOMAIN file.models |->
                           [file.models[v] EXCEPT !.active = FALSE]],
                       [round |-> r, active |-> TRUE])
    /\ jobs = file.jobs /\ assignments = KnownAssignments
    /\ workers = file.workers /\ tasks = file.tasks
AdvancedPending(r, version) ==
    LET j == Known!ActiveJob IN
    /\ Known!HasActiveJob
    /\ assignments = [i \in DOMAIN KnownAssignments |->
           IF i \in Known!RoundAssignments(j, r)
           THEN [KnownAssignments[i] EXCEPT !.status = Known!ClosedAssignmentStatus(@)]
           ELSE KnownAssignments[i]]
    /\ tasks = [t \in DOMAIN file.tasks |->
           IF t \in Known!RoundTasks(j, r)
           THEN [file.tasks[t] EXCEPT !.status = Known!ClosedTaskStatus(@)]
           ELSE file.tasks[t]]
    /\ workers = [w \in Workers |->
           IF file.workers[w].task \in {t \in Known!RoundTasks(j, r) : file.tasks[t].worker = w}
           THEN [status |-> "idle", task |-> 0] ELSE file.workers[w]]
    /\ jobs = [file.jobs EXCEPT ![j] = Known!ClosedJob(j, r, version)]
    /\ models = file.models
CreatedPending(spec) ==
    /\ Len(file.jobs) < MaxJobs
    /\ jobs = Append([j \in DOMAIN file.jobs |->
                         IF j \in Known!ActiveJobs
                         THEN [file.jobs[j] EXCEPT !.status = "superseded"]
                         ELSE file.jobs[j]],
                     Known!NewJob(spec))
    /\ assignments = KnownAssignments /\ models = file.models
    /\ workers = file.workers /\ tasks = file.tasks
RolledBackPending(target) ==
    /\ target \in DOMAIN file.models
    /\ models = [v \in DOMAIN file.models |->
                    [file.models[v] EXCEPT !.active = (v = target)]]
    /\ jobs = file.jobs /\ assignments = KnownAssignments
    /\ workers = file.workers /\ tasks = file.tasks
UpsertedPending(w) ==
    /\ workers = [file.workers EXCEPT ![w].status = "idle"]
    /\ jobs = file.jobs /\ assignments = KnownAssignments
    /\ models = file.models /\ tasks = file.tasks
TaskLeasedPending(w, a) ==
    LET mine == {t \in Known!TasksOf(a) : file.tasks[t].worker = w} IN
    /\ file.workers[w].status # "unregistered"
    /\ IF mine # {}
       THEN /\ tasks = file.tasks
            /\ \E t \in mine : workers = [file.workers EXCEPT ![w] =
                                             [status |-> "leased", task |-> t]]
       ELSE /\ tasks = Append(file.tasks, [worker |-> w, asg |-> a, status |-> "leased"])
            /\ workers = [file.workers EXCEPT ![w] =
                             [status |-> "leased", task |-> Len(file.tasks) + 1]]
    /\ jobs = file.jobs /\ assignments = KnownAssignments /\ models = file.models
TaskReportedPending(w, t, s) ==
    /\ t \in DOMAIN file.tasks /\ file.tasks[t].worker = w
    /\ tasks = [file.tasks EXCEPT ![t].status = s]
    /\ workers = [file.workers EXCEPT ![w] =
           CASE s = "running" -> [status |-> "busy", task |-> t]
             [] s = "leased"  -> [status |-> "leased", task |-> t]
             [] OTHER         -> Known!Idle(w, {t})]
    /\ jobs = file.jobs /\ assignments = KnownAssignments /\ models = file.models
HeartbeatPending(w, t) ==
    /\ file.workers[w].status # "unregistered"
    /\ workers = [file.workers EXCEPT ![w] =
           IF t # 0 THEN [status |-> "busy", task |-> t]
           ELSE IF @.status # "leased" THEN [@ EXCEPT !.status = "idle"] ELSE @]
    /\ jobs = file.jobs /\ assignments = KnownAssignments
    /\ models = file.models /\ tasks = file.tasks

(* Callers know what is in memory. *)
MemoryIsKnown ==
    /\ jobs = file.jobs
    /\ assignments = KnownAssignments
    /\ models = file.models
    /\ workers = file.workers
    /\ tasks = file.tasks

Pending ==
    \/ MemoryIsKnown
    \/ \E c \in Clients, a \in DOMAIN KnownAssignments : ReusedPending(c, a)
    \/ \E c \in Clients : RefusedPending(c)
    \/ \E c \in Clients, v \in 0 .. Len(file.models) : IssuedPending(c, v)
    \/ \E i \in DOMAIN KnownAssignments, b \in 0 .. Len(file.models) :
          AcceptedPending([client |-> KnownAssignments[i].client,
                           job |-> KnownAssignments[i].job, asg |-> i,
                           round |-> KnownAssignments[i].round, base |-> b])
    \/ \E r \in Rounds : AggregatedPending(r)
    \/ \E r \in Rounds, v \in 0 .. Len(file.models) : AdvancedPending(r, v)
    \/ \E spec \in JobSpecs : CreatedPending(spec)
    \/ \E v \in DOMAIN file.models : RolledBackPending(v)
    \/ \E w \in Workers : UpsertedPending(w)
    \/ \E w \in Workers, i \in DOMAIN KnownAssignments :
          KnownAssignments[i].client = TrainerOf[w] /\ TaskLeasedPending(w, i)
    \/ \E w \in Workers, t \in DOMAIN file.tasks, s \in ReportableStatus :
          TaskReportedPending(w, t, s)
    \/ \E w \in Workers : \E t \in {0} \union Known!OwnTasks(w) : HeartbeatPending(w, t)

(* While no save has failed: memory is what callers know, or, while the    *)
(* server is down, what the file says, or the file with its overdue leases *)
(* expired (start-up), or what an operation made of it.  Leases known to   *)
(* have expired are overdue in the file, so a restart expires them again.  *)
Related ==
    /\ saving = NotSaving => MemoryIsKnown
    /\ saving = Down => MemoryIs(file)
    /\ saving \in {Saving("load"), Saving("reset")} =>
          MemoryIs([file EXCEPT !.assignments = File!Expired])
    /\ saving \in {Saving("callback"), Saving("service")} => Pending
    /\ lapsed \subseteq File!Overdue
RefinementInv ==
    /\ faults \in Nat
    /\ saving \in {NotSaving, Down} \union {Saving(by) : by \in Savers}
    /\ faults = 0 => Related

(* Operators of the store mean the same of memory as of what callers know, *)
(* when the two are equal.                                                 *)
LEMMA SameLookups ==
    ASSUME MemoryIsKnown, UNCHANGED <<file, lapsed>>
    PROVE  /\ file'.jobs = jobs /\ KnownAssignments' = assignments
           /\ file'.models = models /\ file'.workers = workers /\ file'.tasks = tasks
           /\ Known!ActiveJobs' = ActiveJobs
           /\ Known!HasActiveJob' = HasActiveJob
           /\ Known!ActiveJob' = ActiveJob
           /\ Known!ActiveModelVersion' = ActiveModelVersion
           /\ Known!Expired' = Expired
           /\ \A j, c : Known!HeldLeases(j, c)' = HeldLeases(j, c)
           /\ \A j : Known!RoundLeases(j)' = RoundLeases(j)
           /\ \A j : Known!RoundCapacity(j)' = RoundCapacity(j)
           /\ \A j : Known!Finished(j)' <=> Finished(j)
           /\ \A spec : Known!NewJob(spec)' = NewJob(spec)
           /\ \A req : Known!Submittable(req)' <=> Submittable(req)
           /\ \A a : Known!TasksOf(a)' = TasksOf(a)
           /\ \A w, done : Known!Idle(w, done)' = Idle(w, done)
           /\ \A j, r : Known!RoundAssignments(j, r)' = RoundAssignments(j, r)
           /\ \A j, r : Known!RoundTasks(j, r)' = RoundTasks(j, r)
           /\ \A j, r, v : Known!ClosedJob(j, r, v)' = ClosedJob(j, r, v)
           /\ \A w : Known!OwnTasks(w)' = OwnTasks(w)
<1>1. /\ file'.jobs = jobs
      /\ file'.models = models /\ file'.workers = workers /\ file'.tasks = tasks
    BY DEF MemoryIsKnown
<1>2. KnownAssignments' = assignments
    BY DEF MemoryIsKnown, KnownAssignments
<1>3. Known!ActiveJobs' = ActiveJobs
    BY <1>1 DEF Known!ActiveJobs, ActiveJobs, Known!IsActiveJobStatus, IsActiveJobStatus
<1>4. Known!HasActiveJob' = HasActiveJob
    BY <1>3 DEF Known!HasActiveJob, HasActiveJob
<1>5. Known!ActiveJob' = ActiveJob
    BY <1>3 DEF Known!ActiveJob, ActiveJob
<1>6. Known!ActiveModels' = ActiveModels
    BY <1>1 DEF Known!ActiveModels, ActiveModels
<1>7. Known!ActiveModelVersion' = ActiveModelVersion
    BY <1>6 DEF Known!ActiveModelVersion, ActiveModelVersion
<1>8. Known!Overdue' = Overdue
    BY <1>2 DEF Known!Overdue, Overdue
<1>9. Known!Expired' = Expired
    BY <1>2, <1>8 DEF Known!Expired, Expired
<1>10. \A j, c : Known!HeldLeases(j, c)' = HeldLeases(j, c)
    BY <1>1, <1>2 DEF Known!HeldLeases, HeldLeases, Known!Live, Live
<1>11. \A j : Known!RoundLeases(j)' = RoundLeases(j)
    BY <1>1, <1>2 DEF Known!RoundLeases, RoundLeases, Known!Live, Live
<1>12. \A j : Known!RoundCapacity(j)' = RoundCapacity(j)
    BY <1>1 DEF Known!RoundCapacity, RoundCapacity
<1>13. \A j : Known!Finished(j)' <=> Finished(j)
    BY <1>1 DEF Known!Finished, Finished
<1>14. \A spec : Known!NewJob(spec)' = NewJob(spec)
    BY <1>7 DEF Known!NewJob, NewJob
<1>15. \A req : Known!Submittable(req)' <=> Submittable(req)
    BY <1>2, <1>5 DEF Known!Submittable, Submittable, Known!Live, Live
<1>16. \A a : Known!TasksOf(a)' = TasksOf(a)
    BY <1>1 DEF Known!TasksOf, TasksOf
<1>17. \A w, done : Known!Idle(w, done)' = Idle(w, done)
    BY <1>1 DEF Known!Idle, Idle
<1>18. \A j, r : Known!RoundAssignments(j, r)' = RoundAssignments(j, r)
    BY <1>2 DEF Known!RoundAssignments, RoundAssignments
<1>19. \A j, r : Known!RoundTasks(j, r)' = RoundTasks(j, r)
    BY <1>1, <1>18 DEF Known!RoundTasks, RoundTasks
<1>20. \A j, r, v : Known!ClosedJob(j, r, v)' = ClosedJob(j, r, v)
    BY <1>1 DEF Known!ClosedJob, ClosedJob
<1>21. \A w : Known!OwnTasks(w)' = OwnTasks(w)
    BY <1>1 DEF Known!OwnTasks, OwnTasks
<1> QED
    BY <1>1, <1>2, <1>3, <1>4, <1>5, <1>7, <1>9, <1>10, <1>11, <1>12, <1>13, <1>14,
       <1>15, <1>16, <1>17, <1>18, <1>19, <1>20, <1>21

(* An operation on memory that callers know of leaves its result pending.  *)
LEMMA OperationPends ==
    ASSUME MemoryIsKnown, UNCHANGED <<file, lapsed>>, CallbackOperation \/ ServiceOperation
    PROVE  Pending'
<1>1. /\ file'.jobs = jobs /\ KnownAssignments' = assignments
      /\ file'.models = models /\ file'.workers = workers /\ file'.tasks = tasks
    BY SameLookups
<1>2. ASSUME NEW c \in Clients, NEW v \in 0 .. Len(models), LeaseFromJob(c, v)
      PROVE  Pending'
    <2>1. ASSUME NEW a \in DOMAIN assignments, LeaseReused(c, a)
          PROVE  Pending'
        <3>1. ReusedPending(c, a)'
            BY <2>1, SameLookups, Zenon DEF LeaseReused, ReusedPending, Started
        <3> QED
            BY <1>1, <3>1, Zenon DEF Pending
    <2>2. CASE LeaseRefused(c)
        <3>1. RefusedPending(c)'
            BY <2>2, SameLookups, Zenon DEF LeaseRefused, RefusedPending, Started
        <3> QED
            BY <3>1, Zenon DEF Pending
    <2>3. CASE LeaseIssued(c, v)
        <3>1. IssuedPending(c, v)'
            BY <2>3, SameLookups, Zenon DEF LeaseIssued, IssuedPending, Started
        <3> QED
            BY <1>1, <3>1, Zenon DEF Pending
    <2> QED
        BY <1>2, <2>1, <2>2, <2>3, Zenon DEF LeaseFromJob
<1>3. ASSUME NEW i \in DOMAIN assignments, NEW b \in 0 .. Len(models),
             AcceptedSubmission([client |-> assignments[i].client,
                                 job |-> assignments[i].job, asg |-> i,
                                 round |-> assignments[i].round, base |-> b])
      PROVE  Pending'
    <2>1. PICK req : /\ req = [client |-> assignments[i].client,
                               job |-> assignments[i].job, asg |-> i,
                               round |-> assignments[i].round, base |-> b]
                     /\ AcceptedSubmission(req)
        BY <1>3, Zenon
    <2>2. AcceptedPending(req)'
        BY <2>1, SameLookups DEF AcceptedSubmission, AcceptedPending
    <2>3. req = [client |-> KnownAssignments'[i].client,
                 job |-> KnownAssignments'[i].job, asg |-> i,
                 round |-> KnownAssignments'[i].round, base |-> b]
        BY <1>1, <2>1
    <2> QED
        BY <1>1, <2>2, <2>3, Zenon DEF Pending
<1>4. CASE RecordWeightSubmission
    BY <1>1, <1>4 DEF RecordWeightSubmission, storeVars, Pending, MemoryIsKnown
<1>5. ASSUME NEW r \in Rounds, RecordAggregatedModel(r)
      PROVE  Pending'
    <2>1. AggregatedPending(r)'
        BY <1>1, <1>5, Zenon DEF RecordAggregatedModel, AggregatedPending
    <2> QED
        BY <2>1, Zenon DEF Pending
<1>6. ASSUME NEW r \in Rounds, NEW v \in 0 .. Len(models),
             HasActiveJob, AdvanceTrainingJobRound(r, v)
      PROVE  Pending'
    <2>1. AdvancedPending(r, v)'
        BY <1>6, SameLookups DEF AdvanceTrainingJobRound, AdvancedPending,
           Known!ClosedAssignmentStatus, ClosedAssignmentStatus,
           Known!ClosedTaskStatus, ClosedTaskStatus
    <2> QED
        BY <1>1, <2>1, Zenon DEF Pending
<1>7. ASSUME NEW spec \in JobSpecs, CreateTrainingJob(spec)
      PROVE  Pending'
    <2>1. CreatedPending(spec)'
        BY <1>7, SameLookups, Zenon DEF CreateTrainingJob, CreatedPending
    <2> QED
        BY <2>1, Zenon DEF Pending
<1>8. ASSUME NEW v \in DOMAIN models, RollbackModel(v)
      PROVE  Pending'
    <2>1. RolledBackPending(v)'
        BY <1>1, <1>8, Zenon DEF RollbackModel, RolledBackPending
    <2> QED
        BY <1>1, <2>1, Zenon DEF Pending
<1>9. ASSUME NEW w \in Workers, UpsertWorker(w)
      PROVE  Pending'
    <2>1. UpsertedPending(w)'
        BY <1>1, <1>9, Zenon DEF UpsertWorker, UpsertedPending
    <2> QED
        BY <2>1, Zenon DEF Pending
<1>10. ASSUME NEW w \in Workers, NEW i \in DOMAIN assignments,
              assignments[i].client = TrainerOf[w], LeaseWorkerTask(w, i)
       PROVE  Pending'
    <2>1. TaskLeasedPending(w, i)'
        BY <1>10, SameLookups DEF LeaseWorkerTask, TaskLeasedPending
    <2> QED
        BY <1>1, <1>10, <2>1, Zenon DEF Pending
<1>11. ASSUME NEW w \in Workers, NEW t \in DOMAIN tasks, NEW s \in ReportableStatus,
              UpdateWorkerTaskStatus(w, t, s)
       PROVE  Pending'
    <2>1. TaskReportedPending(w, t, s)'
        BY <1>11, SameLookups, Zenon DEF UpdateWorkerTaskStatus, TaskReportedPending
    <2> QED
        BY <1>1, <2>1, Zenon DEF Pending
<1>12. ASSUME NEW w \in Workers, NEW t \in {0} \union OwnTasks(w), RecordWorkerHeartbeat(w, t)
       PROVE  Pending'
    <2>1. HeartbeatPending(w, t)'
        BY <1>1, <1>12, Zenon DEF RecordWorkerHeartbeat, HeartbeatPending
    <2>2. t \in {0} \union Known!OwnTasks(w)'
        BY <1>12, SameLookups, Zenon
    <2> QED
        BY <2>1, <2>2, Zenon DEF Pending
<1> QED
    BY <1>2, <1>3, <1>4, <1>5, <1>6, <1>7, <1>8, <1>9, <1>10, <1>11, <1>12, Zenon
       DEF CallbackOperation, ServiceOperation

(* Nothing of this changes while the file and what has lapsed stay.        *)
LEMMA KnownUnchanged ==
    ASSUME UNCHANGED <<file, lapsed>>
    PROVE  /\ file'.jobs = file.jobs /\ KnownAssignments' = KnownAssignments
           /\ file'.models = file.models /\ file'.workers = file.workers /\ file'.tasks = file.tasks
           /\ Known!ActiveJobs' = Known!ActiveJobs
           /\ Known!HasActiveJob' = Known!HasActiveJob
           /\ Known!ActiveJob' = Known!ActiveJob
           /\ Known!ActiveModelVersion' = Known!ActiveModelVersion
           /\ Known!Expired' = Known!Expired
           /\ \A j, c : Known!HeldLeases(j, c)' = Known!HeldLeases(j, c)
           /\ \A j : Known!RoundLeases(j)' = Known!RoundLeases(j)
           /\ \A j : Known!RoundCapacity(j)' = Known!RoundCapacity(j)
           /\ \A j : Known!Finished(j)' <=> Known!Finished(j)
           /\ \A spec : Known!NewJob(spec)' = Known!NewJob(spec)
           /\ \A req : Known!Submittable(req)' <=> Known!Submittable(req)
           /\ \A a : Known!TasksOf(a)' = Known!TasksOf(a)
           /\ \A w, done : Known!Idle(w, done)' = Known!Idle(w, done)
           /\ \A j, r : Known!RoundAssignments(j, r)' = Known!RoundAssignments(j, r)
           /\ \A j, r : Known!RoundTasks(j, r)' = Known!RoundTasks(j, r)
           /\ \A j, r, v : Known!ClosedJob(j, r, v)' = Known!ClosedJob(j, r, v)
           /\ \A w : Known!OwnTasks(w)' = Known!OwnTasks(w)
<1>1. /\ file'.jobs = file.jobs
      /\ file'.models = file.models /\ file'.workers = file.workers /\ file'.tasks = file.tasks
    OBVIOUS
<1>2. KnownAssignments' = KnownAssignments
    BY DEF KnownAssignments
<1>3. Known!ActiveJobs' = Known!ActiveJobs
    BY <1>1 DEF Known!ActiveJobs, Known!IsActiveJobStatus
<1>4. Known!HasActiveJob' = Known!HasActiveJob
    BY <1>3 DEF Known!HasActiveJob
<1>5. Known!ActiveJob' = Known!ActiveJob
    BY <1>3 DEF Known!ActiveJob
<1>6. Known!ActiveModels' = Known!ActiveModels
    BY <1>1 DEF Known!ActiveModels
<1>7. Known!ActiveModelVersion' = Known!ActiveModelVersion
    BY <1>6 DEF Known!ActiveModelVersion
<1>8. Known!Overdue' = Known!Overdue
    BY <1>2 DEF Known!Overdue
<1>9. Known!Expired' = Known!Expired
    BY <1>2, <1>8 DEF Known!Expired
<1>10. \A j, c : Known!HeldLeases(j, c)' = Known!HeldLeases(j, c)
    BY <1>1, <1>2 DEF Known!HeldLeases, Known!Live
<1>11. \A j : Known!RoundLeases(j)' = Known!RoundLeases(j)
    BY <1>1, <1>2 DEF Known!RoundLeases, Known!Live
<1>12. \A j : Known!RoundCapacity(j)' = Known!RoundCapacity(j)
    BY <1>1 DEF Known!RoundCapacity
<1>13. \A j : Known!Finished(j)' <=> Known!Finished(j)
    BY <1>1 DEF Known!Finished
<1>14. \A spec : Known!NewJob(spec)' = Known!NewJob(spec)
    BY <1>7 DEF Known!NewJob
<1>15. \A req : Known!Submittable(req)' <=> Known!Submittable(req)
    BY <1>2, <1>5 DEF Known!Submittable, Known!Live
<1>16. \A a : Known!TasksOf(a)' = Known!TasksOf(a)
    BY <1>1 DEF Known!TasksOf
<1>17. \A w, done : Known!Idle(w, done)' = Known!Idle(w, done)
    BY <1>1 DEF Known!Idle
<1>18. \A j, r : Known!RoundAssignments(j, r)' = Known!RoundAssignments(j, r)
    BY <1>2 DEF Known!RoundAssignments
<1>19. \A j, r : Known!RoundTasks(j, r)' = Known!RoundTasks(j, r)
    BY <1>1, <1>18 DEF Known!RoundTasks
<1>20. \A j, r, v : Known!ClosedJob(j, r, v)' = Known!ClosedJob(j, r, v)
    BY <1>1 DEF Known!ClosedJob
<1>21. \A w : Known!OwnTasks(w)' = Known!OwnTasks(w)
    BY <1>1 DEF Known!OwnTasks
<1> QED
    BY <1>1, <1>2, <1>3, <1>4, <1>5, <1>7, <1>9, <1>10, <1>11, <1>12, <1>13, <1>14,
       <1>15, <1>16, <1>17, <1>18, <1>19, <1>20, <1>21

LEMMA KnownCardinality == \A S : Known!Cardinality(S) = Cardinality(S)
BY DEF Known!Cardinality, Cardinality

(* The rename makes a pending result what callers know, in one operation   *)
(* of the store.                                                           *)
LEMMA PendingIsOperation ==
    ASSUME Pending, file'.jobs = jobs, KnownAssignments' = assignments,
           file'.models = models, file'.workers = workers, file'.tasks = tasks
    PROVE  Known!StoreNext
<1>1. CASE MemoryIsKnown
    BY <1>1 DEF MemoryIsKnown, Known!StoreNext, Known!CallbackOperation,
       Known!RecordWeightSubmission, Known!storeVars
<1>2. ASSUME NEW c \in Clients, NEW a \in DOMAIN KnownAssignments, ReusedPending(c, a)
      PROVE  Known!StoreNext
    <2>1. Known!LeaseReused(c, a)
        BY <1>2, Zenon DEF ReusedPending, Known!LeaseReused, Known!Started
    <2>2. \E v \in 0 .. Len(file.models) : Known!LeaseFromJob(c, v)
        BY <2>1 DEF Known!LeaseFromJob
    <2> QED
        BY <2>2, Zenon DEF Known!StoreNext, Known!ServiceOperation
<1>3. ASSUME NEW c \in Clients, RefusedPending(c)
      PROVE  Known!StoreNext
    <2>1. Known!LeaseRefused(c)
        BY <1>3, KnownCardinality, Zenon DEF RefusedPending, Known!LeaseRefused, Known!Started
    <2>2. \E v \in 0 .. Len(file.models) : Known!LeaseFromJob(c, v)
        BY <2>1 DEF Known!LeaseFromJob
    <2> QED
        BY <2>2, Zenon DEF Known!StoreNext, Known!ServiceOperation
<1>4. ASSUME NEW c \in Clients, NEW v \in 0 .. Len(file.models), IssuedPending(c, v)
      PROVE  Known!StoreNext
    <2>1. Known!LeaseIssued(c, v)
        BY <1>4, KnownCardinality, Zenon DEF IssuedPending, Known!LeaseIssued, Known!Started
    <2> QED
        BY <2>1, Zenon DEF Known!LeaseFromJob, Known!StoreNext, Known!ServiceOperation
<1>5. ASSUME NEW i \in DOMAIN KnownAssignments, NEW b \in 0 .. Len(file.models),
             AcceptedPending([client |-> KnownAssignments[i].client,
                              job |-> KnownAssignments[i].job, asg |-> i,
                              round |-> KnownAssignments[i].round, base |-> b])
      PROVE  Known!StoreNext
    <2> DEFINE req == [client |-> KnownAssignments[i].client,
                       job |-> KnownAssignments[i].job, asg |-> i,
                       round |-> KnownAssignments[i].round, base |-> b]
    <2>1. AcceptedPending(req)
        BY <1>5
    <2>2. (\E k \in DOMAIN KnownAssignments, d \in 0 .. Len(file.models) :
              Known!AcceptedSubmission([client |-> KnownAssignments[k].client,
                                        job |-> KnownAssignments[k].job, asg |-> k,
                                        round |-> KnownAssignments[k].round, base |-> d]))
          => Known!StoreNext
        BY Zenon DEF Known!StoreNext, Known!CallbackOperation
    <2> HIDE DEF req
    <2>3. Known!AcceptedSubmission(req)
        BY <2>1, Zenon DEF AcceptedPending, Known!AcceptedSubmission
    <2> QED
        BY <2>2, <2>3, Zenon DEF req
<1>6. ASSUME NEW r \in Rounds, AggregatedPending(r)
      PROVE  Known!StoreNext
    <2>1. Known!RecordAggregatedModel(r)
        BY <1>6, Zenon DEF AggregatedPending, Known!RecordAggregatedModel
    <2> QED
        BY <2>1, Zenon DEF Known!StoreNext, Known!CallbackOperation, Known!Rounds, Rounds
<1>7. ASSUME NEW r \in Rounds, NEW v \in 0 .. Len(file.models), AdvancedPending(r, v)
      PROVE  Known!StoreNext
    <2>1. Known!HasActiveJob /\ Known!AdvanceTrainingJobRound(r, v)
        BY <1>7, Zenon DEF AdvancedPending, Known!AdvanceTrainingJobRound
    <2> QED
        BY <2>1, Zenon DEF Known!StoreNext, Known!CallbackOperation, Known!Rounds, Rounds
<1>8. ASSUME NEW spec \in JobSpecs, CreatedPending(spec)
      PROVE  Known!StoreNext
    <2>1. Known!CreateTrainingJob(spec)
        BY <1>8, Zenon DEF CreatedPending, Known!CreateTrainingJob
    <2> QED
        BY <2>1, Zenon DEF Known!StoreNext, Known!ServiceOperation
<1>9. ASSUME NEW v \in DOMAIN file.models, RolledBackPending(v)
      PROVE  Known!StoreNext
    <2>1. Known!RollbackModel(v)
        BY <1>9, Zenon DEF RolledBackPending, Known!RollbackModel
    <2> QED
        BY <2>1, Zenon DEF Known!StoreNext, Known!ServiceOperation
<1>10. ASSUME NEW w \in Workers, UpsertedPending(w)
       PROVE  Known!StoreNext
    <2>1. Known!UpsertWorker(w)
        BY <1>10, Zenon DEF UpsertedPending, Known!UpsertWorker
    <2> QED
        BY <2>1, Zenon DEF Known!StoreNext, Known!ServiceOperation
<1>11. ASSUME NEW w \in Workers, NEW i \in DOMAIN KnownAssignments,
              KnownAssignments[i].client = TrainerOf[w], TaskLeasedPending(w, i)
       PROVE  Known!StoreNext
    <2>1. Known!LeaseWorkerTask(w, i)
        BY <1>11, Zenon DEF TaskLeasedPending, Known!LeaseWorkerTask
    <2> QED
        BY <1>11, <2>1, Zenon DEF Known!StoreNext, Known!ServiceOperation
<1>12. ASSUME NEW w \in Workers, NEW t \in DOMAIN file.tasks, NEW s \in ReportableStatus,
              TaskReportedPending(w, t, s)
       PROVE  Known!StoreNext
    <2>1. Known!UpdateWorkerTaskStatus(w, t, s)
        BY <1>12, Zenon DEF TaskReportedPending, Known!UpdateWorkerTaskStatus
    <2>2. s \in Known!ReportableStatus
        BY DEF ReportableStatus, Known!ReportableStatus
    <2> QED
        BY <2>1, <2>2, Zenon DEF Known!StoreNext, Known!ServiceOperation
<1>13. ASSUME NEW w \in Workers, NEW t \in {0} \union Known!OwnTasks(w), HeartbeatPending(w, t)
       PROVE  Known!StoreNext
    <2>1. Known!RecordWorkerHeartbeat(w, t)
        BY <1>13, Zenon DEF HeartbeatPending, Known!RecordWorkerHeartbeat
    <2> QED
        BY <2>1, Zenon DEF Known!StoreNext, Known!ServiceOperation
<1> QED
    BY <1>1, <1>2, <1>3, <1>4, <1>5, <1>6, <1>7, <1>8, <1>9, <1>10, <1>11, <1>12, <1>13,
       Zenon DEF Pending

(* What is overdue, and the same leases expired, in memory that is the     *)
(* file.                                                                   *)
LEMMA FileLookups ==
    /\ MemoryIs(file) => Overdue = File!Overdue /\ Expired = File!Expired
    /\ UNCHANGED file => File!Overdue' = File!Overdue /\ File!Expired' = File!Expired
<1>1. MemoryIs(file) => Overdue = File!Overdue
    BY DEF MemoryIs, Overdue, File!Overdue
<1>2. UNCHANGED file => File!Overdue' = File!Overdue
    BY DEF File!Overdue
<1> QED
    BY <1>1, <1>2 DEF MemoryIs, Expired, File!Expired

(* What callers know when they have been told that leases have expired.    *)
LEMMA KnownShape ==
    ASSUME FileInv, lapsed \subseteq File!Overdue
    PROVE  /\ DOMAIN KnownAssignments = DOMAIN file.assignments
           /\ \A i \in DOMAIN file.assignments :
                 /\ file.assignments[i] \in File!Assignment
                 /\ KnownAssignments[i] = IF i \in lapsed
                                          THEN [file.assignments[i] EXCEPT !.status = "expired"]
                                          ELSE file.assignments[i]
           /\ Known!Overdue = File!Overdue \ lapsed
           /\ Known!Expired = File!Expired
<1>1. /\ DOMAIN KnownAssignments = DOMAIN file.assignments
      /\ \A i \in DOMAIN file.assignments :
            /\ file.assignments[i] \in File!Assignment
            /\ KnownAssignments[i] = IF i \in lapsed
                                     THEN [file.assignments[i] EXCEPT !.status = "expired"]
                                     ELSE file.assignments[i]
    BY DEF KnownAssignments, FileInv, File!StoreTypeOK
<1>2. \A i \in DOMAIN file.assignments :
          i \in Known!Overdue <=> i \in File!Overdue /\ i \notin lapsed
    BY <1>1 DEF Known!Overdue, File!Overdue, File!Assignment
<1>3. Known!Overdue = File!Overdue \ lapsed
    BY <1>1, <1>2 DEF Known!Overdue, File!Overdue
<1>4. \A i \in DOMAIN file.assignments : Known!Expired[i] = File!Expired[i]
    BY <1>1, <1>3 DEF Known!Expired, File!Expired
<1>5. DOMAIN Known!Expired = DOMAIN File!Expired /\ DOMAIN File!Expired = DOMAIN file.assignments
    BY <1>1 DEF Known!Expired, File!Expired
<1>6. Known!Expired = File!Expired
    BY <1>4, <1>5 DEF Known!Expired, File!Expired
<1> QED
    BY <1>1, <1>3, <1>6

(* Leases that callers see expired without a save lapse.                   *)
LEMMA UnsavedExpiryKnown ==
    ASSUME FileInv, MemoryIsKnown, lapsed \subseteq File!Overdue, UnsavedExpiry
    PROVE  /\ KnownAssignments' = Known!Expired
           /\ MemoryIsKnown'
           /\ lapsed' \subseteq File!Overdue'
<1>1. UNCHANGED file /\ assignments' = Expired /\ UNCHANGED <<jobs, models, workers, tasks>>
    BY DEF UnsavedExpiry, ExpireAssignments
<1>2. Overdue = Known!Overdue /\ Expired = Known!Expired
    <2>1. Overdue = Known!Overdue
        BY DEF MemoryIsKnown, Overdue, Known!Overdue
    <2> QED
        BY <2>1 DEF MemoryIsKnown, Expired, Known!Expired
<1>3. lapsed' = File!Overdue /\ File!Overdue \subseteq DOMAIN file.assignments
    BY <1>2, KnownShape DEF UnsavedExpiry, File!Overdue
<1>4. KnownAssignments' = File!Expired
    BY <1>1, <1>3 DEF KnownAssignments, File!Expired
<1>5. KnownAssignments' = Known!Expired
    BY <1>4, KnownShape
<1>6. MemoryIsKnown'
    BY <1>1, <1>2, <1>5 DEF MemoryIsKnown
<1> QED
    BY <1>1, <1>3, <1>5, <1>6, FileLookups

(* A lease runs out in memory, in the file and for callers alike.          *)
LEMMA TimePassesKnown ==
    ASSUME FileInv, MemoryIsKnown \/ MemoryIs(file), lapsed \subseteq File!Overdue,
           NEW i \in DOMAIN assignments, TimePasses(i)
    PROVE  /\ i \in DOMAIN KnownAssignments
           /\ Known!LeaseRunsOut(i)
           /\ MemoryIsKnown => MemoryIsKnown'
           /\ MemoryIs(file) => MemoryIs(file)'
           /\ lapsed' \subseteq File!Overdue'
<1> DEFINE old == file.assignments
<1>1. /\ LeaseRunsOut(i)
      /\ Live(assignments[i])
      /\ assignments' = [assignments EXCEPT ![i].due = TRUE]
      /\ UNCHANGED <<jobs, models, workers, tasks, lapsed>>
    BY Zenon DEF TimePasses, LeaseRunsOut
<1>2. /\ DOMAIN file'.assignments = DOMAIN old
      /\ \A k \in DOMAIN old :
            file'.assignments[k] = IF k = i THEN [old[k] EXCEPT !.due = TRUE] ELSE old[k]
      /\ file'.assignments = [k \in DOMAIN old |->
                                IF k = i THEN [old[k] EXCEPT !.due = TRUE] ELSE old[k]]
      /\ file'.jobs = file.jobs /\ file'.models = file.models
      /\ file'.workers = file.workers /\ file'.tasks = file.tasks
    BY DEF TimePasses, FileInv, Empty
<1>3. DOMAIN assignments = DOMAIN old /\ i \in DOMAIN old
    BY KnownShape DEF MemoryIsKnown, MemoryIs
<1>4. /\ i \notin lapsed
      /\ assignments[i] = old[i] /\ KnownAssignments[i] = old[i]
      /\ old[i] \in File!Assignment
    <2>1. CASE MemoryIs(file)
        BY <1>1, <1>3, <2>1, KnownShape DEF MemoryIs, Live, File!Overdue
    <2>2. CASE MemoryIsKnown
        BY <1>1, <1>3, <2>2, KnownShape DEF MemoryIsKnown, Live, File!Overdue, File!Assignment
    <2> QED
        BY <2>1, <2>2
(* The leases callers know to have expired are no longer live, nor in      *)
(* memory when that is the file.                                           *)
<1>5. \A k \in DOMAIN old :
          /\ KnownAssignments[k].due = assignments[k].due
          /\ KnownAssignments[k].job = assignments[k].job
          /\ Live(KnownAssignments[k]) <=> Live(assignments[k])
    <2>1. CASE MemoryIs(file)
        BY <1>3, <2>1, KnownShape DEF MemoryIs, Live, File!Overdue, File!Assignment
    <2>2. CASE MemoryIsKnown
        BY <2>2, Zenon DEF MemoryIsKnown
    <2> QED
        BY <2>1, <2>2
<1>6. KnownAssignments' = [KnownAssignments EXCEPT ![i].due = TRUE]
    <2>1. KnownAssignments' = [k \in DOMAIN old |->
                                  IF k \in lapsed
                                  THEN [file'.assignments[k] EXCEPT !.status = "expired"]
                                  ELSE file'.assignments[k]]
        BY <1>1, <1>2 DEF KnownAssignments
    <2>2. \A k \in DOMAIN old :
              KnownAssignments'[k] = IF k = i THEN [KnownAssignments[k] EXCEPT !.due = TRUE]
                                     ELSE KnownAssignments[k]
        BY <1>2, <1>4, <2>1, KnownShape
    <2>3. DOMAIN KnownAssignments' = DOMAIN old
        BY <2>1
    <2>4. KnownAssignments' = [k \in DOMAIN old |-> KnownAssignments'[k]]
        BY <2>1
    <2> QED
        BY <2>2, <2>4, KnownShape
<1>7. Known!LeaseRunsOut(i)
    <2>1. {k \in DOMAIN KnownAssignments : KnownAssignments[k].due}
              = {k \in DOMAIN assignments : assignments[k].due}
        BY <1>3, <1>5, KnownShape
    <2>2. Known!Live(KnownAssignments[i])
        BY <1>1, <1>4 DEF Known!Live, Live
    <2>3. \A k \in DOMAIN KnownAssignments :
              k < i /\ KnownAssignments[k].job = KnownAssignments[i].job
              => ~Known!Live(KnownAssignments[k])
        BY <1>1, <1>3, <1>5, KnownShape DEF LeaseRunsOut, Known!Live, Live
    <2>4. Cardinality({k \in DOMAIN assignments : assignments[k].due}) < MaxDue
        BY <1>1, Zenon DEF LeaseRunsOut
    <2> QED
        BY <1>2, <1>3, <1>6, <2>1, <2>2, <2>3, <2>4, KnownShape, KnownCardinality, Zenon
           DEF Known!LeaseRunsOut
<1>8. MemoryIsKnown => MemoryIsKnown'
    BY <1>1, <1>2, <1>6 DEF MemoryIsKnown
<1>9. MemoryIs(file) => MemoryIs(file)'
    <2> SUFFICES ASSUME MemoryIs(file)
                 PROVE  MemoryIs(file)'
        OBVIOUS
    <2>1. assignments = old
        BY DEF MemoryIs
    <2>2. assignments' = file'.assignments
        BY <1>1, <1>2, <2>1
    <2> QED
        BY <1>1, <1>2, <2>2 DEF MemoryIs
<1>10. lapsed' \subseteq File!Overdue'
    BY <1>1, <1>2, <1>4 DEF File!Overdue
<1> QED
    BY <1>3, <1>7, <1>8, <1>9, <1>10, KnownShape

LEMMA SavingStates ==
    /\ NotSaving # Down
    /\ NotSaving.at = "ready" /\ Down.at = "down"
    /\ \A by : /\ Saving(by) # NotSaving /\ Saving(by) # Down
               /\ Saving(by).at = "saving" /\ Saving(by).by = by
    /\ \A a, b : Saving(a) = Saving(b) => a = b
BY DEF NotSaving, Down, Saving

LEMMA PendingUnchanged ==
    ASSUME Pending, UNCHANGED <<storeVars, file, lapsed>>
    PROVE  Pending'
<1>1. /\ file'.jobs = file.jobs /\ KnownAssignments' = KnownAssignments
      /\ file'.models = file.models /\ file'.workers = file.workers
      /\ file'.tasks = file.tasks
      /\ UNCHANGED <<jobs, assignments, models, workers, tasks>>
    BY KnownUnchanged DEF storeVars
<1>2. MemoryIsKnown' = MemoryIsKnown
    BY <1>1 DEF MemoryIsKnown
<1>3. \A c, a : ReusedPending(c, a) => ReusedPending(c, a)'
    BY <1>1, KnownUnchanged, Zenon DEF ReusedPending
<1>4. \A c : RefusedPending(c) => RefusedPending(c)'
    BY <1>1, KnownUnchanged, Zenon DEF RefusedPending
<1>5. \A c, v : IssuedPending(c, v) => IssuedPending(c, v)'
    BY <1>1, KnownUnchanged, Zenon DEF IssuedPending
<1>6. \A req : AcceptedPending(req) => AcceptedPending(req)'
    BY <1>1, KnownUnchanged DEF AcceptedPending
<1>7. \A r : AggregatedPending(r) => AggregatedPending(r)'
    BY <1>1, Zenon DEF AggregatedPending
<1>8. \A r, v : AdvancedPending(r, v) => AdvancedPending(r, v)'
    BY <1>1, KnownUnchanged DEF AdvancedPending, Known!ClosedAssignmentStatus,
       Known!ClosedTaskStatus
<1>9. \A spec : CreatedPending(spec) => CreatedPending(spec)'
    BY <1>1, KnownUnchanged, Zenon DEF CreatedPending
<1>10. \A v : RolledBackPending(v) => RolledBackPending(v)'
    BY <1>1, Zenon DEF RolledBackPending
<1>11. \A w : UpsertedPending(w) => UpsertedPending(w)'
    BY <1>1, Zenon DEF UpsertedPending
<1>12. \A w, a : TaskLeasedPending(w, a) => TaskLeasedPending(w, a)'
    BY <1>1, KnownUnchanged DEF TaskLeasedPending
<1>13. \A w, t, s : TaskReportedPending(w, t, s) => TaskReportedPending(w, t, s)'
    <2>1. \A w, done : Known!Idle(w, done)' = Known!Idle(w, done)
        BY KnownUnchanged
    <2> QED
        BY <1>1, <2>1, Zenon DEF TaskReportedPending
<1>14. \A w, t : HeartbeatPending(w, t) => HeartbeatPending(w, t)'
    BY <1>1, Zenon DEF HeartbeatPending
<1> QED
    BY <1>1, <1>2, <1>3, <1>4, <1>5, <1>6, <1>7, <1>8, <1>9, <1>10, <1>11, <1>12, <1>13,
       <1>14, KnownUnchanged, Zenon DEF Pending

(* Until a save fails, each step keeps memory, file and what callers know  *)
(* in that relation, and is an operation of the store, or none, for them.  *)
LEMMA RelatedStep ==
    ASSUME PersistentInv, Related,
           saving \in {NotSaving, Down} \union {Saving(by) : by \in Savers},
           ~SaveFails, [PersistentNext]_vars
    PROVE  /\ Related'
           /\ Known!StoreNext \/ UNCHANGED <<file, lapsed>>
<1>0. FileInv
    BY DEF PersistentInv
<1>1. CASE UNCHANGED vars
    <2>1. UNCHANGED <<storeVars, jobs, assignments, models, workers, tasks, file, saving, lapsed>>
        BY <1>1 DEF vars, diskVars, storeVars
    <2>2. MemoryIsKnown => MemoryIsKnown'
        BY <2>1, KnownUnchanged, Zenon DEF MemoryIsKnown
    <2>3. Pending => Pending'
        BY <2>1, PendingUnchanged
    <2>4. File!Overdue' = File!Overdue /\ File!Expired' = File!Expired
        BY <2>1, FileLookups
    <2> QED
        BY <2>1, <2>2, <2>3, <2>4, Zenon DEF Related, MemoryIs
<1>2. CASE SavingOperation
    <2>1. MemoryIsKnown /\ UNCHANGED <<file, lapsed>>
        BY <1>2 DEF SavingOperation, Related
    <2>2. Pending' /\ saving' \in {Saving("callback"), Saving("service")}
        BY <1>2, <2>1, OperationPends DEF SavingOperation
    <2>3. lapsed' \subseteq File!Overdue'
        BY <2>1, FileLookups DEF Related
    <2> QED
        BY <2>1, <2>2, <2>3, SavingStates DEF Related
<1>3. CASE UnsavedExpiry
    <2>1. MemoryIsKnown /\ saving' = NotSaving /\ lapsed \subseteq File!Overdue
        BY <1>3 DEF UnsavedExpiry, Related
    <2>2. /\ KnownAssignments' = Known!Expired
          /\ MemoryIsKnown'
          /\ lapsed' \subseteq File!Overdue'
        BY <1>0, <1>3, <2>1, UnsavedExpiryKnown
    <2>3. UNCHANGED <<file.jobs, file.models, file.workers, file.tasks>>
        BY <1>3 DEF UnsavedExpiry
    <2>4. Known!StoreNext
        BY <2>2, <2>3 DEF Known!StoreNext, Known!ExpireAssignments
    <2> QED
        BY <2>1, <2>2, <2>4, SavingStates DEF Related
<1>4. ASSUME NEW i \in DOMAIN assignments, TimePasses(i)
      PROVE  /\ Related'
             /\ Known!StoreNext
    <2>1. /\ saving \in {NotSaving, Down} /\ saving' = saving
          /\ lapsed \subseteq File!Overdue
          /\ saving = NotSaving => MemoryIsKnown
          /\ saving = Down => MemoryIs(file)
        BY <1>4 DEF TimePasses, Related
    <2>2. /\ i \in DOMAIN KnownAssignments
          /\ Known!LeaseRunsOut(i)
          /\ MemoryIsKnown => MemoryIsKnown'
          /\ MemoryIs(file) => MemoryIs(file)'
          /\ lapsed' \subseteq File!Overdue'
        BY <1>0, <1>4, <2>1, TimePassesKnown
    <2>3. Known!StoreNext
        BY <2>2 DEF Known!StoreNext
    <2> QED
        BY <2>1, <2>2, <2>3, SavingStates DEF Related
<1>5. CASE Rename
    <2>1. /\ file' = Memory /\ lapsed' = {} /\ saving' = NotSaving
          /\ UNCHANGED <<jobs, assignments, models, workers, tasks>>
        BY <1>5 DEF Rename, storeVars
    <2>2. /\ file'.jobs = jobs /\ file'.assignments = assignments
          /\ file'.models = models /\ file'.workers = workers /\ file'.tasks = tasks
        BY <2>1 DEF Memory
    <2>3. KnownAssignments' = assignments
        <3>1. KnownAssignments' = [i \in DOMAIN assignments |-> assignments[i]]
            BY <2>1, <2>2 DEF KnownAssignments
        <3>2. assignments = [i \in DOMAIN assignments |-> assignments[i]]
            BY CoreTypes, SMT DEF PersistentInv, MemoryInv, StoreTypeOK, CoreInv
        <3> QED
            BY <3>1, <3>2
    <2>4. ASSUME saving \in {Saving("load"), Saving("reset")}
          PROVE  Known!StoreNext
        <3>1. MemoryIs([file EXCEPT !.assignments = File!Expired])
            BY <2>4 DEF Related
        <3>2. /\ jobs = file.jobs /\ models = file.models
              /\ workers = file.workers /\ tasks = file.tasks
              /\ assignments = File!Expired
            BY <1>0, <3>1 DEF MemoryIs, FileInv, Empty
        <3>3. Known!ExpireAssignments
            BY <1>0, <2>2, <2>3, <3>2, KnownShape DEF Related, Known!ExpireAssignments
        <3> QED
            BY <3>3 DEF Known!StoreNext
    <2>5. ASSUME saving \in {Saving("callback"), Saving("service")}
          PROVE  Known!StoreNext
        BY <2>2, <2>3, <2>5, PendingIsOperation DEF Related
    <2>6. Known!StoreNext
        BY <1>5, <2>4, <2>5, SavingStates DEF Rename, Savers
    <2>7. MemoryIsKnown'
        BY <2>1, <2>2, <2>3 DEF MemoryIsKnown
    <2> QED
        BY <2>1, <2>6, <2>7, SavingStates DEF Related
<1>6. CASE Crash
    <2>1. UNCHANGED <<file, lapsed>> /\ saving' = Down /\ MemoryIs(file)'
        BY <1>6 DEF Crash, ServerDies, MemoryBecomes, MemoryIs
    <2>2. lapsed' \subseteq File!Overdue'
        BY <2>1, FileLookups DEF Related
    <2> QED
        BY <2>1, <2>2, SavingStates DEF Related
<1>7. CASE Load
    <2>1. /\ UNCHANGED <<file, lapsed, jobs, models, workers, tasks>>
          /\ assignments' = Expired
          /\ saving = Down /\ saving' \in {Saving("load"), Saving("reset")}
        BY <1>7 DEF Load, Reload, ExpireAssignments
    <2>2. MemoryIs(file)
        BY <2>1 DEF Related
    <2>3. assignments' = File!Expired'
        BY <2>1, <2>2, FileLookups
    <2>4. MemoryIs([file EXCEPT !.assignments = File!Expired])'
        BY <1>0, <2>1, <2>2, <2>3 DEF MemoryIs, FileInv, Empty
    <2>5. lapsed' \subseteq File!Overdue'
        BY <2>1, FileLookups DEF Related
    <2> QED
        BY <2>1, <2>4, <2>5, SavingStates DEF Related
<1> QED
    BY <1>1, <1>2, <1>3, <1>4, <1>5, <1>6, <1>7 DEF PersistentNext

LEMMA RefinementStep ==
    ASSUME PersistentInv, RefinementInv, [PersistentNext]_vars
    PROVE  /\ RefinementInv'
           /\ [faults' = 0 => Known!StoreNext]_<<file, lapsed>>
<1>1. faults' \in Nat /\ (faults' = 0 => faults = 0 /\ ~SaveFails)
    BY DEF RefinementInv, PersistentNext, SavingOperation, UnsavedExpiry, TimePasses, Rename,
       SaveFails, Crash, Load, vars, diskVars
<1>2. saving' \in {NotSaving, Down} \union {Saving(by) : by \in Savers}
    BY DEF RefinementInv, PersistentNext, SavingOperation, UnsavedExpiry, TimePasses, Rename,
       SaveFails, OperationFails, LoadResets, ServerDies, Crash, Load, vars, diskVars, Savers
<1>3. faults' = 0 => Related' /\ (Known!StoreNext \/ UNCHANGED <<file, lapsed>>)
    BY <1>1, RelatedStep DEF RefinementInv
<1> QED
    BY <1>1, <1>2, <1>3 DEF RefinementInv

LEMMA RefinementStart ==
    ASSUME PersistentInit
    PROVE  RefinementInv /\ Known!StoreInit
<1>1. /\ file = Empty /\ saving = Down /\ faults = 0 /\ lapsed = {}
      /\ MemoryIs(file)
    BY DEF PersistentInit, StoreInit, MemoryIs, Empty
<1>2. RefinementInv
    BY <1>1, SavingStates DEF RefinementInv, Related
<1>3. Known!StoreInit
    BY <1>1 DEF Known!StoreInit, KnownAssignments, Empty
<1> QED
    BY <1>2, <1>3

(* As long as no save fails, the store with its file, its unsaved expiries *)
(* and crashes anywhere is an atomic store to its callers: an operation    *)
(* happens when its save renames the file, or not at all.                  *)
THEOREM ImplementsStoreHolds == PersistentSpec => ImplementsStore
<1>1. PersistentInit => RefinementInv /\ Known!StoreInit
    BY RefinementStart
<1>2. PersistentInv /\ RefinementInv /\ [PersistentNext]_vars
      => /\ RefinementInv'
         /\ [faults' = 0 => Known!StoreNext]_<<file, lapsed>>
    BY RefinementStep
<1> QED
    BY <1>1, <1>2, PersistentInvariant, PTL DEF PersistentSpec, ImplementsStore

=============================================================================
