--------------------------- MODULE PersistentStore ----------------------------
(***************************************************************************)
(* The state store and its file (StateStore::Load and SaveLocked in        *)
(* server/state_store.cpp).  An operation changes memory under the mutex   *)
(* and, still holding it, writes the whole state to a temporary file that  *)
(* it renames over state.json; the server may die at any point, and the    *)
(* write or the rename may fail.                                           *)
(*                                                                         *)
(* The variables of StateStore are the server's memory; while the server   *)
(* is down they hold what it will read.  A missing file reads as the empty *)
(* state.  The leases' `due' bits are facts about the clock, so they       *)
(* change in memory and in the file at once.                               *)
(***************************************************************************)
EXTENDS StateStore

CONSTANTS
    MaxCrashes,  \* bound on crashes
    MaxFaults    \* bound on failing saves

ASSUME PersistentAssumption == MaxCrashes \in Nat /\ MaxFaults \in Nat

VARIABLES
    file,     \* what state.json holds
    saving,   \* who holds the mutex for a save, and how far it is
    dirty,    \* whether the last save failed and the server lives on
    crashes,  \* number of crashes
    faults,   \* number of saves that failed
    lapsed    \* history: leases in the file that callers have seen expired

diskVars == <<file, saving, dirty, crashes, faults, lapsed>>
vars == <<storeVars, diskVars>>

Memory == [jobs |-> jobs, assignments |-> assignments, models |-> models,
           workers |-> workers, tasks |-> tasks]
Empty == [jobs |-> <<>>, assignments |-> <<>>, models |-> <<>>,
          workers |-> [w \in Workers |-> [status |-> "unregistered", task |-> 0]],
          tasks |-> <<>>]
MemoryBecomes(s) ==
    /\ jobs' = s.jobs
    /\ assignments' = s.assignments
    /\ models' = s.models
    /\ workers' = s.workers
    /\ tasks' = s.tasks

(* load: start-up; reset: start-up without a file or after an error;       *)
(* callback and service: an operation on a completion-queue or a           *)
(* synchronous service thread.                                             *)
Savers == {"load", "reset", "callback", "service"}
NotSaving == [by |-> "none", at |-> "ready"]
Down == [by |-> "none", at |-> "down"]
Saving(by) == [by |-> by, at |-> "saving"]

-----------------------------------------------------------------------------
(* Operations of a server that is up *)

SavingOperation ==
    /\ saving = NotSaving
    /\ \/ CallbackOperation /\ saving' = Saving("callback")
       \/ ServiceOperation /\ saving' = Saving("service")
    /\ UNCHANGED <<file, dirty, crashes, faults, lapsed>>

(* Operations that only expire leases do not save. *)
UnsavedExpiry ==
    /\ saving = NotSaving
    /\ lapsed' = lapsed \union (Overdue \intersect DOMAIN file.assignments)
    /\ ExpireAssignments
    /\ UNCHANGED <<file, saving, dirty, crashes, faults>>

(* A save does not look at the clock, so a lease that runs out during one  *)
(* may as well run out before or after it.                                 *)
TimePasses(i) ==
    /\ saving \in {NotSaving, Down}
    /\ LeaseRunsOut(i)
    /\ file' = [file EXCEPT !.assignments =
           [k \in DOMAIN @ |-> IF k = i THEN [@[k] EXCEPT !.due = TRUE] ELSE @[k]]]
    /\ UNCHANGED <<saving, dirty, crashes, faults, lapsed>>

-----------------------------------------------------------------------------
(* SaveLocked.  Nobody reads the temporary file, so a save shows only when *)
(* it is renamed, or when it fails.                                        *)

(* The operation returns, and its caller is answered. *)
Rename ==
    /\ saving.at = "saving"
    /\ file' = Memory
    /\ lapsed' = {}
    /\ saving' = NotSaving
    /\ dirty' = FALSE
    /\ UNCHANGED <<storeVars, crashes, faults>>

(* Mutant: a failed write is not noticed. *)
OperationFailsUnnoticed ==
    /\ saving' = NotSaving
    /\ UNCHANGED <<storeVars, file, dirty, lapsed>>
(* A synchronous handler's caller gets an error, memory stays as it is. *)
OperationFails ==
    /\ saving' = NotSaving
    /\ dirty' = TRUE
    /\ UNCHANGED <<storeVars, file, lapsed>>

ServerDies ==
    /\ saving' = Down
    /\ dirty' = FALSE
    /\ MemoryBecomes(file)
    /\ UNCHANGED <<file, lapsed>>

(* Load takes a failing save for an unreadable file: it saves an empty one.*)
LoadResets ==
    /\ saving' = Saving("reset")
    /\ MemoryBecomes(Empty)
    /\ UNCHANGED <<file, dirty, lapsed>>

(* SaveLocked throws.  Nobody catches it on a completion-queue thread, nor *)
(* when the empty state cannot be saved either.                            *)
SaveFails ==
    /\ saving.at = "saving"
    /\ faults < MaxFaults
    /\ faults' = faults + 1
    /\ CASE saving.by = "service" -> OperationFails
         [] saving.by = "load"    -> LoadResets
         [] OTHER                 -> ServerDies
    /\ UNCHANGED crashes

-----------------------------------------------------------------------------
(* Crash and start-up *)

(* Mutant: the file is written in place, so a crash may leave some arrays  *)
(* of the new state next to old ones.                                      *)
CrashTearsFile ==
    /\ saving # Down
    /\ crashes < MaxCrashes
    /\ crashes' = crashes + 1
    /\ file' = IF saving.at = "saving" THEN [Memory EXCEPT !.tasks = file.tasks] ELSE file
    /\ saving' = Down
    /\ dirty' = FALSE
    /\ MemoryBecomes(file')
    /\ UNCHANGED <<faults, lapsed>>
Crash ==
    /\ saving # Down
    /\ crashes < MaxCrashes
    /\ crashes' = crashes + 1
    /\ ServerDies
    /\ UNCHANGED faults

(* Mutant: leases that ran out are taken as the file has them. *)
LoadUnexpired ==
    /\ saving = Down
    /\ saving' \in {Saving(by) : by \in {"load"} \union (IF file = Empty THEN {"reset"} ELSE {})}
    /\ UNCHANGED <<storeVars, file, dirty, crashes, faults, lapsed>>
Load ==
    /\ saving = Down
    /\ saving' \in {Saving(by) : by \in {"load"} \union (IF file = Empty THEN {"reset"} ELSE {})}
    /\ Reload
    /\ UNCHANGED <<file, dirty, crashes, faults, lapsed>>

-----------------------------------------------------------------------------
PersistentInit ==
    /\ StoreInit
    /\ file = Empty
    /\ saving = Down
    /\ dirty = FALSE
    /\ crashes = 0
    /\ faults = 0
    /\ lapsed = {}

PersistentNext ==
    \/ SavingOperation
    \/ UnsavedExpiry
    \/ \E i \in DOMAIN assignments : TimePasses(i)
    \/ Rename
    \/ SaveFails
    \/ Crash
    \/ Load

PersistentSpec == PersistentInit /\ [][PersistentNext]_vars

-----------------------------------------------------------------------------
(* Properties *)

(* The store as its callers know it: what is in the file, but for leases   *)
(* they have been told have expired.                                       *)
KnownAssignments ==
    [i \in DOMAIN file.assignments |->
        IF i \in lapsed THEN [file.assignments[i] EXCEPT !.status = "expired"]
        ELSE file.assignments[i]]
Known == INSTANCE StateStore WITH
    jobs <- file.jobs, assignments <- KnownAssignments, models <- file.models,
    workers <- file.workers, tasks <- file.tasks

(* As long as no save fails, the store with its file, its unsaved expiries *)
(* and crashes anywhere is an atomic store: each step of what callers know *)
(* is one operation of module StateStore or none, and a restart is no more *)
(* than the expiry of leases.                                              *)
ImplementsStore ==
    /\ Known!StoreInit
    /\ [][faults' = 0 => Known!StoreNext]_<<file, lapsed>>

(* Whatever fails, state.json is one state of the store, never a mixture   *)
(* of two: it could be loaded at any moment, and everything in it refers   *)
(* to things in it.                                                        *)
FileConsistent ==
    /\ Known!StoreTypeOK
    /\ Known!OnlyNewestJobActive
    /\ Known!OneActiveModel
    /\ Known!LeaseExclusive

(* When no save is under way and the last one did not fail, restarting the *)
(* server now would change nothing but the leases that have run out: what  *)
(* callers have been told survives.                                        *)
Loaded(s) == [s EXCEPT !.assignments =
                 [i \in DOMAIN @ |-> IF @[i].status = "leased" /\ @[i].due
                                     THEN [@[i] EXCEPT !.status = "expired"] ELSE @[i]]]
AnsweredIsDurable ==
    saving = NotSaving /\ ~dirty => Loaded(file) = Loaded(Memory)

=============================================================================
