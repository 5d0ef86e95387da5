------------------------------ MODULE KeyRotation ------------------------------
(***************************************************************************)
(* The versioned at-rest keys of server/crypto_engine.cpp: their files,    *)
(* the registry file that names them, rotation by administrators and what  *)
(* a server finds when it starts again after its process died at any       *)
(* point.  Every engine operation holds the engine's mutex; `at' is where  *)
(* the one that writes files is.                                           *)
(*                                                                         *)
(* Key bytes are written through an ofstream that is still open when the   *)
(* registry is saved: they reach the file when the operation returns.      *)
(***************************************************************************)
EXTENDS Naturals, FiniteSets

CONSTANTS
    Admins,      \* administrators that rotate keys
    MaxVersion,  \* bound on key versions
    MaxCrashes   \* bound on process crashes

ASSUME KeyAssumption == MaxVersion \in Nat \ {0} /\ MaxCrashes \in Nat

VARIABLES
    server,        \* "down", "up" or, when start-up threw, "failed"
    at,            \* "idle", "keys", "registry", "saved": of a key write
    keys,          \* key_versions_, 0 when the version is not loaded
    active,        \* active_key_version_
    baseFile,      \* the file key_path_
    keyFile,       \* the files VersionedKeyPath(version)
    registryFile,  \* key_registry_path_
    blobs,         \* encrypted checkpoints: their header's version, their key
    written,       \* the version of a checkpoint not yet recorded, 0 if none
    recorded,      \* per recorded model: its checkpoint's version, and the
                   \* key_version the state store has for it
    rotation,      \* per administrator: the version its rotation returned
    storedVersion, \* active_key_version_ of the state store
    generated,     \* number of keys generated; a key is named by its number
    crashes        \* number of process crashes

memory == <<keys, active>>
disk == <<baseFile, keyFile, registryFile>>
models == <<blobs, written, recorded>>
vars == <<server, at, memory, disk, models, rotation, storedVersion, generated, crashes>>

Versions == 1 .. MaxVersion
File == [exists : BOOLEAN, key : Nat]
NoFile == [exists |-> FALSE, key |-> 0]
EmptyFile == [exists |-> TRUE, key |-> 0]
KeyIn(k) == [exists |-> TRUE, key |-> k]

(* active = 0: the file has been truncated and does not parse. *)
NoRegistry == [exists |-> FALSE, active |-> 0, versions |-> {}]
TruncatedRegistry == [exists |-> TRUE, active |-> 0, versions |-> {}]

NoKeys == [v \in Versions |-> 0]
(* Mutant: only the active key is kept. *)
LoadedActiveOnly == {active}
Loaded == {v \in Versions : keys[v] # 0}

-----------------------------------------------------------------------------
(* LoadOrGenerateKey *)

RegistryLoads ==
    /\ registryFile.active \in registryFile.versions
    /\ \A v \in registryFile.versions : keyFile[v].key # 0

(* main then brings the state store's version up to date. *)
LoadKeys ==
    /\ server = "down" /\ registryFile.exists /\ RegistryLoads
    /\ server' = "up"
    /\ keys' = [v \in Versions |-> IF v \in registryFile.versions
                                   THEN keyFile[v].key ELSE 0]
    /\ active' = registryFile.active
    /\ storedVersion' = registryFile.active
    /\ UNCHANGED <<at, disk, models, rotation, generated, crashes>>

(* A key or the registry cannot be read: the constructor throws. *)
StartFails ==
    /\ server = "down"
    /\ IF registryFile.exists THEN ~RegistryLoads
       ELSE baseFile.exists /\ baseFile.key = 0
    /\ server' = "failed"
    /\ UNCHANGED <<at, memory, disk, models, rotation, storedVersion, generated, crashes>>

(* A key file from before versioning becomes version 1. *)
AdoptBaseKey ==
    /\ server = "down" /\ ~registryFile.exists /\ baseFile.key # 0
    /\ server' = "starting" /\ at' = "keys"
    /\ keys' = [NoKeys EXCEPT ![1] = baseFile.key]
    /\ active' = 1
    /\ keyFile' = [keyFile EXCEPT ![1] = baseFile]
    /\ UNCHANGED <<baseFile, registryFile, models, rotation, storedVersion, generated, crashes>>

GenerateFirstKey ==
    /\ server = "down" /\ ~registryFile.exists /\ ~baseFile.exists
    /\ server' = "starting" /\ at' = "keys"
    /\ generated' = generated + 1
    /\ keys' = [NoKeys EXCEPT ![1] = generated + 1]
    /\ active' = 1
    /\ baseFile' = EmptyFile
    /\ keyFile' = [keyFile EXCEPT ![1] = EmptyFile]
    /\ UNCHANGED <<registryFile, models, rotation, storedVersion, crashes>>

-----------------------------------------------------------------------------
(* RotateMasterKey, called by an administrator's RotateAtRestKey *)

RotateMasterKey(m) ==
    /\ server = "up" /\ at = "idle"
    /\ rotation[m] = 0
    /\ active < MaxVersion
    /\ at' = "keys"
    /\ generated' = generated + 1
    /\ keys' = [keys EXCEPT ![active + 1] = generated + 1]
    /\ active' = active + 1
    /\ keyFile' = [keyFile EXCEPT ![active + 1] = EmptyFile]
    /\ rotation' = [rotation EXCEPT ![m] = active + 1]
    /\ UNCHANGED <<server, baseFile, registryFile, models, storedVersion, crashes>>

(* SaveKeyRegistry opens the registry, which truncates it, ... *)
TruncateRegistry ==
    /\ at = "keys"
    /\ at' = "registry"
    /\ registryFile' = TruncatedRegistry
    /\ UNCHANGED <<server, memory, baseFile, keyFile, models, rotation, storedVersion,
                   generated, crashes>>

(* ... and its content is there when it is closed. *)
SaveKeyRegistry ==
    /\ at = "registry"
    /\ at' = "saved"
    /\ registryFile' = [exists |-> TRUE, active |-> active, versions |-> Loaded]
    /\ UNCHANGED <<server, memory, baseFile, keyFile, models, rotation, storedVersion,
                   generated, crashes>>

(* Mutant: the first key is written to the base file alone. *)
FlushKeysBaseOnly ==
    /\ at = "saved"
    /\ at' = "idle"
    /\ IF server = "starting"
       THEN baseFile' = KeyIn(keys[active]) /\ storedVersion' = active /\ UNCHANGED keyFile
       ELSE /\ keyFile' = [keyFile EXCEPT ![active] = KeyIn(keys[active])]
            /\ UNCHANGED <<baseFile, storedVersion>>
    /\ server' = "up"
    /\ UNCHANGED <<memory, registryFile, models, rotation, generated, crashes>>
(* The operation returns: its key files are closed, the mutex released. *)
FlushKeys ==
    /\ at = "saved"
    /\ at' = "idle"
    /\ keyFile' = [keyFile EXCEPT ![active] = KeyIn(keys[active])]
    /\ baseFile' = IF server = "starting" THEN KeyIn(keys[active]) ELSE baseFile
    /\ server' = "up"
    /\ storedVersion' = IF server = "starting" THEN active ELSE storedVersion
    /\ UNCHANGED <<memory, registryFile, models, rotation, generated, crashes>>

(* Mutant: the store is only told when the server starts. *)
UpdateActiveKeyVersionSkipped(m) ==
    /\ server = "up"
    /\ rotation[m] # 0
    /\ rotation[m] = active => at = "idle"
    /\ rotation' = [rotation EXCEPT ![m] = 0]
    /\ UNCHANGED <<server, at, memory, disk, models, storedVersion, generated, crashes>>
(* After RotateMasterKey has returned; another one may be in progress. *)
UpdateActiveKeyVersion(m) ==
    /\ server = "up"
    /\ rotation[m] # 0
    /\ rotation[m] = active => at = "idle"
    /\ storedVersion' = rotation[m]
    /\ rotation' = [rotation EXCEPT ![m] = 0]
    /\ UNCHANGED <<server, at, memory, disk, models, generated, crashes>>

-----------------------------------------------------------------------------
(* The buffer holds its mutex from the encryption of a checkpoint until the*)
(* model is recorded; the engine is asked twice.                           *)

EncryptBlob ==
    /\ server = "up" /\ at = "idle" /\ written = 0
    /\ blobs' = blobs \union {[version |-> active, key |-> keys[active]]}
    /\ written' = active
    /\ UNCHANGED <<server, at, memory, disk, recorded, rotation, storedVersion,
                   generated, crashes>>

CheckpointFails ==
    /\ server = "up" /\ written # 0
    /\ written' = 0
    /\ UNCHANGED <<server, at, memory, disk, blobs, recorded, rotation, storedVersion,
                   generated, crashes>>

(* Mutant: GetActiveKeyVersion does not take the engine's mutex. *)
RecordAggregatedModelUnlocked ==
    /\ server = "up" /\ written # 0
    /\ recorded' = recorded \union {[blob |-> written, key |-> active]}
    /\ written' = 0
    /\ UNCHANGED <<server, at, memory, disk, blobs, rotation, storedVersion, generated, crashes>>
RecordAggregatedModel ==
    /\ server = "up" /\ at = "idle" /\ written # 0
    /\ recorded' = recorded \union {[blob |-> written, key |-> active]}
    /\ written' = 0
    /\ UNCHANGED <<server, at, memory, disk, blobs, rotation, storedVersion, generated, crashes>>

(* The process dies; what was not flushed is lost. *)
Crash ==
    /\ crashes < MaxCrashes
    /\ server \in {"starting", "up"}
    /\ crashes' = crashes + 1
    /\ server' = "down" /\ at' = "idle"
    /\ keys' = NoKeys /\ active' = 0
    /\ rotation' = [m \in Admins |-> 0]
    /\ written' = 0
    /\ UNCHANGED <<disk, blobs, recorded, storedVersion, generated>>

Init ==
    /\ server = "down" /\ at = "idle"
    /\ keys = NoKeys /\ active = 0
    /\ \/ baseFile = NoFile /\ generated = 0
       \/ baseFile = KeyIn(1) /\ generated = 1
    /\ keyFile = [v \in Versions |-> NoFile]
    /\ registryFile = NoRegistry
    /\ blobs = {} /\ written = 0 /\ recorded = {}
    /\ rotation = [m \in Admins |-> 0]
    /\ storedVersion = 1
    /\ crashes = 0

Next ==
    \/ LoadKeys \/ StartFails \/ AdoptBaseKey \/ GenerateFirstKey
    \/ \E m \in Admins : RotateMasterKey(m) \/ UpdateActiveKeyVersion(m)
    \/ TruncateRegistry \/ SaveKeyRegistry \/ FlushKeys
    \/ EncryptBlob \/ CheckpointFails \/ RecordAggregatedModel
    \/ Crash

Spec == Init /\ [][Next]_vars

-----------------------------------------------------------------------------
(* Properties *)

TypeOK ==
    /\ server \in {"down", "starting", "up", "failed"}
    /\ at \in {"idle", "keys", "registry", "saved"}
    /\ keys \in [Versions -> 0 .. generated]
    /\ active \in 0 .. MaxVersion
    /\ server = "up" => keys[active] # 0
    /\ baseFile \in File /\ keyFile \in [Versions -> File]
    /\ registryFile \in [exists : BOOLEAN, active : 0 .. MaxVersion,
                         versions : SUBSET Versions]
    /\ blobs \subseteq [version : Versions, key : 1 .. generated]
    /\ written \in 0 .. MaxVersion
    /\ recorded \subseteq [blob : Versions, key : Versions]
    /\ rotation \in [Admins -> 0 .. MaxVersion]
    /\ storedVersion \in Versions

(* A running server decrypts every checkpoint ever written, across         *)
(* rotations and restarts: DecryptBlob finds the header's version and it   *)
(* is the key the checkpoint was encrypted with.                           *)
BlobsReadable ==
    server = "up" => \A b \in blobs : keys[b.version] = b.key

(* Whatever the process was doing when it died, the bytes of every key a   *)
(* checkpoint was encrypted with are in the file of its version; a version *)
(* number used again after a crash has no checkpoint.                      *)
KeysOnDisk ==
    \A b \in blobs : keyFile[b.version].key = b.key

(* Unless a rotation is in progress, the version the state store reports   *)
(* is the one the engine encrypts with; a rotation cut short by a crash is *)
(* made good when the server starts.                                       *)
StoreKeyAgree ==
    server = "up" /\ at = "idle" /\ (\A m \in Admins : rotation[m] = 0)
        => storedVersion = active

(* The key version the store has for a model is not always that of its     *)
(* checkpoint, as the engine is asked again after the encryption; but it is*)
(* never an earlier one, and never one that a rotation cut short by a crash*)
(* takes back.                                                             *)
RecordedKeyKnown ==
    \A r \in recorded :
        r.blob <= r.key /\ (server = "up" => keys[r.key] # 0)

(* docs/crypto-architecture.md: "Old keys are retained in a JSON registry  *)
(* [...] so that older checkpoints remain decryptable": a server that      *)
(* starts again can read them.                                             *)
CheckpointsRemainDecryptable == blobs # {} => server # "failed"
=============================================================================
