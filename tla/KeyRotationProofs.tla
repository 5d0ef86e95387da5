--------------------------- MODULE KeyRotationProofs ---------------------------
(***************************************************************************)
(* Proofs about the at-rest keys, for any number of administrators, key    *)
(* versions and crashes.                                                   *)
(***************************************************************************)
EXTENDS KeyRotation, TLAPS

-----------------------------------------------------------------------------
(* The inductive invariant *)

Types ==
    /\ generated \in Nat
    /\ server \in {"down", "starting", "up", "failed"}
    /\ at \in {"idle", "keys", "registry", "saved"}
    /\ keys \in [Versions -> Nat]
    /\ active \in 0 .. MaxVersion
    /\ baseFile \in File /\ keyFile \in [Versions -> File]
    /\ written \in 0 .. MaxVersion
    /\ blobs \subseteq [version : Versions, key : Nat]
    /\ recorded \subseteq [blob : Versions, key : Versions]

RegistryOf(v) == [exists |-> TRUE, active |-> v, versions |-> 1 .. v]

(* The engine has the keys of the versions up to the active one. *)
EngineInv ==
    /\ server \in {"starting", "up"} =>
           active \in Versions /\ \A v \in Versions : keys[v] # 0 <=> v <= active
    /\ server = "starting" => active = 1 /\ at # "idle"
    /\ server \in {"down", "failed"} => at = "idle"
    /\ server # "up" => written = 0

(* The versions that a crash now would not take back. *)
Durable == IF at = "idle" THEN active ELSE active - 1

RegistryInv ==
    /\ server = "up" =>
           /\ Durable \in Versions
           /\ at \in {"idle", "saved"} => registryFile = RegistryOf(active)
           /\ at = "keys" => registryFile = RegistryOf(active - 1)
           /\ at = "registry" => registryFile = TruncatedRegistry
    /\ server = "starting" =>
           /\ at = "keys" => registryFile = NoRegistry
           /\ at = "registry" => registryFile = TruncatedRegistry
           /\ at = "saved" => registryFile = RegistryOf(1)
    /\ server = "down" =>
           \/ registryFile \in {NoRegistry, TruncatedRegistry}
           \/ registryFile.active \in Versions /\ registryFile = RegistryOf(registryFile.active)

(* Checkpoints and records name durable versions, ... *)
ModelsInv ==
    /\ server = "starting" \/ (server = "down" /\ ~registryFile.exists)
           => blobs = {} /\ recorded = {}
    /\ server = "up" =>
           /\ written <= Durable
           /\ \A b \in blobs : b.version <= Durable
           /\ \A r \in recorded : r.key <= Durable
    /\ server = "down" /\ registryFile.active # 0 =>
           /\ \A b \in blobs : b.version <= registryFile.active
           /\ \A r \in recorded : r.key <= registryFile.active
    /\ \A r \in recorded : r.blob <= r.key

(* ... whose keys are in their files. *)
KeyFileInv ==
    /\ server = "up" => \A v \in Versions : v <= Durable => keyFile[v].key = keys[v]
    /\ KeysOnDisk

KeyInv == Types /\ EngineInv /\ RegistryInv /\ ModelsInv /\ KeyFileInv

-----------------------------------------------------------------------------
(* Every step preserves each part of the invariant. *)

LEMMA TypesNext == KeyInv /\ [Next]_vars => Types'
<1> SUFFICES ASSUME KeyInv, [Next]_vars PROVE Types'
    OBVIOUS
<1> USE KeyAssumption DEF KeyInv, Types, File, Versions, memory, disk, models
<1>1. CASE LoadKeys
    <2>1. registryFile.active \in Versions
        BY <1>1 DEF LoadKeys, RegistryLoads, RegistryInv, RegistryOf, TruncatedRegistry, NoRegistry
    <2>2. keys' \in [Versions -> Nat]
        BY <1>1 DEF LoadKeys
    <2> QED
        BY <1>1, <2>1, <2>2 DEF LoadKeys, EngineInv
<1>2. CASE StartFails
    BY <1>2 DEF StartFails, RegistryLoads
<1>3. CASE AdoptBaseKey
    BY <1>3 DEF AdoptBaseKey, NoKeys
<1>4. CASE GenerateFirstKey
    BY <1>4 DEF GenerateFirstKey, NoKeys, EmptyFile
<1>5. ASSUME NEW m \in Admins, RotateMasterKey(m) PROVE Types'
    BY <1>5 DEF RotateMasterKey, EmptyFile
<1>6. ASSUME NEW m \in Admins, UpdateActiveKeyVersion(m) PROVE Types'
    BY <1>6 DEF UpdateActiveKeyVersion
<1>7. CASE TruncateRegistry
    BY <1>7 DEF TruncateRegistry
<1>8. CASE SaveKeyRegistry
    BY <1>8 DEF SaveKeyRegistry, Loaded
<1>9. CASE FlushKeys
    <2>1. active \in Versions
        BY <1>9 DEF FlushKeys, EngineInv
    <2>2. KeyIn(keys[active]) \in File
        BY <2>1 DEF KeyIn
    <2>3. keyFile' \in [Versions -> File] /\ baseFile' \in File
        BY <1>9, <2>2 DEF FlushKeys
    <2> QED
        BY <1>9, <2>3 DEF FlushKeys
<1>10. CASE EncryptBlob
    BY <1>10 DEF EncryptBlob, EngineInv
<1>11. CASE CheckpointFails
    BY <1>11 DEF CheckpointFails
<1>12. CASE RecordAggregatedModel
    <2>1. written \in Versions /\ active \in Versions
        BY <1>12 DEF RecordAggregatedModel, EngineInv
    <2>2. [blob |-> written, key |-> active] \in [blob : Versions, key : Versions]
        BY <2>1
    <2>3. recorded' \subseteq [blob : Versions, key : Versions]
        BY <1>12, <2>2 DEF RecordAggregatedModel
    <2> QED
        BY <1>12, <2>3 DEF RecordAggregatedModel
<1>13. CASE Crash
    BY <1>13 DEF Crash, NoKeys
<1>14. CASE UNCHANGED vars
    BY <1>14 DEF vars
<1> QED
    BY <1>1, <1>2, <1>3, <1>4, <1>5, <1>6, <1>7, <1>8, <1>9, <1>10, <1>11, <1>12, <1>13,
       <1>14 DEF Next

LEMMA EngineInvNext == KeyInv /\ [Next]_vars => EngineInv'
<1> SUFFICES ASSUME KeyInv, [Next]_vars PROVE EngineInv'
    OBVIOUS
<1> USE KeyAssumption DEF KeyInv, Types, EngineInv, Versions, memory, disk, models
<1>1. CASE LoadKeys
    <2>1. registryFile.active \in Versions /\ registryFile = RegistryOf(registryFile.active)
        BY <1>1 DEF LoadKeys, RegistryLoads, RegistryInv, RegistryOf, TruncatedRegistry, NoRegistry
    <2>2. ASSUME NEW v \in Versions PROVE keys'[v] # 0 <=> v <= active'
        BY <1>1, <2>1 DEF LoadKeys, RegistryLoads, RegistryOf
    <2> QED
        BY <1>1, <2>1, <2>2 DEF LoadKeys
<1>2. CASE StartFails
    BY <1>2 DEF StartFails, RegistryLoads
<1>3. CASE AdoptBaseKey
    BY <1>3 DEF AdoptBaseKey, NoKeys
<1>4. CASE GenerateFirstKey
    BY <1>4 DEF GenerateFirstKey, NoKeys, EmptyFile
<1>5. ASSUME NEW m \in Admins, RotateMasterKey(m) PROVE EngineInv'
    BY <1>5 DEF RotateMasterKey, EmptyFile
<1>6. ASSUME NEW m \in Admins, UpdateActiveKeyVersion(m) PROVE EngineInv'
    BY <1>6 DEF UpdateActiveKeyVersion
<1>7. CASE TruncateRegistry
    BY <1>7 DEF TruncateRegistry
<1>8. CASE SaveKeyRegistry
    BY <1>8 DEF SaveKeyRegistry, Loaded
<1>9. CASE FlushKeys
    BY <1>9 DEF FlushKeys, KeyIn
<1>10. CASE EncryptBlob
    BY <1>10 DEF EncryptBlob
<1>11. CASE CheckpointFails
    BY <1>11 DEF CheckpointFails
<1>12. CASE RecordAggregatedModel
    BY <1>12 DEF RecordAggregatedModel
<1>13. CASE Crash
    BY <1>13 DEF Crash, NoKeys
<1>14. CASE UNCHANGED vars
    BY <1>14 DEF vars
<1> QED
    BY <1>1, <1>2, <1>3, <1>4, <1>5, <1>6, <1>7, <1>8, <1>9, <1>10, <1>11, <1>12, <1>13,
       <1>14 DEF Next

LEMMA RegistryInvNext == KeyInv /\ [Next]_vars => RegistryInv'
<1> SUFFICES ASSUME KeyInv, [Next]_vars PROVE RegistryInv'
    OBVIOUS
<1> USE KeyAssumption DEF KeyInv, Types, EngineInv, RegistryInv, RegistryOf, TruncatedRegistry,
           NoRegistry, Durable, Versions, memory, disk, models
<1>1. CASE LoadKeys
    <2>1. registryFile.active \in Versions /\ registryFile = RegistryOf(registryFile.active)
        BY <1>1 DEF LoadKeys, RegistryLoads
    <2> QED
        BY <1>1, <2>1 DEF LoadKeys
<1>2. CASE StartFails
    BY <1>2 DEF StartFails, RegistryLoads
<1>3. CASE AdoptBaseKey
    BY <1>3 DEF AdoptBaseKey, NoKeys
<1>4. CASE GenerateFirstKey
    BY <1>4 DEF GenerateFirstKey, NoKeys, EmptyFile
<1>5. ASSUME NEW m \in Admins, RotateMasterKey(m) PROVE RegistryInv'
    <2>1. /\ server' = "up" /\ at' = "keys"
          /\ active \in Versions /\ active' = active + 1
          /\ registryFile' = RegistryOf(active)
        BY <1>5 DEF RotateMasterKey
    <2>2. active' - 1 = active
        BY <2>1
    <2> QED
        BY <2>1, <2>2
<1>6. ASSUME NEW m \in Admins, UpdateActiveKeyVersion(m) PROVE RegistryInv'
    BY <1>6 DEF UpdateActiveKeyVersion
<1>7. CASE TruncateRegistry
    BY <1>7 DEF TruncateRegistry
<1>8. CASE SaveKeyRegistry
    <2>1. Loaded = 1 .. active
        BY <1>8 DEF SaveKeyRegistry, Loaded
    <2>2. registryFile' = RegistryOf(active)
        BY <1>8, <2>1 DEF SaveKeyRegistry
    <2> QED
        BY <1>8, <2>2 DEF SaveKeyRegistry
<1>9. CASE FlushKeys
    BY <1>9 DEF FlushKeys, KeyIn
<1>10. CASE EncryptBlob
    BY <1>10 DEF EncryptBlob
<1>11. CASE CheckpointFails
    BY <1>11 DEF CheckpointFails
<1>12. CASE RecordAggregatedModel
    BY <1>12 DEF RecordAggregatedModel
<1>13. CASE Crash
    <2>1. /\ server' = "down" /\ registryFile' = registryFile
          /\ server \in {"starting", "up"}
        BY <1>13 DEF Crash
    <2>2. CASE registryFile \in {NoRegistry, TruncatedRegistry}
        BY <2>1, <2>2
    <2>3. ASSUME NEW v \in Versions, registryFile = RegistryOf(v)
          PROVE  RegistryInv'
        BY <2>1, <2>3
    <2>4. CASE server = "up"
        BY <2>2, <2>3, <2>4
    <2>5. CASE server = "starting"
        BY <2>2, <2>3, <2>5
    <2> QED
        BY <2>1, <2>4, <2>5
<1>14. CASE UNCHANGED vars
    BY <1>14 DEF vars
<1> QED
    BY <1>1, <1>2, <1>3, <1>4, <1>5, <1>6, <1>7, <1>8, <1>9, <1>10, <1>11, <1>12, <1>13,
       <1>14 DEF Next

LEMMA ModelsInvNext == KeyInv /\ [Next]_vars => ModelsInv'
<1> SUFFICES ASSUME KeyInv, [Next]_vars PROVE ModelsInv'
    OBVIOUS
<1> USE KeyAssumption DEF KeyInv, Types, EngineInv, RegistryInv, RegistryOf, TruncatedRegistry,
           NoRegistry, Durable, ModelsInv, Versions, memory, disk, models
<1>1. CASE LoadKeys
    BY <1>1 DEF LoadKeys, RegistryLoads
<1>2. CASE StartFails
    BY <1>2 DEF StartFails, RegistryLoads
<1>3. CASE AdoptBaseKey
    BY <1>3 DEF AdoptBaseKey, NoKeys
<1>4. CASE GenerateFirstKey
    BY <1>4 DEF GenerateFirstKey, NoKeys, EmptyFile
<1>5. ASSUME NEW m \in Admins, RotateMasterKey(m) PROVE ModelsInv'
    BY <1>5 DEF RotateMasterKey, EmptyFile
<1>6. ASSUME NEW m \in Admins, UpdateActiveKeyVersion(m) PROVE ModelsInv'
    BY <1>6 DEF UpdateActiveKeyVersion
<1>7. CASE TruncateRegistry
    BY <1>7 DEF TruncateRegistry
<1>8. CASE SaveKeyRegistry
    BY <1>8 DEF SaveKeyRegistry, Loaded
<1>9. CASE FlushKeys
    BY <1>9 DEF FlushKeys, KeyIn
<1>10. CASE EncryptBlob
    BY <1>10 DEF EncryptBlob
<1>11. CASE CheckpointFails
    BY <1>11 DEF CheckpointFails
<1>12. CASE RecordAggregatedModel
    BY <1>12 DEF RecordAggregatedModel
<1>13. CASE Crash
    BY <1>13 DEF Crash, NoKeys
<1>14. CASE UNCHANGED vars
    BY <1>14 DEF vars
<1> QED
    BY <1>1, <1>2, <1>3, <1>4, <1>5, <1>6, <1>7, <1>8, <1>9, <1>10, <1>11, <1>12, <1>13,
       <1>14 DEF Next

LEMMA KeyFileInvNext == KeyInv /\ [Next]_vars => KeyFileInv'
<1> SUFFICES ASSUME KeyInv, [Next]_vars PROVE KeyFileInv'
    OBVIOUS
<1> USE KeyAssumption DEF KeyInv, Types, EngineInv, RegistryInv, RegistryOf, TruncatedRegistry,
           NoRegistry, Durable, ModelsInv, KeyFileInv, KeysOnDisk, Versions, memory, disk, models
<1>1. CASE LoadKeys
    BY <1>1 DEF LoadKeys, RegistryLoads
<1>2. CASE StartFails
    BY <1>2 DEF StartFails, RegistryLoads
<1>3. CASE AdoptBaseKey
    BY <1>3 DEF AdoptBaseKey, NoKeys
<1>4. CASE GenerateFirstKey
    BY <1>4 DEF GenerateFirstKey, NoKeys, EmptyFile
<1>5. ASSUME NEW m \in Admins, RotateMasterKey(m) PROVE KeyFileInv'
    BY <1>5 DEF RotateMasterKey, EmptyFile
<1>6. ASSUME NEW m \in Admins, UpdateActiveKeyVersion(m) PROVE KeyFileInv'
    BY <1>6 DEF UpdateActiveKeyVersion
<1>7. CASE TruncateRegistry
    BY <1>7 DEF TruncateRegistry
<1>8. CASE SaveKeyRegistry
    BY <1>8 DEF SaveKeyRegistry, Loaded
<1>9. CASE FlushKeys
    BY <1>9 DEF FlushKeys, KeyIn
<1>10. CASE EncryptBlob
    BY <1>10 DEF EncryptBlob
<1>11. CASE CheckpointFails
    BY <1>11 DEF CheckpointFails
<1>12. CASE RecordAggregatedModel
    BY <1>12 DEF RecordAggregatedModel
<1>13. CASE Crash
    BY <1>13 DEF Crash, NoKeys
<1>14. CASE UNCHANGED vars
    BY <1>14 DEF vars
<1> QED
    BY <1>1, <1>2, <1>3, <1>4, <1>5, <1>6, <1>7, <1>8, <1>9, <1>10, <1>11, <1>12, <1>13,
       <1>14 DEF Next

LEMMA KeyInvInit == Init => KeyInv
<1> SUFFICES ASSUME Init PROVE KeyInv
    OBVIOUS
<1>1. NoFile \in File /\ KeyIn(1) \in File
    BY DEF File, NoFile, KeyIn
<1>2. Types
    BY <1>1, KeyAssumption DEF Init, Types, NoKeys
<1>3. EngineInv /\ RegistryInv
    BY DEF Init, EngineInv, RegistryInv
<1>4. ModelsInv /\ KeyFileInv
    BY DEF Init, ModelsInv, KeyFileInv, KeysOnDisk, NoRegistry
<1> QED
    BY <1>2, <1>3, <1>4 DEF KeyInv

(* Rotation, model saving, crashes at any point and start-up preserve all  *)
(* parts together: the registry on disk never names a version whose key    *)
(* file could be incomplete, unless a server was starting or rotating.     *)
THEOREM KeyInvariant == Spec => []KeyInv
<1>1. KeyInv /\ [Next]_vars => KeyInv'
    BY TypesNext, EngineInvNext, RegistryInvNext, ModelsInvNext, KeyFileInvNext DEF KeyInv
<1> QED
    BY <1>1, KeyInvInit, PTL DEF Spec

-----------------------------------------------------------------------------
(* What holds for every number of administrators, versions and crashes *)

(* A process may die at any point of any rotation, and be started again:   *)
(* the key of every checkpoint is in the file of its version.              *)
THEOREM KeysOnDiskHolds == Spec => []KeysOnDisk
<1>1. KeyInv => KeysOnDisk
    BY DEF KeyInv, KeyFileInv
<1> QED
    BY <1>1, KeyInvariant, PTL

(* A server that is up, whatever rotations and crashes came before, has    *)
(* loaded the key of every checkpoint.                                     *)
THEOREM BlobsReadableHolds == Spec => []BlobsReadable
<1>1. KeyInv => BlobsReadable
    <2> SUFFICES ASSUME KeyInv, server = "up", NEW b \in blobs
                 PROVE  keys[b.version] = b.key
        BY DEF BlobsReadable
    <2>1. b.version \in Versions /\ b.version <= Durable
        BY DEF KeyInv, Types, ModelsInv
    <2> QED
        BY <2>1 DEF KeyInv, KeyFileInv, KeysOnDisk
<1> QED
    BY <1>1, KeyInvariant, PTL

(* The version recorded with a model is never before its checkpoint's, and *)
(* a server that is up has its key.                                        *)
THEOREM RecordedKeyKnownHolds == Spec => []RecordedKeyKnown
<1>1. KeyInv => RecordedKeyKnown
    <2> SUFFICES ASSUME KeyInv, NEW r \in recorded
                 PROVE  r.blob <= r.key /\ (server = "up" => keys[r.key] # 0)
        BY DEF RecordedKeyKnown
    <2>1. r.key \in Versions /\ r.blob <= r.key
        BY DEF KeyInv, Types, ModelsInv
    <2>2. ASSUME server = "up" PROVE r.key <= active
        BY <2>1, <2>2, KeyAssumption DEF KeyInv, Types, ModelsInv, Durable, Versions
    <2> QED
        BY <2>1, <2>2 DEF KeyInv, EngineInv
<1> QED
    BY <1>1, KeyInvariant, PTL

-----------------------------------------------------------------------------
(* What the state store says of the keys, with one administrator *)

(* The administrator's rotation is the latest one until the store is told. *)
ToldInv ==
    /\ server # "up" => \A m \in Admins : rotation[m] = 0
    /\ server = "up" => \/ storedVersion = active
                        \/ \E m \in Admins : rotation[m] = active
    /\ \A m \in Admins : rotation[m] \in {0, active}
OneAdministrator == \A m, n \in Admins : m = n

LEMMA ToldInvNext ==
    ASSUME OneAdministrator, KeyInv, rotation \in [Admins -> Nat], ToldInv, [Next]_vars
    PROVE  rotation' \in [Admins -> Nat] /\ ToldInv'
<1> USE KeyAssumption DEF Versions, ToldInv, memory, disk, models
<1>1. active \in Nat /\ (server \in {"starting", "up"} => active # 0)
    BY DEF KeyInv, Types, EngineInv
<1>2. CASE LoadKeys
    BY <1>2 DEF LoadKeys
<1>3. CASE StartFails
    BY <1>3 DEF StartFails
<1>4. CASE AdoptBaseKey
    BY <1>4 DEF AdoptBaseKey
<1>5. CASE GenerateFirstKey
    BY <1>5 DEF GenerateFirstKey
<1>6. ASSUME NEW m \in Admins, RotateMasterKey(m)
      PROVE  rotation' \in [Admins -> Nat] /\ ToldInv'
    <2>1. /\ server' = "up" /\ active' = active + 1
          /\ rotation' = [rotation EXCEPT ![m] = active + 1]
        BY <1>6 DEF RotateMasterKey
    <2>2. rotation'[m] = active' /\ \A n \in Admins : n = m
        BY <2>1 DEF OneAdministrator
    <2> QED
        BY <1>1, <2>1, <2>2
<1>7. ASSUME NEW m \in Admins, UpdateActiveKeyVersion(m)
      PROVE  rotation' \in [Admins -> Nat] /\ ToldInv'
    <2>1. /\ server' = "up" /\ active' = active
          /\ storedVersion' = active
          /\ rotation' = [rotation EXCEPT ![m] = 0]
        BY <1>7 DEF UpdateActiveKeyVersion
    <2> QED
        BY <2>1
<1>8. CASE TruncateRegistry
    BY <1>8 DEF TruncateRegistry
<1>9. CASE SaveKeyRegistry
    BY <1>9 DEF SaveKeyRegistry
<1>10. CASE FlushKeys
    BY <1>10 DEF FlushKeys, KeyInv, Types, EngineInv
<1>11. CASE EncryptBlob
    BY <1>11 DEF EncryptBlob
<1>12. CASE CheckpointFails
    BY <1>12 DEF CheckpointFails
<1>13. CASE RecordAggregatedModel
    BY <1>13 DEF RecordAggregatedModel
<1>14. CASE Crash
    BY <1>14 DEF Crash
<1>15. CASE UNCHANGED vars
    BY <1>15 DEF vars
<1> QED
    BY <1>2, <1>3, <1>4, <1>5, <1>6, <1>7, <1>8, <1>9, <1>10, <1>11, <1>12, <1>13,
       <1>14, <1>15 DEF Next

(* UpdateActiveKeyVersion comes after the rotation it reports and start-up *)
(* makes good what a crash cut off, so one administrator never leaves the  *)
(* store with another version than the engine's.  (Two may: each tells the *)
(* store its own version, in either order.)                                *)
THEOREM StoreKeyAgreeHolds == Spec => [](OneAdministrator => StoreKeyAgree)
<1> DEFINE J == OneAdministrator => rotation \in [Admins -> Nat] /\ ToldInv
<1>1. Init => J
    BY DEF Init, ToldInv
<1>2. KeyInv /\ J /\ [Next]_vars => J'
    BY ToldInvNext DEF OneAdministrator
<1>3. KeyInv /\ J => (OneAdministrator => StoreKeyAgree)
    BY KeyAssumption DEF ToldInv, StoreKeyAgree, KeyInv, Types, EngineInv, Versions
<1> HIDE DEF J
<1> QED
    BY <1>1, <1>2, <1>3, KeyInvariant, PTL DEF Spec
=============================================================================
