----------------------------- MODULE Registration -----------------------------
(***************************************************************************)
(* Which certificate identity a client id is bound to: the in-memory       *)
(* registry (server/client_registry.cpp), the client records of the state  *)
(* store, and the two handlers that write both, each under its own lock:   *)
(* RegisterClient, run by one completion-queue thread at a time, and       *)
(* RegisterWorker, run by the synchronous gRPC threads, which binds the    *)
(* worker's trainer client to the worker's certificate.                    *)
(***************************************************************************)
EXTENDS Naturals

CONSTANTS
    Clients,      \* client ids, of FL clients and of workers' trainers
    Identities,   \* identities of peer certificates
    WorkerCalls,  \* RegisterWorker calls that can be in progress at a time
    MaxRestarts   \* bound on server restarts

ASSUME RegistrationAssumption ==
    /\ MaxRestarts \in Nat
    /\ Identities \intersect {"absent", "unbound"} = {}

VARIABLES
    registry,   \* clients_ of ClientRegistry: the identity of each client
    stored,     \* clients_ of StateStore, saved by every operation
    call,       \* the RegisterClient being handled
    workerCall, \* the RegisterWorker calls in progress
    answered,   \* history: registrations answered with accepted = true
    overlapped, \* history: clients both handlers have registered at once
    restarts    \* number of server restarts

vars == <<registry, stored, call, workerCall, answered, overlapped, restarts>>

(* "absent": no record.  "unbound": a record with an empty peer_identity,  *)
(* from a state file written without one.                                  *)
Binding == Identities \union {"absent", "unbound"}
Idle == [at |-> "idle", client |-> "none", id |-> "none", accepted |-> FALSE]

IsRegistered(c) == registry[c] # "absent"
IsRegisteredForPeer(c, id) == registry[c] = id
(* What BindPeerIdentityIfMissing returns. *)
BindsTo(c, id) == registry[c] \in {"unbound", id}

(* Mutant: the last caller's identity is kept. *)
RecordClientRegistrationLast(c, id) == stored' = [stored EXCEPT ![c] = id]
(* A new record, or the missing identity of an old one. *)
RecordClientRegistration(c, id) ==
    stored' = [stored EXCEPT ![c] = IF @ \in {"absent", "unbound"} THEN id ELSE @]

-----------------------------------------------------------------------------
(* RegisterClient *)

WorkersRegister ==
    {workerCall[w].client : w \in {v \in WorkerCalls : workerCall[v].at # "idle"}}

RegisterClient(c, id) ==
    /\ call.at = "idle"
    /\ registry' = [registry EXCEPT ![c] = IF @ = "absent" THEN id ELSE @]
    /\ call' = [at |-> "record", client |-> c, id |-> id, accepted |-> ~IsRegistered(c)]
    /\ overlapped' = overlapped \union ({c} \intersect WorkersRegister)
    /\ UNCHANGED <<stored, workerCall, answered, restarts>>

(* The record is written whether or not the registry took the client. *)
RegisterClientRecord ==
    /\ call.at = "record"
    /\ RecordClientRegistration(call.client, call.id)
    /\ answered' = IF call.accepted THEN answered \union {<<call.client, call.id>>}
                   ELSE answered
    /\ call' = Idle
    /\ UNCHANGED <<registry, workerCall, overlapped, restarts>>

-----------------------------------------------------------------------------
(* RegisterWorker *)

At(w, pc) == workerCall[w].at = pc
Goto(w, pc) == workerCall' = [workerCall EXCEPT ![w].at = pc]

WorkerCheck(w, c, id) ==
    /\ At(w, "idle")
    /\ workerCall' = [workerCall EXCEPT ![w] =
           [at |-> IF IsRegistered(c) THEN "bind" ELSE "register",
            client |-> c, id |-> id, accepted |-> FALSE]]
    /\ overlapped' = overlapped \union ({c} \intersect {call.client})
    /\ UNCHANGED <<registry, stored, call, answered, restarts>>

(* Mutant: a client new to the registry is not persisted. *)
WorkerRegisterInMemory(w) ==
    /\ At(w, "register")
    /\ registry' = [registry EXCEPT ![workerCall[w].client] =
                        IF @ = "absent" THEN workerCall[w].id ELSE @]
    /\ Goto(w, "idle")
    /\ UNCHANGED <<stored, call, answered, overlapped, restarts>>
(* registry_.Register's answer is ignored. *)
WorkerRegister(w) ==
    /\ At(w, "register")
    /\ registry' = [registry EXCEPT ![workerCall[w].client] =
                        IF @ = "absent" THEN workerCall[w].id ELSE @]
    /\ Goto(w, "record")
    /\ UNCHANGED <<stored, call, answered, overlapped, restarts>>

WorkerBind(w) ==
    LET c == workerCall[w].client
        id == workerCall[w].id IN
    /\ At(w, "bind")
    /\ registry' = [registry EXCEPT ![c] = IF @ = "unbound" THEN id ELSE @]
    /\ Goto(w, IF BindsTo(c, id) THEN "record" ELSE "idle")
    /\ UNCHANGED <<stored, call, answered, overlapped, restarts>>

WorkerRecord(w) ==
    /\ At(w, "record")
    /\ RecordClientRegistration(workerCall[w].client, workerCall[w].id)
    /\ Goto(w, "idle")
    /\ UNCHANGED <<registry, call, answered, overlapped, restarts>>

-----------------------------------------------------------------------------
(* The constructor of FederatedServiceImpl registers every stored client. *)
Restart ==
    /\ restarts < MaxRestarts
    /\ restarts' = restarts + 1
    /\ registry' = stored
    /\ call' = Idle
    /\ workerCall' = [w \in WorkerCalls |-> Idle]
    /\ UNCHANGED <<stored, answered, overlapped>>

Init ==
    /\ stored \in [Clients -> {"absent", "unbound"}]
    /\ registry = stored
    /\ call = Idle
    /\ workerCall = [w \in WorkerCalls |-> Idle]
    /\ answered = {}
    /\ overlapped = {}
    /\ restarts = 0

Next ==
    \/ \E c \in Clients, id \in Identities : RegisterClient(c, id)
    \/ RegisterClientRecord
    \/ \E w \in WorkerCalls, c \in Clients, id \in Identities : WorkerCheck(w, c, id)
    \/ \E w \in WorkerCalls : WorkerRegister(w) \/ WorkerBind(w) \/ WorkerRecord(w)
    \/ Restart

Spec == Init /\ [][Next]_vars

-----------------------------------------------------------------------------
(* Properties *)

TypeOK ==
    /\ registry \in [Clients -> Binding]
    /\ stored \in [Clients -> Binding]
    /\ call = Idle \/ call \in [at : {"record"}, client : Clients, id : Identities,
                               accepted : BOOLEAN]
    /\ workerCall \in [WorkerCalls ->
           [at : {"idle", "register", "bind", "record"}, client : Clients \union {"none"},
            id : Identities \union {"none"}, accepted : BOOLEAN]]
    /\ \A w \in WorkerCalls :
          ~At(w, "idle") => workerCall[w].client \in Clients /\ workerCall[w].id \in Identities
    /\ answered \subseteq Clients \X Identities
    /\ overlapped \subseteq Clients
    /\ restarts \in 0 .. MaxRestarts

(* A client id has an identity in the registry only as long as some call   *)
(* will still persist it or the store has one: no registration that was    *)
(* answered is forgotten by a restart, whichever handler made it.          *)
Persisting(c) ==
    \/ call.at = "record" /\ call.client = c
    \/ \E w \in WorkerCalls : At(w, "record") /\ workerCall[w].client = c
RegistrationSurvives ==
    \A c \in Clients : registry[c] \in Identities => stored[c] \in Identities \/ Persisting(c)

(* An identity that was persisted is never replaced or removed, by any     *)
(* interleaving of the two handlers and restarts; nor is one in the        *)
(* registry, by anything but a restart.                                    *)
BindingIsFinal ==
    [][\A c \in Clients :
          /\ stored[c] \in Identities => stored'[c] = stored[c]
          /\ registry[c] \in Identities /\ restarts' = restarts
                => registry'[c] = registry[c]]_vars

(* docs/threat-model.md: "a client that registered with certificate A      *)
(* cannot submit weights using certificate B".  SubmitWeights admits the   *)
(* peer IsRegisteredForPeer admits.  It holds across restarts, of whatever *)
(* partly written registrations, unless RegisterClient and RegisterWorker  *)
(* have handled the same new client at the same time: the registry then    *)
(* keeps the one's identity, the store possibly the other's.               *)
CertificateBinds ==
    \A p \in answered : \A id \in Identities :
        p[1] \notin overlapped /\ IsRegisteredForPeer(p[1], id) => id = p[2]
=============================================================================
