-------------------------- MODULE RegistrationProofs ---------------------------
(***************************************************************************)
(* Proofs about registration, for every set of client ids, certificates    *)
(* and concurrent RegisterWorker calls and any number of restarts.         *)
(***************************************************************************)
EXTENDS Registration, TLAPS

-----------------------------------------------------------------------------
(* Types *)

LEMMA TypeInit == Init => TypeOK
BY RegistrationAssumption DEF Init, TypeOK, Binding, Idle, At

LEMMA TypeNext == TypeOK /\ [Next]_vars => TypeOK'
<1> SUFFICES ASSUME TypeOK, [Next]_vars PROVE TypeOK'
    OBVIOUS
<1> USE RegistrationAssumption DEF TypeOK, Binding, At, Goto
<1>1. ASSUME NEW c \in Clients, NEW id \in Identities, RegisterClient(c, id) PROVE TypeOK'
    BY <1>1 DEF RegisterClient, IsRegistered, Idle
<1>2. CASE RegisterClientRecord
    BY <1>2 DEF RegisterClientRecord, RecordClientRegistration, Idle
<1>3. ASSUME NEW w \in WorkerCalls, NEW c \in Clients, NEW id \in Identities,
             WorkerCheck(w, c, id)
      PROVE  TypeOK'
    BY <1>3 DEF WorkerCheck, IsRegistered, Idle
<1>4. ASSUME NEW w \in WorkerCalls, WorkerRegister(w) PROVE TypeOK'
    BY <1>4 DEF WorkerRegister, Idle
<1>5. ASSUME NEW w \in WorkerCalls, WorkerBind(w) PROVE TypeOK'
    BY <1>5 DEF WorkerBind, BindsTo, Idle
<1>6. ASSUME NEW w \in WorkerCalls, WorkerRecord(w) PROVE TypeOK'
    BY <1>6 DEF WorkerRecord, RecordClientRegistration, Idle
<1>7. CASE Restart
    BY <1>7 DEF Restart, Idle
<1>8. CASE UNCHANGED vars
    BY <1>8 DEF vars, Idle
<1> QED
    BY <1>1, <1>2, <1>3, <1>4, <1>5, <1>6, <1>7, <1>8 DEF Next

(* The registry, the stored records and the calls in progress keep their   *)
(* types: identities are only ever those of certificates.                  *)
THEOREM TypeCorrect == Spec => []TypeOK
BY TypeInit, TypeNext, PTL DEF Spec

-----------------------------------------------------------------------------
(* No step but a restart changes an identity, and none a stored one. *)

(* Neither handler, in any interleaving, replaces or removes an identity   *)
(* that is bound in the registry or in the stored record.                  *)
THEOREM BindingIsFinalHolds == Spec => BindingIsFinal
<1> DEFINE Final == \A c \in Clients :
              /\ stored[c] \in Identities => stored'[c] = stored[c]
              /\ registry[c] \in Identities /\ restarts' = restarts
                    => registry'[c] = registry[c]
<1>1. TypeOK /\ [Next]_vars => [Final]_vars
    <2> SUFFICES ASSUME TypeOK, Next PROVE Final
        OBVIOUS
    <2> USE RegistrationAssumption DEF TypeOK, Binding, At
    <2>1. ASSUME NEW c \in Clients, NEW id \in Identities, RegisterClient(c, id) PROVE Final
        BY <2>1 DEF RegisterClient
    <2>2. CASE RegisterClientRecord
        BY <2>2 DEF RegisterClientRecord, RecordClientRegistration
    <2>3. ASSUME NEW w \in WorkerCalls, NEW c \in Clients, NEW id \in Identities,
                 WorkerCheck(w, c, id)
          PROVE  Final
        BY <2>3 DEF WorkerCheck
    <2>4. ASSUME NEW w \in WorkerCalls, WorkerRegister(w) PROVE Final
        BY <2>4 DEF WorkerRegister
    <2>5. ASSUME NEW w \in WorkerCalls, WorkerBind(w) PROVE Final
        BY <2>5 DEF WorkerBind
    <2>6. ASSUME NEW w \in WorkerCalls, WorkerRecord(w) PROVE Final
        BY <2>6 DEF WorkerRecord, RecordClientRegistration
    <2>7. CASE Restart
        BY <2>7 DEF Restart
    <2> QED
        BY <2>1, <2>2, <2>3, <2>4, <2>5, <2>6, <2>7 DEF Next
<1> QED
    BY <1>1, TypeCorrect, PTL DEF Spec, BindingIsFinal

-----------------------------------------------------------------------------
(* RegistrationSurvives is inductive. *)

LEMMA SurvivesNext == TypeOK /\ RegistrationSurvives /\ [Next]_vars => RegistrationSurvives'
<1> SUFFICES ASSUME TypeOK, RegistrationSurvives, [Next]_vars PROVE RegistrationSurvives'
    OBVIOUS
<1> USE RegistrationAssumption DEF TypeOK, Binding, At, Goto, RegistrationSurvives, Persisting
<1>1. ASSUME NEW c \in Clients, NEW id \in Identities, RegisterClient(c, id)
      PROVE  RegistrationSurvives'
    BY <1>1 DEF RegisterClient
<1>2. CASE RegisterClientRecord
    BY <1>2 DEF RegisterClientRecord, RecordClientRegistration
<1>3. ASSUME NEW w \in WorkerCalls, NEW c \in Clients, NEW id \in Identities,
             WorkerCheck(w, c, id)
      PROVE  RegistrationSurvives'
    BY <1>3 DEF WorkerCheck
<1>4. ASSUME NEW w \in WorkerCalls, WorkerRegister(w) PROVE RegistrationSurvives'
    BY <1>4 DEF WorkerRegister
<1>5. ASSUME NEW w \in WorkerCalls, WorkerBind(w) PROVE RegistrationSurvives'
    BY <1>5 DEF WorkerBind, BindsTo
<1>6. ASSUME NEW w \in WorkerCalls, WorkerRecord(w) PROVE RegistrationSurvives'
    BY <1>6 DEF WorkerRecord, RecordClientRegistration
<1>7. CASE Restart
    BY <1>7 DEF Restart
<1>8. CASE UNCHANGED vars
    BY <1>8 DEF vars
<1> QED
    BY <1>1, <1>2, <1>3, <1>4, <1>5, <1>6, <1>7, <1>8 DEF Next

(* A registration in the registry is in the state store, or the call that  *)
(* made it is about to put it there.                                       *)
THEOREM RegistrationSurvivesHolds == Spec => []RegistrationSurvives
<1>1. Init => RegistrationSurvives
    BY RegistrationAssumption DEF Init, RegistrationSurvives
<1> QED
    BY <1>1, SurvivesNext, TypeCorrect, PTL DEF Spec

-----------------------------------------------------------------------------
(* CertificateBinds is not inductive: it needs to know that an accepted    *)
(* registration that no worker's has met finds no record of the client,    *)
(* and that its own identity is in the registry until it is stored.        *)

Known(c) == registry[c] # "absent"

(* Whoever has a record, or is about to write one, is in the registry.     *)
RecordsKnown ==
    /\ \A c \in Clients : stored[c] # "absent" => Known(c)
    /\ call.at = "record" => Known(call.client)
    /\ \A w \in WorkerCalls : At(w, "bind") \/ At(w, "record") => Known(workerCall[w].client)

(* A registration in progress that no worker's has met is alone, ...       *)
Undisturbed == call.at = "record" /\ call.client \notin overlapped
CallAlone ==
    Undisturbed => \A w \in WorkerCalls : ~At(w, "idle") => workerCall[w].client # call.client
(* ... and if it was accepted, will be the first to be stored.             *)
CallFirst ==
    Undisturbed /\ call.accepted =>
        registry[call.client] = call.id /\ stored[call.client] = "absent"

AnsweredBound ==
    \A p \in answered :
        p[1] \notin overlapped => registry[p[1]] = p[2] /\ stored[p[1]] = p[2]

BindInv == TypeOK /\ RecordsKnown /\ CallAlone /\ CallFirst /\ AnsweredBound

LEMMA BindInit == Init => BindInv
<1> SUFFICES ASSUME Init PROVE BindInv
    OBVIOUS
<1>1. TypeOK
    BY TypeInit
<1>2. RecordsKnown /\ CallAlone /\ CallFirst /\ AnsweredBound
    BY RegistrationAssumption
    DEF Init, Idle, At, Known, RecordsKnown, Undisturbed, CallAlone, CallFirst, AnsweredBound
<1> QED
    BY <1>1, <1>2 DEF BindInv

LEMMA RegisterClientBinds ==
    ASSUME BindInv, TypeOK', NEW c \in Clients, NEW id \in Identities, RegisterClient(c, id)
    PROVE  BindInv'
<1> USE RegistrationAssumption DEF BindInv, TypeOK, Binding, At, Known, RegisterClient
<1>1. RecordsKnown'
    BY DEF RecordsKnown
<1>2. CallAlone'
    BY DEF CallAlone, Undisturbed, WorkersRegister
<1>3. CallFirst'
    BY DEF CallFirst, Undisturbed, RecordsKnown, IsRegistered
<1>4. AnsweredBound'
    BY DEF AnsweredBound
<1> QED
    BY <1>1, <1>2, <1>3, <1>4

LEMMA RegisterClientRecordBinds ==
    ASSUME BindInv, TypeOK', RegisterClientRecord
    PROVE  BindInv'
<1> USE RegistrationAssumption
    DEF BindInv, TypeOK, Binding, At, Known, RegisterClientRecord, RecordClientRegistration
<1>1. call.client \in Clients /\ call.id \in Identities /\ call.accepted \in BOOLEAN
    BY DEF Idle
<1>2. RecordsKnown'
    BY <1>1 DEF RecordsKnown, Idle
<1>3. CallAlone' /\ CallFirst'
    BY DEF CallAlone, CallFirst, Undisturbed, Idle
<1>4. ASSUME NEW p \in answered', p[1] \notin overlapped'
      PROVE  registry'[p[1]] = p[2] /\ stored'[p[1]] = p[2]
    <2>1. CASE p \in answered
        BY <1>1, <1>4, <2>1 DEF AnsweredBound
    <2>2. CASE p \notin answered
        <3>1. call.accepted /\ p = <<call.client, call.id>>
            BY <1>4, <2>2
        <3> QED
            BY <1>1, <1>4, <3>1 DEF CallFirst, Undisturbed
    <2> QED
        BY <2>1, <2>2
<1> QED
    BY <1>2, <1>3, <1>4 DEF AnsweredBound

LEMMA WorkerCheckBinds ==
    ASSUME BindInv, TypeOK', NEW w \in WorkerCalls, NEW c \in Clients, NEW id \in Identities,
           WorkerCheck(w, c, id)
    PROVE  BindInv'
<1> USE RegistrationAssumption DEF BindInv, TypeOK, Binding, At, Known, WorkerCheck
<1>1. RecordsKnown'
    BY DEF RecordsKnown, IsRegistered
<1>2. CallAlone'
    BY DEF CallAlone, Undisturbed
<1>3. CallFirst' /\ AnsweredBound'
    BY DEF CallFirst, AnsweredBound, Undisturbed
<1> QED
    BY <1>1, <1>2, <1>3

(* The client of a worker's call is not that of an undisturbed one.        *)
LEMMA WorkerRegisterBinds ==
    ASSUME BindInv, TypeOK', NEW w \in WorkerCalls, WorkerRegister(w)
    PROVE  BindInv'
<1> USE RegistrationAssumption DEF BindInv, TypeOK, Binding, At, Goto, Known, WorkerRegister
<1>1. RecordsKnown'
    BY DEF RecordsKnown
<1>2. CallAlone' /\ CallFirst' /\ AnsweredBound'
    BY DEF CallAlone, CallFirst, AnsweredBound, Undisturbed
<1> QED
    BY <1>1, <1>2

LEMMA WorkerBindBinds ==
    ASSUME BindInv, TypeOK', NEW w \in WorkerCalls, WorkerBind(w)
    PROVE  BindInv'
<1> USE RegistrationAssumption DEF BindInv, TypeOK, Binding, At, Goto, Known, WorkerBind
<1>1. RecordsKnown'
    BY DEF RecordsKnown, BindsTo
<1>2. CallAlone' /\ CallFirst' /\ AnsweredBound'
    BY DEF CallAlone, CallFirst, AnsweredBound, Undisturbed
<1> QED
    BY <1>1, <1>2

LEMMA WorkerRecordBinds ==
    ASSUME BindInv, TypeOK', NEW w \in WorkerCalls, WorkerRecord(w)
    PROVE  BindInv'
<1> USE RegistrationAssumption
    DEF BindInv, TypeOK, Binding, At, Goto, Known, WorkerRecord, RecordClientRegistration
<1>1. RecordsKnown'
    BY DEF RecordsKnown
<1>2. CallAlone' /\ CallFirst'
    BY DEF CallAlone, CallFirst, Undisturbed
<1>3. AnsweredBound'
    BY DEF AnsweredBound
<1> QED
    BY <1>1, <1>2, <1>3

LEMMA RestartBinds ==
    ASSUME BindInv, TypeOK', Restart
    PROVE  BindInv'
<1> USE RegistrationAssumption DEF BindInv, TypeOK, At, Known, Restart, Idle
<1>1. RecordsKnown'
    BY DEF RecordsKnown
<1>2. CallAlone' /\ CallFirst' /\ AnsweredBound'
    BY DEF CallAlone, CallFirst, AnsweredBound, Undisturbed
<1> QED
    BY <1>1, <1>2

LEMMA BindNext == BindInv /\ [Next]_vars => BindInv'
<1> SUFFICES ASSUME BindInv, [Next]_vars PROVE BindInv'
    OBVIOUS
<1>1. TypeOK'
    BY TypeNext DEF BindInv
<1>2. CASE Next
    BY <1>1, <1>2, RegisterClientBinds, RegisterClientRecordBinds, WorkerCheckBinds,
       WorkerRegisterBinds, WorkerBindBinds, WorkerRecordBinds, RestartBinds DEF Next
<1>3. CASE UNCHANGED vars
    BY <1>1, <1>3 DEF vars, BindInv, RecordsKnown, CallAlone, CallFirst, AnsweredBound,
                      Undisturbed, At, Known
<1> QED
    BY <1>2, <1>3

(* A client told that it registered under one certificate is not admitted  *)
(* with another, over any number of restarts, unless a RegisterWorker for  *)
(* the same client id was handled while its registration was.              *)
THEOREM CertificateBindsHolds == Spec => []CertificateBinds
<1>1. BindInv => CertificateBinds
    BY DEF BindInv, AnsweredBound, CertificateBinds, IsRegisteredForPeer
<1> QED
    BY <1>1, BindInit, BindNext, PTL DEF Spec

=============================================================================
