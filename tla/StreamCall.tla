------------------------------ MODULE StreamCall ------------------------------
(***************************************************************************)
(* The life of one StreamGlobalModelCall (server/federated_service.cpp):   *)
(* an object that registers operations with the gRPC completion queue,     *)
(* sends the latest global model whenever its round is new to the client,  *)
(* polls every second, and deletes itself after its last event.            *)
(*                                                                         *)
(* An operation is `pending' until gRPC completes it; its tag is `ready'   *)
(* until a completion-queue thread has handled it.  There are several such *)
(* threads: a thread takes its tag off the queue before it waits for       *)
(* proceed_mutex_, so ready tags are handled in any order.                 *)
(***************************************************************************)
EXTENDS Naturals, Sequences, FiniteSets

CONSTANTS
    MaxVersions,    \* bound on recorded model versions
    MaxSwitches,    \* bound on changes of the latest model
    ModelRounds,    \* rounds models are aggregated in
    Received        \* ModelRequest.last_received_round

ASSUME StreamAssumption ==
    /\ {MaxVersions, MaxSwitches, Received} \subseteq Nat
    /\ ModelRounds \subseteq Nat \ {0}

VARIABLES
    status,        \* status_
    pending,       \* operations gRPC has not completed
    ready,         \* [tag, ok] completed, not yet handled
    doneReceived,  \* done_received_
    lastSent,      \* last_sent_round_
    deleted,       \* the object is gone
    client,        \* the peer
    latest,        \* what GetLatestGlobalModel returns
    versions,      \* the round of every recorded model version
    switches       \* number of changes of latest

callVars == <<status, pending, ready, doneReceived, lastSent, deleted>>
modelVars == <<latest, versions, switches>>
vars == <<callVars, client, modelVars>>

Operations == {"request", "done", "write", "alarm", "finish"}
Ready(tag) == \E e \in ready : e.tag = tag
(* The *_in_flight_ flags: set when the operation starts, reset when its   *)
(* event is handled.                                                       *)
InFlight(tag) == tag \in pending \/ Ready(tag)

-----------------------------------------------------------------------------
(* The peer and gRPC *)

ClientCalls ==
    /\ client = "away"
    /\ client' = "connected"
    /\ pending' = pending \ {"request"}
    /\ ready' = ready \union {[tag |-> "request", ok |-> TRUE]}
    /\ UNCHANGED <<status, doneReceived, lastSent, deleted, modelVars>>

ClientLeaves ==
    /\ client = "connected"
    /\ client' = "left"
    /\ UNCHANGED <<callVars, modelVars>>

Complete(tag, ok) ==
    /\ tag \in pending
    /\ pending' = pending \ {tag}
    /\ ready' = ready \union {[tag |-> tag, ok |-> ok]}
    /\ UNCHANGED <<status, doneReceived, lastSent, deleted, client, modelVars>>

(* A write to a peer that has left may still be reported as written. *)
WriteCompletes == \E ok \in BOOLEAN : (ok \/ client = "left") /\ Complete("write", ok)
AlarmFires == Complete("alarm", TRUE)
FinishCompletes == Complete("finish", TRUE)
(* The call is over for gRPC: the peer left or the status was sent. *)
RpcDone ==
    /\ client = "left" \/ (status = "finish" /\ "finish" \notin pending)
    /\ Complete("done", TRUE)

(* A round is aggregated into a new version (the round of a version from   *)
(* before a restart may come again), or an administrator rolls back.       *)
Aggregated(r) ==
    /\ Len(versions) < MaxVersions
    /\ versions' = Append(versions, r)
    /\ latest' = Len(versions) + 1
RolledBack(v) ==
    /\ v \in DOMAIN versions /\ v # latest
    /\ latest' = v
    /\ UNCHANGED versions
ModelChanges ==
    /\ switches < MaxSwitches
    /\ switches' = switches + 1
    /\ \/ \E r \in ModelRounds : Aggregated(r)
       \/ \E v \in DOMAIN versions : RolledBack(v)
    /\ UNCHANGED <<callVars, client>>

LatestRound == IF latest = 0 THEN 0 ELSE versions[latest]

-----------------------------------------------------------------------------
(* Proceed: one action per kind of event *)

(* The event of this tag is handled; `started' are the operations the      *)
(* handler starts.                                                         *)
Handled(tag, started) ==
    /\ pending' = pending \union started
    /\ ready' = {e \in ready : e.tag # tag}

(* Mutant: a write under way is forgotten. *)
MaybeDeleteDuringWrite(tag, over) ==
    deleted' = (over /\ \A t \in {"alarm", "finish", "done"} \ {tag} : ~InFlight(t))
(* Mutant: the event's own flag is still set. *)
MaybeDeleteFlagKept(tag, over) ==
    deleted' = (over /\ \A t \in {"write", "alarm", "finish", "done"} : ~InFlight(t))
(* MaybeDeleteAfterTerminalEvent, called while handling `tag'. *)
MaybeDelete(tag, over) ==
    deleted' = (over /\ \A t \in {"write", "alarm", "finish", "done"} \ {tag} : ~InFlight(t))

(* Mutant: off by one. *)
IsNewLate == latest # 0 /\ LatestRound # lastSent /\ LatestRound > Received + 1
IsNew == latest # 0 /\ LatestRound # lastSent /\ LatestRound > Received

(* Mutant: the alarm is not set again. *)
WaitForModelNoAlarm(tag) ==
    /\ ~IsNew
    /\ status' = "stream"
    /\ Handled(tag, {})
    /\ UNCHANGED lastSent
(* Nothing new: look again when the alarm fires, in a second. *)
WaitForModel(tag) ==
    /\ ~IsNew
    /\ status' = "stream"
    /\ Handled(tag, {"alarm"})
    /\ UNCHANGED lastSent

SendModel(tag) ==
    /\ IsNew
    /\ status' = "stream"
    /\ lastSent' = LatestRound
    /\ Handled(tag, {"write"})

(* The client's KEM key is bad, or encryption fails. *)
SendFails(tag) ==
    /\ IsNew
    /\ status' = "finish"
    /\ lastSent' = LatestRound
    /\ Handled(tag, {"finish"})

SendOrWait(tag) ==
    /\ WaitForModel(tag) \/ SendModel(tag) \/ SendFails(tag)
    /\ UNCHANGED <<doneReceived, deleted, client, modelVars>>

HandleRequestAccepted ==
    /\ Ready("request") /\ ~deleted
    /\ SendOrWait("request")

(* Malformed identifiers, no certificate, or not registered under it. *)
HandleRequestRejected ==
    /\ Ready("request") /\ ~deleted
    /\ status' = "finish"
    /\ Handled("request", {"finish"})
    /\ UNCHANGED <<doneReceived, lastSent, deleted, client, modelVars>>

(* Mutant: the cancelled alarm may fire again. *)
HandleDoneAlarmKept ==
    /\ Ready("done") /\ ~deleted
    /\ doneReceived' = TRUE
    /\ ready' = {e \in ready : e.tag # "done"} \union
                {[tag |-> "alarm", ok |-> FALSE] : t \in pending \intersect {"alarm"}}
    /\ MaybeDelete("done", TRUE)
    /\ UNCHANGED <<status, pending, lastSent, client, modelVars>>
(* Cancels a pending alarm, whose event then comes with ok = FALSE. *)
HandleDone ==
    /\ Ready("done") /\ ~deleted
    /\ doneReceived' = TRUE
    /\ pending' = pending \ {"alarm"}
    /\ ready' = {e \in ready : e.tag # "done"} \union
                {[tag |-> "alarm", ok |-> FALSE] : t \in pending \intersect {"alarm"}}
    /\ MaybeDelete("done", TRUE)
    /\ UNCHANGED <<status, lastSent, client, modelVars>>

(* WRITE and ALARM events: stop if the stream is over, else look again. *)
HandleLastEvent(tag) ==
    /\ Handled(tag, {})
    /\ MaybeDelete(tag, doneReceived \/ status = "finish")
    /\ UNCHANGED <<status, doneReceived, lastSent, client, modelVars>>

HandleStreamEvent(tag) ==
    \E e \in ready :
        /\ e.tag = tag /\ ~deleted
        /\ IF ~e.ok \/ doneReceived THEN HandleLastEvent(tag) ELSE SendOrWait(tag)
HandleWrite == HandleStreamEvent("write")
HandleAlarm == HandleStreamEvent("alarm")

HandleFinish ==
    /\ Ready("finish") /\ ~deleted
    /\ HandleLastEvent("finish")

-----------------------------------------------------------------------------
(* The constructor has asked for the done notification and for a request.  *)
Init ==
    /\ status = "process"
    /\ pending = {"request", "done"}
    /\ ready = {}
    /\ doneReceived = FALSE
    /\ lastSent = 0
    /\ deleted = FALSE
    /\ client = "away"
    /\ latest = 0
    /\ versions = <<>>
    /\ switches = 0

Proceed ==
    \/ HandleRequestAccepted \/ HandleRequestRejected
    \/ HandleDone \/ HandleWrite \/ HandleAlarm \/ HandleFinish
Grpc == WriteCompletes \/ AlarmFires \/ FinishCompletes \/ RpcDone

Next == ClientCalls \/ ClientLeaves \/ Grpc \/ ModelChanges \/ Proceed

Spec == Init /\ [][Next]_vars

(* gRPC completes what it was given (a peer that stops reading is dropped  *)
(* by the transport, which is ClientLeaves), and the completion-queue      *)
(* threads handle every event.                                             *)
FairSpec ==
    /\ Spec
    /\ WF_vars(WriteCompletes) /\ WF_vars(AlarmFires)
    /\ WF_vars(FinishCompletes) /\ WF_vars(RpcDone)
    /\ WF_vars(HandleRequestAccepted \/ HandleRequestRejected)
    /\ WF_vars(HandleDone) /\ WF_vars(HandleWrite)
    /\ WF_vars(HandleAlarm) /\ WF_vars(HandleFinish)

-----------------------------------------------------------------------------
(* Properties *)

(* Types, and no operation is both pending and ready. *)
TypeOK ==
    /\ status \in {"process", "stream", "finish"}
    /\ pending \subseteq Operations
    /\ ready \subseteq [tag : Operations, ok : BOOLEAN]
    /\ \A e, f \in ready : e.tag \notin pending /\ (e.tag = f.tag => e = f)
    /\ doneReceived \in BOOLEAN /\ deleted \in BOOLEAN
    /\ client \in {"away", "connected", "left"}
    /\ latest \in 0 .. Len(versions)
    /\ lastSent \in ModelRounds \union {0}

(* The object never deletes itself while a write, an alarm or the final    *)
(* status is under way: gRPC would complete it into freed memory.          *)
NoDanglingOperation ==
    deleted => \A tag \in {"write", "alarm", "finish", "done"} : ~InFlight(tag)

(* gRPC allows one write at a time and the object has one alarm: an accepted *)
(* stream has exactly one thing under way until its end, so it neither     *)
(* overlaps operations nor falls asleep with nothing to wake it (after the *)
(* end, the done notification is still to come).                           *)
OneOperationUnderWay ==
    status # "process" /\ ~doneReceived =>
        \/ Cardinality({tag \in {"write", "alarm", "finish"} : InFlight(tag)}) = 1
        \/ (status = "finish" \/ client = "left") /\ InFlight("done")

(* Every call object is freed after its peer leaves or its status was      *)
(* sent: streams of clients that come and go do not pile up.               *)
EventuallyFreed == (client = "left" \/ status = "finish") ~> deleted

(* A round a connected client has not been sent reaches it unless another  *)
(* model replaces it first.                                                *)
NewRoundStreamed ==
    \A r \in ModelRounds :
        (client = "connected" /\ LatestRound = r /\ r > Received) ~>
            (lastSent = r \/ LatestRound # r \/ client = "left" \/ status = "finish")

(* README.md: completion-queue threading "to handle dynamic edge           *)
(* disconnects".  No thread is left with an event of a deleted call.       *)
DisconnectHandled == deleted => ready = {}
=============================================================================
