---------------------------- MODULE StreamCallProofs ----------------------------
(***************************************************************************)
(* Proofs about one StreamGlobalModelCall, for any models, switches of the *)
(* latest model and behaviour of the peer.                                 *)
(***************************************************************************)
EXTENDS StreamCall, TLAPS, FiniteSetTheorems

-----------------------------------------------------------------------------
(* The inductive invariant *)

(* The operations the stream itself runs on, besides the done notification.*)
Body == {"write", "alarm", "finish"}

Types == TypeOK /\ versions \in Seq(ModelRounds)

(* The request is under way exactly until it is handled, the done          *)
(* notification until it is received, ...                                  *)
NotificationsInv ==
    /\ InFlight("request") <=> status = "process"
    /\ InFlight("done") <=> ~doneReceived
    /\ client = "away" => "request" \in pending

(* ... and of the others there is never more than one, which fits the      *)
(* status.  There is one unless the end has come.                          *)
BodyInv ==
    /\ \A s, t \in Body : InFlight(s) /\ InFlight(t) => s = t
    /\ InFlight("write") \/ InFlight("alarm") => status = "stream"
    /\ InFlight("finish") => status = "finish"
    /\ status = "stream" /\ ~doneReceived =>
           InFlight("write") \/ InFlight("alarm") \/ client = "left"

(* Only a peer that left, or the end of the call, makes an operation fail. *)
FailuresInv == \A e \in ready : ~e.ok => client = "left" \/ doneReceived

StreamInv == Types /\ NotificationsInv /\ BodyInv /\ FailuresInv /\ NoDanglingOperation

-----------------------------------------------------------------------------
(* What each kind of step does to the operations under way *)

(* An operation that is completed stays under way until it is handled. *)
Completed(tag, ok) ==
    /\ tag \in pending
    /\ pending' = pending \ {tag}
    /\ ready' = ready \union {[tag |-> tag, ok |-> ok]}
    /\ UNCHANGED <<status, doneReceived, lastSent, deleted, latest, versions>>

LEMMA CompletedKeeps ==
    ASSUME NEW tag, NEW ok, Completed(tag, ok)
    PROVE  \A t : InFlight(t)' <=> InFlight(t)
<1>1. /\ pending' = pending \ {tag} /\ tag \in pending
      /\ \A e : e \in ready' <=> e \in ready \/ e = [tag |-> tag, ok |-> ok]
    BY DEF Completed
<1>2. [tag |-> tag, ok |-> ok].tag = tag
    OBVIOUS
<1>3. \A t : Ready(t)' <=> Ready(t) \/ t = tag
    BY <1>1, <1>2, Zenon DEF Ready
<1> QED
    BY <1>1, <1>3 DEF InFlight

(* A handled event is over, what its handler started is under way. *)
LEMMA HandledMoves ==
    ASSUME Types, NEW tag, NEW started, Ready(tag), Handled(tag, started)
    PROVE  \A t : InFlight(t)' <=> t \in started \/ (InFlight(t) /\ t # tag)
<1>1. tag \notin pending
    BY DEF Types, TypeOK, Ready
<1> QED
    BY <1>1, Zenon DEF Handled, InFlight, Ready

LEMMA DoneMoves ==
    ASSUME Types, HandleDone
    PROVE  \A t : InFlight(t)' <=> InFlight(t) /\ t # "done"
<1>1. "done" \notin pending
    BY DEF HandleDone, Types, TypeOK, Ready
<1>2. /\ pending' = pending \ {"alarm"}
      /\ \A e : e \in ready' <=> \/ e \in ready /\ e.tag # "done"
                                 \/ "alarm" \in pending /\ e = [tag |-> "alarm", ok |-> FALSE]
    BY DEF HandleDone
<1>3. [tag |-> "alarm", ok |-> FALSE].tag = "alarm"
    OBVIOUS
<1>4. ASSUME NEW t
      PROVE  Ready(t)' <=> (Ready(t) /\ t # "done") \/ (t = "alarm" /\ "alarm" \in pending)
    BY <1>2, <1>3, Zenon DEF Ready
<1> QED
    BY <1>1, <1>2, <1>4 DEF InFlight

-----------------------------------------------------------------------------
(* Every step preserves the types, ... *)

LEMMA CompletedTypes ==
    ASSUME Types, NEW tag \in Operations, NEW ok \in BOOLEAN, Completed(tag, ok),
           client' \in {"away", "connected", "left"}
    PROVE  Types'
<1>1. /\ pending' = pending \ {tag} /\ tag \in pending
      /\ ready' = ready \union {[tag |-> tag, ok |-> ok]}
      /\ UNCHANGED <<status, doneReceived, lastSent, deleted, latest, versions>>
    BY DEF Completed
<1>2. [tag |-> tag, ok |-> ok] \in [tag : Operations, ok : BOOLEAN]
    OBVIOUS
<1>3. \A e, f \in ready' : e.tag \notin pending' /\ (e.tag = f.tag => e = f)
    BY <1>1 DEF Types, TypeOK
<1> QED
    BY <1>1, <1>2, <1>3 DEF Types, TypeOK

LEMMA HandledTypes ==
    ASSUME Types, NEW tag, NEW started \in SUBSET Operations, Ready(tag),
           \A t \in started : t = tag \/ ~InFlight(t),
           Handled(tag, started)
    PROVE  /\ pending' \subseteq Operations
           /\ ready' \subseteq [tag : Operations, ok : BOOLEAN]
           /\ \A e, f \in ready' : e.tag \notin pending' /\ (e.tag = f.tag => e = f)
<1>1. pending' = pending \union started /\ ready' = {e \in ready : e.tag # tag}
    BY DEF Handled
<1>2. \A e \in ready : e.tag # tag => e.tag \notin started
    BY DEF InFlight, Ready
<1> QED
    BY <1>1, <1>2 DEF Types, TypeOK

(* Looking for a model starts one operation, and only one. *)
Starts(tag) == \E t \in Body : /\ Handled(tag, {t})
                               /\ status' = IF t = "finish" THEN "finish" ELSE "stream"

LEMMA SendOrWaitShape ==
    ASSUME NEW tag, SendOrWait(tag)
    PROVE  /\ Starts(tag)
           /\ \/ lastSent' = lastSent
              \/ latest # 0 /\ lastSent' = LatestRound
           /\ UNCHANGED <<doneReceived, deleted, client, modelVars>>
<1>1. UNCHANGED <<doneReceived, deleted, client, modelVars>>
    BY DEF SendOrWait
<1>2. CASE WaitForModel(tag)
    BY <1>1, <1>2 DEF WaitForModel, Body, Starts
<1>3. CASE SendModel(tag)
    BY <1>1, <1>3 DEF SendModel, Body, IsNew, Starts
<1>4. CASE SendFails(tag)
    BY <1>1, <1>4 DEF SendFails, Body, IsNew, Starts
<1> QED
    BY <1>2, <1>3, <1>4 DEF SendOrWait

(* An event that lets the stream go on: the request, or the one operation  *)
(* that was under way.                                                     *)
GoesOn(tag) ==
    /\ Ready(tag) /\ ~deleted
    /\ \A t \in Body : t = tag \/ ~InFlight(t)

LEMMA SendOrWaitTypes ==
    ASSUME Types, NEW tag, GoesOn(tag), SendOrWait(tag)
    PROVE  Types'
<1>0. Starts(tag)
    BY SendOrWaitShape
<1>1. PICK t \in Body : /\ Handled(tag, {t})
                        /\ status' = IF t = "finish" THEN "finish" ELSE "stream"
    BY <1>0 DEF Starts
<1>2. /\ pending' \subseteq Operations
      /\ ready' \subseteq [tag : Operations, ok : BOOLEAN]
      /\ \A e, f \in ready' : e.tag \notin pending' /\ (e.tag = f.tag => e = f)
    <2>1. {t} \in SUBSET Operations
        BY DEF Body, Operations
    <2> QED
        BY <1>1, <2>1, HandledTypes DEF GoesOn
<1>3. UNCHANGED <<doneReceived, deleted, client, latest, versions>>
    BY SendOrWaitShape DEF modelVars
<1>4. lastSent' \in ModelRounds \union {0}
    <2>1. latest # 0 => LatestRound \in ModelRounds
        BY DEF LatestRound, Types, TypeOK
    <2> QED
        BY <2>1, SendOrWaitShape DEF Types, TypeOK
<1> QED
    BY <1>1, <1>2, <1>3, <1>4 DEF Types, TypeOK

LEMMA ModelChangesTypes ==
    ASSUME Types, ModelChanges
    PROVE  Types'
<1>1. UNCHANGED <<status, pending, ready, doneReceived, lastSent, deleted, client>>
    BY DEF ModelChanges, callVars
<1>2. versions' \in Seq(ModelRounds) /\ latest' \in 0 .. Len(versions')
    <2>1. CASE \E r \in ModelRounds : Aggregated(r)
        BY <2>1 DEF Aggregated, Types, TypeOK
    <2>2. CASE \E v \in DOMAIN versions : RolledBack(v)
        BY <2>2 DEF RolledBack, Types, TypeOK
    <2> QED
        BY <2>1, <2>2 DEF ModelChanges
<1> QED
    BY <1>1, <1>2 DEF Types, TypeOK

LEMMA HandleDoneTypes ==
    ASSUME Types, HandleDone
    PROVE  Types'
<1>1. /\ doneReceived' = TRUE
      /\ pending' = pending \ {"alarm"}
      /\ \A e : e \in ready' <=> \/ e \in ready /\ e.tag # "done"
                                 \/ "alarm" \in pending /\ e = [tag |-> "alarm", ok |-> FALSE]
      /\ UNCHANGED <<status, lastSent, client, latest, versions>>
    BY DEF HandleDone, modelVars
<1>2. deleted' \in BOOLEAN
    BY DEF HandleDone, MaybeDelete
<1>3. [tag |-> "alarm", ok |-> FALSE] \in [tag : Operations, ok : BOOLEAN]
    BY DEF Operations
<1>4. ready' \subseteq [tag : Operations, ok : BOOLEAN]
    BY <1>1, <1>3 DEF Types, TypeOK
<1>5. \A e, f \in ready' : e.tag \notin pending' /\ (e.tag = f.tag => e = f)
    <2> DEFINE cancelled == [tag |-> "alarm", ok |-> FALSE]
    <2>1. cancelled.tag = "alarm"
        OBVIOUS
    <2>2. \A e, f \in ready : e.tag \notin pending /\ (e.tag = f.tag => e = f)
        BY DEF Types, TypeOK
    <2>3. \A e \in ready' : e \in ready \/ ("alarm" \in pending /\ e = cancelled)
        BY <1>1
    <2> HIDE DEF cancelled
    <2> QED
        BY <1>1, <2>1, <2>2, <2>3
<1> QED
    BY <1>1, <1>2, <1>4, <1>5 DEF Types, TypeOK

LEMMA HandleLastEventTypes ==
    ASSUME Types, NEW tag, Ready(tag), HandleLastEvent(tag)
    PROVE  Types'
<1>1. /\ Handled(tag, {})
      /\ UNCHANGED <<status, doneReceived, lastSent, client, latest, versions>>
    BY DEF HandleLastEvent, modelVars
<1>2. deleted' \in BOOLEAN
    BY DEF HandleLastEvent, MaybeDelete
<1>3. /\ pending' \subseteq Operations
      /\ ready' \subseteq [tag : Operations, ok : BOOLEAN]
      /\ \A e, f \in ready' : e.tag \notin pending' /\ (e.tag = f.tag => e = f)
    BY <1>1, HandledTypes
<1> QED
    BY <1>1, <1>2, <1>3 DEF Types, TypeOK

-----------------------------------------------------------------------------
(* ... and the other parts of the invariant. *)

LEMMA QuietStep ==
    ASSUME StreamInv, Types', FailuresInv',
           \A t : InFlight(t)' <=> InFlight(t),
           UNCHANGED <<status, doneReceived, deleted>>,
           client = "left" => client' = "left",
           client' = "away" => "request" \in pending'
    PROVE  StreamInv'
<1>1. NotificationsInv'
    BY DEF StreamInv, NotificationsInv
<1>2. BodyInv'
    BY DEF StreamInv, BodyInv
<1>3. NoDanglingOperation'
    BY DEF StreamInv, NoDanglingOperation
<1> QED
    BY <1>1, <1>2, <1>3 DEF StreamInv

LEMMA CompletedStep ==
    ASSUME StreamInv, NEW tag \in Operations, NEW ok \in BOOLEAN, Completed(tag, ok),
           ok \/ client = "left",
           client = "left" => client' = "left",
           client' \in {"connected", "left"} \/ (tag # "request" /\ client' = client)
    PROVE  StreamInv'
<1>1. Types'
    BY CompletedTypes DEF StreamInv, Types, TypeOK
<1>2. /\ pending' = pending \ {tag}
      /\ \A e \in ready' : e \in ready \/ e = [tag |-> tag, ok |-> ok]
      /\ UNCHANGED <<status, doneReceived, deleted>>
    BY DEF Completed
<1>3. FailuresInv'
    BY <1>2 DEF StreamInv, FailuresInv
<1>4. client' = "away" => "request" \in pending'
    BY <1>2 DEF StreamInv, NotificationsInv
<1> QED
    BY <1>1, <1>2, <1>3, <1>4, CompletedKeeps, QuietStep

(* The peer, gRPC and the models. *)
LEMMA OutsideStep ==
    ASSUME StreamInv, ClientCalls \/ ClientLeaves \/ Grpc \/ ModelChanges
    PROVE  StreamInv'
<1>1. CASE ClientCalls
    <2>1. "request" \in pending /\ client' = "connected" /\ client # "left"
        BY <1>1 DEF ClientCalls, StreamInv, NotificationsInv
    <2>2. Completed("request", TRUE)
        BY <1>1, <2>1 DEF ClientCalls, Completed, modelVars
    <2> QED
        BY <2>1, <2>2, CompletedStep DEF Operations
<1>2. CASE ClientLeaves
    <2>1. /\ client' = "left"
          /\ UNCHANGED <<status, pending, ready, doneReceived, lastSent, deleted,
                         latest, versions>>
        BY <1>2 DEF ClientLeaves, callVars, modelVars
    <2>2. Types' /\ FailuresInv'
        BY <2>1 DEF StreamInv, Types, TypeOK, FailuresInv
    <2> QED
        BY <2>1, <2>2, QuietStep DEF InFlight, Ready
<1>3. CASE Grpc
    <2>1. PICK tag \in Operations \ {"request"}, ok \in BOOLEAN :
              Complete(tag, ok) /\ (ok \/ client = "left")
        BY <1>3 DEF Grpc, WriteCompletes, AlarmFires, FinishCompletes, RpcDone, Operations
    <2>2. Completed(tag, ok) /\ client' = client
        BY <2>1 DEF Complete, Completed, modelVars
    <2> QED
        BY <2>1, <2>2, CompletedStep
<1>4. CASE ModelChanges
    <2>1. UNCHANGED <<status, pending, ready, doneReceived, lastSent, deleted, client>>
        BY <1>4 DEF ModelChanges, callVars
    <2>2. Types' /\ FailuresInv'
        BY <1>4, <2>1, ModelChangesTypes DEF StreamInv, FailuresInv
    <2>3. client' = "away" => "request" \in pending'
        BY <2>1 DEF StreamInv, NotificationsInv
    <2> QED
        BY <2>1, <2>2, <2>3, QuietStep DEF InFlight, Ready
<1> QED
    BY <1>1, <1>2, <1>3, <1>4

(* A handler that starts one operation; the object lives on. *)
LEMMA StartsStep ==
    ASSUME StreamInv, NEW tag \in Body \union {"request"}, GoesOn(tag), Starts(tag), Types',
           UNCHANGED <<doneReceived, deleted, client>>
    PROVE  StreamInv'
<1>1. PICK s \in Body : /\ Handled(tag, {s})
                        /\ status' = IF s = "finish" THEN "finish" ELSE "stream"
    BY DEF Starts
<1>2. \A t : InFlight(t)' <=> t = s \/ (InFlight(t) /\ t # tag)
    BY <1>1, HandledMoves DEF GoesOn, StreamInv
<1>3. \A t \in Body : InFlight(t)' <=> t = s
    BY <1>2 DEF GoesOn
<1>4. NotificationsInv'
    <2>1. InFlight(tag) /\ tag # "done" /\ s \notin {"request", "done"}
        BY DEF GoesOn, InFlight, Body
    <2>2. status' # "process" /\ (tag # "request" => status # "process")
        BY <1>1, <2>1 DEF StreamInv, BodyInv, Body
    <2>3. client # "away"
        BY <2>1, <2>2 DEF StreamInv, NotificationsInv, Types, TypeOK, GoesOn, Ready, InFlight
    <2> QED
        BY <1>2, <2>1, <2>2, <2>3 DEF StreamInv, NotificationsInv
<1>5. BodyInv'
    BY <1>1, <1>3 DEF BodyInv, Body
<1>6. FailuresInv'
    BY <1>1 DEF Handled, StreamInv, FailuresInv
<1>7. NoDanglingOperation'
    BY DEF GoesOn, NoDanglingOperation
<1> QED
    BY <1>4, <1>5, <1>6, <1>7 DEF StreamInv

LEMMA HandleRequestStep ==
    ASSUME StreamInv, HandleRequestAccepted \/ HandleRequestRejected
    PROVE  StreamInv'
<1>1. GoesOn("request")
    <2>1. Ready("request") /\ ~deleted
        BY DEF HandleRequestAccepted, HandleRequestRejected
    <2>2. status = "process"
        BY <2>1 DEF StreamInv, NotificationsInv, InFlight
    <2> QED
        BY <2>1, <2>2 DEF GoesOn, StreamInv, BodyInv, Body
<1>2. CASE HandleRequestAccepted
    <2>1. SendOrWait("request")
        BY <1>2 DEF HandleRequestAccepted
    <2> QED
        BY <1>1, <2>1, SendOrWaitShape, SendOrWaitTypes, StartsStep DEF StreamInv
<1>3. CASE HandleRequestRejected
    <2>1. /\ status' = "finish" /\ Handled("request", {"finish"})
          /\ UNCHANGED <<doneReceived, lastSent, deleted, client, latest, versions>>
        BY <1>3 DEF HandleRequestRejected, modelVars
    <2>2. Starts("request")
        BY <2>1 DEF Starts, Body
    <2>3. ~InFlight("finish")
        BY <1>1 DEF GoesOn, Body
    <2>4. /\ pending' \subseteq Operations
          /\ ready' \subseteq [tag : Operations, ok : BOOLEAN]
          /\ \A e, f \in ready' : e.tag \notin pending' /\ (e.tag = f.tag => e = f)
        BY <1>1, <2>1, <2>3, HandledTypes DEF GoesOn, StreamInv, Operations
    <2>5. Types'
        BY <2>1, <2>4 DEF StreamInv, Types, TypeOK
    <2> QED
        BY <1>1, <2>1, <2>2, <2>5, StartsStep
<1> QED
    BY <1>2, <1>3

LEMMA HandleDoneStep ==
    ASSUME StreamInv, HandleDone
    PROVE  StreamInv'
<1>1. /\ doneReceived' = TRUE
      /\ UNCHANGED <<status, client>>
      /\ pending' = pending \ {"alarm"}
      /\ deleted' => \A t \in Body : ~InFlight(t)
    BY DEF HandleDone, MaybeDelete, Body
<1>2. Types'
    BY HandleDoneTypes DEF StreamInv
<1>3. \A t : InFlight(t)' <=> InFlight(t) /\ t # "done"
    BY DoneMoves DEF StreamInv
<1>4. NotificationsInv'
    BY <1>1, <1>3 DEF StreamInv, NotificationsInv
<1>5. BodyInv'
    BY <1>1, <1>3 DEF StreamInv, BodyInv, Body
<1>6. FailuresInv' /\ NoDanglingOperation'
    BY <1>1, <1>3 DEF FailuresInv, NoDanglingOperation, Body
<1> QED
    BY <1>2, <1>4, <1>5, <1>6 DEF StreamInv

(* The end of the stream; the object goes once nothing is under way. *)
LEMMA HandleLastEventStep ==
    ASSUME StreamInv, NEW tag \in Body, Ready(tag), HandleLastEvent(tag),
           tag = "finish" \/ doneReceived \/ client = "left"
    PROVE  StreamInv'
<1>1. /\ Handled(tag, {})
      /\ UNCHANGED <<status, doneReceived, client>>
      /\ deleted' => \A t \in {"write", "alarm", "finish", "done"} \ {tag} : ~InFlight(t)
    BY DEF HandleLastEvent, MaybeDelete
<1>2. Types'
    BY HandleLastEventTypes DEF StreamInv
<1>3. \A t : InFlight(t)' <=> InFlight(t) /\ t # tag
    BY <1>1, HandledMoves DEF StreamInv
<1>4. tag \notin {"request", "done"} /\ InFlight(tag)
    BY DEF Body, InFlight
<1>5. NotificationsInv'
    BY <1>1, <1>3, <1>4 DEF StreamInv, NotificationsInv, Handled
<1>6. BodyInv'
    BY <1>1, <1>3, <1>4 DEF StreamInv, BodyInv, Body
<1>7. FailuresInv'
    BY <1>1 DEF StreamInv, FailuresInv, Handled
<1>8. NoDanglingOperation'
    BY <1>1, <1>3 DEF NoDanglingOperation
<1> QED
    BY <1>2, <1>5, <1>6, <1>7, <1>8 DEF StreamInv

LEMMA HandleStreamEventStep ==
    ASSUME StreamInv, NEW tag \in {"write", "alarm"}, HandleStreamEvent(tag)
    PROVE  StreamInv'
<1>1. PICK e \in ready :
          /\ e.tag = tag /\ ~deleted
          /\ IF ~e.ok \/ doneReceived THEN HandleLastEvent(tag) ELSE SendOrWait(tag)
    BY DEF HandleStreamEvent
<1>2. Ready(tag) /\ tag \in Body /\ ~deleted
    BY <1>1 DEF Ready, Body
<1>3. CASE ~e.ok \/ doneReceived
    <2>1. client = "left" \/ doneReceived
        BY <1>3 DEF StreamInv, FailuresInv
    <2> QED
        BY <1>1, <1>2, <1>3, <2>1, HandleLastEventStep
<1>4. CASE ~(~e.ok \/ doneReceived)
    <2>1. GoesOn(tag)
        BY <1>2 DEF GoesOn, StreamInv, BodyInv, InFlight
    <2>2. SendOrWait(tag)
        BY <1>1, <1>4
    <2> QED
        BY <1>2, <2>1, <2>2, SendOrWaitShape, SendOrWaitTypes, StartsStep DEF StreamInv
<1> QED
    BY <1>3, <1>4

-----------------------------------------------------------------------------
(* The theorems *)

LEMMA StreamInit == Init => StreamInv
<1> SUFFICES ASSUME Init PROVE StreamInv
    OBVIOUS
<1> USE DEF Init
<1>1. Types
    <2>1. <<>> \in Seq(ModelRounds) /\ 0 \in 0 .. Len(<<>>)
        OBVIOUS
    <2>2. latest \in 0 .. Len(versions)
        BY <2>1
    <2> QED
        BY <2>1, <2>2 DEF Types, TypeOK, Operations
<1>2. \A t : InFlight(t) <=> t \in {"request", "done"}
    BY DEF InFlight, Ready
<1>3. NotificationsInv
    BY <1>2 DEF NotificationsInv
<1>4. BodyInv /\ FailuresInv /\ NoDanglingOperation
    BY <1>2 DEF BodyInv, Body, FailuresInv, NoDanglingOperation
<1> QED
    BY <1>1, <1>3, <1>4 DEF StreamInv

LEMMA StreamNext == StreamInv /\ [Next]_vars => StreamInv'
<1> SUFFICES ASSUME StreamInv, [Next]_vars PROVE StreamInv'
    OBVIOUS
<1>1. CASE ClientCalls \/ ClientLeaves \/ Grpc \/ ModelChanges
    BY <1>1, OutsideStep
<1>2. CASE HandleRequestAccepted \/ HandleRequestRejected
    BY <1>2, HandleRequestStep
<1>3. CASE HandleDone
    BY <1>3, HandleDoneStep
<1>4. CASE HandleWrite \/ HandleAlarm
    BY <1>4, HandleStreamEventStep DEF HandleWrite, HandleAlarm
<1>5. CASE HandleFinish
    BY <1>5, HandleLastEventStep DEF HandleFinish, Body
<1>6. CASE UNCHANGED vars
    <2>1. Types' /\ FailuresInv'
        BY <1>6 DEF vars, callVars, modelVars, StreamInv, Types, TypeOK, FailuresInv
    <2>2. client' = "away" => "request" \in pending'
        BY <1>6 DEF vars, callVars, StreamInv, NotificationsInv
    <2> QED
        BY <1>6, <2>1, <2>2, QuietStep DEF vars, callVars, InFlight, Ready
<1> QED
    BY <1>1, <1>2, <1>3, <1>4, <1>5, <1>6 DEF Next, Proceed

(* The invariant of the call object, over all orders in which gRPC         *)
(* completes its operations and the queue's threads handle their events.   *)
THEOREM StreamInvariant == Spec => []StreamInv
BY StreamInit, StreamNext, PTL DEF Spec

(* Types, and each operation is pending or ready at most once: gRPC never  *)
(* holds a tag of the object twice.                                        *)
THEOREM TypeCorrect == Spec => []TypeOK
<1>1. StreamInv => TypeOK
    BY DEF StreamInv, Types
<1> QED
    BY <1>1, StreamInvariant, PTL

(* MaybeDeleteAfterTerminalEvent never frees the object under an operation *)
(* gRPC still holds.                                                       *)
THEOREM NoDanglingOperationHolds == Spec => []NoDanglingOperation
<1>1. StreamInv => NoDanglingOperation
    BY DEF StreamInv
<1> QED
    BY <1>1, StreamInvariant, PTL

(* A live stream has exactly one write, alarm or final status under way.   *)
THEOREM OneOperationHolds == Spec => []OneOperationUnderWay
<1>1. StreamInv => OneOperationUnderWay
    <2> SUFFICES ASSUME StreamInv, status # "process", ~doneReceived,
                        ~((status = "finish" \/ client = "left") /\ InFlight("done"))
                 PROVE  Cardinality({tag \in {"write", "alarm", "finish"} : InFlight(tag)}) = 1
        BY DEF OneOperationUnderWay
    <2>1. status = "stream"
        BY DEF StreamInv, NotificationsInv, Types, TypeOK
    <2>2. PICK t \in Body : InFlight(t)
        BY <2>1 DEF StreamInv, NotificationsInv, BodyInv, Body
    <2>3. {tag \in {"write", "alarm", "finish"} : InFlight(tag)} = {t}
        BY <2>2 DEF StreamInv, BodyInv, Body
    <2> QED
        BY <2>3, FS_Singleton
<1> QED
    BY <1>1, StreamInvariant, PTL

=============================================================================
