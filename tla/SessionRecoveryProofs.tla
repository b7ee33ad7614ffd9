----------------------- MODULE SessionRecoveryProofs -----------------------
(***************************************************************************)
(* Facts about SessionRecovery for every set of handles, every number of   *)
(* operations and every environment: its types, that the Draining phase is *)
(* never left behind, that the write mutex is always given back, and that  *)
(* a session given up is revived by nothing but the end of a drain.  Then, *)
(* for an owner without rivals, the promises of the drain: no operation    *)
(* reads another's response, a Ready session's wire is clean, and only a   *)
(* fault kills a session.                                                  *)
(***************************************************************************)
EXTENDS SessionRecovery, TLAPS

----------------------------------------------------------------------------
(* Types *)

(* What the constructors of packets build. *)
LEMMA PacketTypes ==
    /\ Break \in ToServer /\ Reset \in ToServer
    /\ \A n \in 0..MaxOps : Req(n) \in ToServer
    /\ Marker \in ToClient
    /\ \A n \in 0..MaxOps, e \in BOOLEAN, x \in {"none", "cancel", "fatal"} :
           Data(n, e, x) \in ToClient
  BY DEF ToServer, ToClient

(* What a packet taken from either direction carries. *)
LEMMA PacketFields ==
    /\ \A m \in ToServer : m.op \in 0..MaxOps
    /\ \A m \in ToClient : m.op \in 0..MaxOps
  BY SessionAssumption DEF ToServer, Req, Break, Reset, ToClient, Marker, Data

(* Appending to and taking from a channel keeps it a sequence of packets. *)
LEMMA Channel ==
    ASSUME NEW S, NEW q \in Seq(S)
    PROVE  /\ \A m \in S : Append(q, m) \in Seq(S)
           /\ q # <<>> => Head(q) \in S /\ Tail(q) \in Seq(S)
  OBVIOUS

(* ... and so does appending the two packets that answer a RESET. *)
LEMMA AppendTwo ==
    ASSUME NEW S, NEW q \in Seq(S), NEW a \in S, NEW b \in S
    PROVE  q \o <<a, b>> \in Seq(S)
<1>1. <<a, b>> \in Seq(S)
  OBVIOUS
<1> QED
  BY <1>1

(* Sending any marker keeps the client's half of the wire well formed. *)
LEMMA SendTypes ==
    ASSUME WireTypes, op \in 0..MaxOps
    PROVE  /\ Append(c2s, Req(op)) \in Seq(ToServer)
           /\ Append(c2s, Break) \in Seq(ToServer)
           /\ Append(c2s, Reset) \in Seq(ToServer)
  BY PacketTypes, Channel DEF WireTypes

(* The owner's starting and sending steps keep the types. *)
LEMMA StartKeepsTypes ==
    ASSUME TypeOK,
           \/ \E k \in {"plain", "ahead"} : Begin(k) \/ BeginOperation \/ SendRequest \/ Flushed
           \/ ReadAhead
    PROVE  TypeOK'
<1> USE DEF TypeOK, handles, server
<1>1. CASE \E k \in {"plain", "ahead"} : Begin(k)
  <2>1. OwnerTypes'
    <3>1. PICK k \in {"plain", "ahead"} : Begin(k)
      BY <1>1
    <3>2. op' \in 0..MaxOps /\ resp' \subseteq 0..MaxOps
      BY <3>1, SessionAssumption DEF Begin, OwnerTypes
    <3>3. /\ phase' \in Phases /\ pc' \in InOperation \cup DrainSteps
          /\ then' \in {"plain", "ahead", "return", "close"} \cup InOperation
      BY <3>1 DEF Begin, StartOf, OwnerTypes, Phases, InOperation, DrainSteps
    <3>4. pc' # "mark"
      BY <3>3 DEF InOperation, Reading, DrainSteps
    <3> QED
      BY <3>1, <3>2, <3>3, <3>4 DEF Begin, OwnerTypes
  <2>2. SharedTypes'
    BY <1>1 DEF SharedTypes, Begin
  <2>3. WireTypes'
    BY <1>1 DEF WireTypes, Begin
  <2> QED
    BY <2>1, <2>2, <2>3
<1>2. CASE BeginOperation
  <2>1. OwnerTypes'
    BY <1>2 DEF BeginOperation, OwnerTypes, InOperation, Reading, DrainSteps, Phases
  <2>2. SharedTypes'
    BY <1>2 DEF SharedTypes, BeginOperation
  <2>3. WireTypes'
    BY <1>2 DEF WireTypes, BeginOperation
  <2> QED
    BY <2>1, <2>2, <2>3
<1>3. CASE SendRequest
  <2>1. OwnerTypes'
    BY <1>3 DEF SendRequest, OwnerTypes, InOperation, Reading, DrainSteps, Phases
  <2>2. SharedTypes'
    BY <1>3 DEF SharedTypes, SendRequest
  <2>3. WireTypes'
    BY <1>3, SendTypes DEF WireTypes, SendRequest, OwnerTypes
  <2> QED
    BY <2>1, <2>2, <2>3
<1>4. CASE Flushed
  <2>1. OwnerTypes'
    <3>1. phase' \in Phases /\ pc' \in {"idle", "recover", "read"} /\ ahead' \in BOOLEAN
      BY <1>4 DEF Flushed, Arm, Returned, OwnerTypes, Phases
    <3> QED
      BY <1>4, <3>1 DEF Flushed, OwnerTypes, InOperation, Reading
  <2>2. SharedTypes'
    BY <1>4 DEF SharedTypes, Flushed
  <2>3. WireTypes'
    BY <1>4 DEF WireTypes, Flushed
  <2> QED
    BY <2>1, <2>2, <2>3
<1>5. CASE ReadAhead
  <2>1. OwnerTypes'
    <3>1. phase' \in Phases /\ pc' \in {"idle", "recover", "read"}
      BY <1>5 DEF ReadAhead, Arm, Returned, OwnerTypes, Phases
    <3> QED
      BY <1>5, <3>1 DEF ReadAhead, OwnerTypes, InOperation, Reading
  <2>2. SharedTypes'
    BY <1>5 DEF SharedTypes, ReadAhead
  <2>3. WireTypes'
    BY <1>5 DEF WireTypes, ReadAhead
  <2> QED
    BY <2>1, <2>2, <2>3
<1> QED
  BY <1>1, <1>2, <1>3, <1>4, <1>5

(* The owner's reading steps keep the types. *)
LEMMA ReadKeepsTypes ==
    ASSUME TypeOK,
           \/ ReadData \/ ReadMarker \/ SendReset \/ ReadGarbled
    PROVE  TypeOK'
<1> USE DEF TypeOK, handles, server
<1>1. CASE ReadData
  <2>1. OwnerTypes'
    <3>1. Head(s2c).op \in 0..MaxOps
      BY <1>1, PacketFields, Channel DEF ReadData, Incoming, WireTypes
    <3>2. phase' \in Phases /\ dead' \in BOOLEAN /\ lastErr' \in BOOLEAN
      BY <1>1 DEF ReadData, OwnerMarkDead, CompleteOperation, OwnerTypes, Phases
    <3>3. pc' \in {"idle", "recover", "read"}
      BY <1>1 DEF ReadData, Returned
    <3> QED
      BY <1>1, <3>1, <3>2, <3>3 DEF ReadData, OwnerTypes, InOperation, Reading
  <2>2. SharedTypes'
    BY <1>1 DEF SharedTypes, ReadData
  <2>3. WireTypes'
    BY <1>1, Channel DEF WireTypes, ReadData, Incoming
  <2> QED
    BY <2>1, <2>2, <2>3
<1>2. CASE ReadMarker
  <2>1. OwnerTypes'
    BY <1>2 DEF ReadMarker, OwnerTypes, InOperation, Reading, DrainSteps, Phases
  <2>2. SharedTypes'
    BY <1>2 DEF SharedTypes, ReadMarker
  <2>3. WireTypes'
    BY <1>2, Channel DEF WireTypes, ReadMarker, Incoming
  <2> QED
    BY <2>1, <2>2, <2>3
<1>3. CASE SendReset
  <2>1. OwnerTypes'
    BY <1>3 DEF SendReset, OwnerTypes, InOperation, Reading, DrainSteps, Phases
  <2>2. SharedTypes'
    BY <1>3 DEF SharedTypes, SendReset
  <2>3. WireTypes'
    BY <1>3, SendTypes DEF WireTypes, SendReset, OwnerTypes
  <2> QED
    BY <2>1, <2>2, <2>3
<1>4. CASE ReadGarbled
  <2>1. OwnerTypes'
    BY <1>4 DEF ReadGarbled, OwnerTypes, InOperation, Reading, DrainSteps, Phases, Returned
  <2>2. SharedTypes'
    BY <1>4 DEF SharedTypes, ReadGarbled
  <2>3. WireTypes'
    BY <1>4 DEF WireTypes, ReadGarbled
  <2> QED
    BY <2>1, <2>2, <2>3
<1> QED
  BY <1>1, <1>2, <1>3, <1>4

(* The ways an operation is abandoned keep the types. *)
LEMMA AbandonKeepsTypes ==
    ASSUME TypeOK,
           \/ AbandonRead \/ AbandonSend \/ SendFails \/ CallTimeout
           \/ RejectClosed \/ OwnerCancel \/ ReconcileCancel
    PROVE  TypeOK'
<1> USE DEF TypeOK, handles, server
<1>1. CASE AbandonRead
  <2>1. OwnerTypes'
    <3>1. phase' \in Phases /\ dead' \in BOOLEAN
      BY <1>1 DEF AbandonRead, OwnerMarkDead, PhaseAfterDrop, MarkBreakRequired, OwnerTypes, Phases
    <3>2. pc' \in {"idle", "recover"}
      BY <1>1 DEF AbandonRead, Returned
    <3> QED
      BY <1>1, <3>1, <3>2 DEF AbandonRead, OwnerTypes
  <2>2. SharedTypes'
    BY <1>1 DEF SharedTypes, AbandonRead
  <2>3. WireTypes'
    BY <1>1 DEF WireTypes, AbandonRead
  <2> QED
    BY <2>1, <2>2, <2>3
<1>2. CASE AbandonSend
  <2>1. OwnerTypes'
    <3>1. phase' \in Phases /\ dead' \in BOOLEAN
      BY <1>2 DEF AbandonSend, OwnerMarkDead, PhaseAfterDrop, MarkBreakRequired, OwnerTypes,
         Phases
    <3>2. pc' \in {"idle", "recover"}
      BY <1>2 DEF AbandonSend, Returned
    <3> QED
      BY <1>2, <3>1, <3>2 DEF AbandonSend, OwnerTypes
  <2>2. SharedTypes'
    BY <1>2 DEF SharedTypes, AbandonSend, Unlock
  <2>3. WireTypes'
    BY <1>2 DEF WireTypes, AbandonSend
  <2> QED
    BY <2>1, <2>2, <2>3
<1>3. CASE SendFails
  <2>1. OwnerTypes'
    <3>1. phase' \in Phases /\ dead' \in BOOLEAN
      BY <1>3 DEF SendFails, OwnerMarkDead, OwnerTypes, Phases
    <3>2. pc' \in {"idle", "recover"}
      BY <1>3 DEF SendFails, Returned
    <3> QED
      BY <1>3, <3>1, <3>2 DEF SendFails, OwnerTypes
  <2>2. SharedTypes'
    BY <1>3 DEF SharedTypes, SendFails, Unlock
  <2>3. WireTypes'
    BY <1>3 DEF WireTypes, SendFails
  <2> QED
    BY <2>1, <2>2, <2>3
<1>4. CASE CallTimeout
  <2>1. OwnerTypes'
    <3>1. PICK next \in {"return", "close"} : StartDrain(PhaseAfterDrop, "break", next, Returned)
      BY <1>4 DEF CallTimeout
    <3>2. /\ phase' \in Phases /\ pc' \in {"break", "idle", "recover"}
          /\ then' \in {"plain", "ahead", "return", "close"} \cup InOperation
      BY <3>1 DEF StartDrain, Returned, PhaseAfterDrop, MarkBreakRequired, OwnerTypes, Phases
    <3> QED
      BY <1>4, <3>2 DEF CallTimeout, OwnerTypes, DrainSteps
  <2>2. SharedTypes'
    BY <1>4 DEF SharedTypes, CallTimeout, Unlock
  <2>3. WireTypes'
    BY <1>4 DEF WireTypes, CallTimeout
  <2> QED
    BY <2>1, <2>2, <2>3
<1>5. CASE RejectClosed
  <2>1. OwnerTypes'
    BY <1>5 DEF RejectClosed, OwnerTypes, InOperation, Reading, DrainSteps, Phases, OwnerMarkDead, owner
  <2>2. SharedTypes'
    BY <1>5 DEF SharedTypes, RejectClosed
  <2>3. WireTypes'
    BY <1>5 DEF WireTypes, RejectClosed
  <2> QED
    BY <2>1, <2>2, <2>3
<1>6. CASE OwnerCancel
  <2>1. OwnerTypes'
    <3>1. phase' = "Draining" /\ pc' = "break" /\ then' = "return"
      BY <1>6 DEF OwnerCancel, StartDrain
    <3> QED
      BY <1>6, <3>1 DEF OwnerCancel, OwnerTypes, DrainSteps, Phases
  <2>2. SharedTypes'
    BY <1>6 DEF SharedTypes, OwnerCancel
  <2>3. WireTypes'
    BY <1>6 DEF WireTypes, OwnerCancel
  <2> QED
    BY <2>1, <2>2, <2>3
<1>7. CASE ReconcileCancel
  <2>1. OwnerTypes'
    BY <1>7 DEF ReconcileCancel, OwnerTypes, InOperation, Reading, DrainSteps, Phases, FinishDrainReady
  <2>2. SharedTypes'
    BY <1>7 DEF SharedTypes, ReconcileCancel
  <2>3. WireTypes'
    BY <1>7 DEF WireTypes, ReconcileCancel
  <2> QED
    BY <2>1, <2>2, <2>3
<1> QED
  BY <1>1, <1>2, <1>3, <1>4, <1>5, <1>6, <1>7

(* The stream's steps and the drain keep the types. *)
LEMMA DrainKeepsTypes ==
    ASSUME TypeOK,
           \/ StreamBreak \/ StreamMark \/ StreamDrain \/ SendBreak
           \/ DrainSendReset \/ DrainRead \/ DrainTimeout
    PROVE  TypeOK'
<1> USE DEF TypeOK, handles, server
<1>1. CASE StreamBreak
  <2>1. OwnerTypes'
    <3>1. /\ phase' \in Phases /\ stream' \in BOOLEAN
          /\ then' \in {"plain", "ahead", "return", "close"} \cup InOperation
          /\ pc' \in {"idle", "mark"} \cup InOperation
      BY <1>1 DEF StreamBreak, Sending, InOperation, OwnerTypes, Phases
    <3>2. pc' = "mark" => then' \in InOperation
      BY <1>1 DEF StreamBreak, Sending, InOperation, Reading
    <3> QED
      BY <1>1, <3>1, <3>2 DEF StreamBreak, OwnerTypes
  <2>2. SharedTypes'
    BY <1>1 DEF SharedTypes, StreamBreak, Unlock
  <2>3. WireTypes'
    BY <1>1, SendTypes DEF WireTypes, StreamBreak, OwnerTypes
  <2> QED
    BY <2>1, <2>2, <2>3
<1>2. CASE StreamMark
  <2>1. OwnerTypes'
    BY <1>2 DEF StreamMark, OwnerTypes, InOperation, Reading, DrainSteps, Phases, MarkBreakSent
  <2>2. SharedTypes'
    BY <1>2 DEF SharedTypes, StreamMark
  <2>3. WireTypes'
    BY <1>2 DEF WireTypes, StreamMark
  <2> QED
    BY <2>1, <2>2, <2>3
<1>3. CASE StreamDrain
  <2>1. OwnerTypes'
    <3>1. /\ phase' \in Phases /\ pc' \in {"drainData", "idle"}
          /\ then' \in {"plain", "ahead", "return", "close"} \cup InOperation
      BY <1>3 DEF StreamDrain, StartDrain, OwnerTypes, Phases
    <3> QED
      BY <1>3, <3>1 DEF StreamDrain, OwnerTypes, DrainSteps
  <2>2. SharedTypes'
    BY <1>3 DEF SharedTypes, StreamDrain
  <2>3. WireTypes'
    BY <1>3 DEF WireTypes, StreamDrain
  <2> QED
    BY <2>1, <2>2, <2>3
<1>4. CASE SendBreak
  <2>1. OwnerTypes'
    <3>1. phase' \in Phases /\ dead' \in BOOLEAN
      BY <1>4 DEF SendBreak, DrainSend, DrainFails, OwnerMarkDead, OwnerTypes, Phases
    <3>2. pc' \in {"idle", "recover", "drainData", "drainMarker"}
      BY <1>4 DEF SendBreak, DrainSend, DrainFails, Returned
    <3> QED
      BY <1>4, <3>1, <3>2 DEF SendBreak, DrainSend, OwnerTypes, DrainSteps
  <2>2. SharedTypes'
    BY <1>4 DEF SharedTypes, SendBreak, DrainSend
  <2>3. WireTypes'
    BY <1>4, SendTypes DEF WireTypes, SendBreak, DrainSend, OwnerTypes
  <2> QED
    BY <2>1, <2>2, <2>3
<1>5. CASE DrainSendReset
  <2>1. OwnerTypes'
    <3>1. phase' \in Phases /\ dead' \in BOOLEAN
      BY <1>5 DEF DrainSendReset, DrainSend, DrainFails, OwnerMarkDead, OwnerTypes, Phases
    <3>2. pc' \in {"idle", "recover", "drainData", "drainMarker"}
      BY <1>5 DEF DrainSendReset, DrainSend, DrainFails, Returned
    <3> QED
      BY <1>5, <3>1, <3>2 DEF DrainSendReset, DrainSend, OwnerTypes, DrainSteps
  <2>2. SharedTypes'
    BY <1>5 DEF SharedTypes, DrainSendReset, DrainSend
  <2>3. WireTypes'
    BY <1>5, SendTypes DEF WireTypes, DrainSendReset, DrainSend, OwnerTypes
  <2> QED
    BY <2>1, <2>2, <2>3
<1>6. CASE DrainRead
  <2>1. OwnerTypes'
    <3>1. phase' \in Phases /\ dead' \in BOOLEAN
      BY <1>6 DEF DrainRead, Drained, OwnerMarkDead, FinishDrainReady, OwnerTypes, Phases
    <3>2. pc' \in {"idle", "recover", "begin", "send"} \cup DrainSteps
      BY <1>6 DEF DrainRead, Drained, StartOf, Returned, DrainSteps
    <3> QED
      BY <1>6, <3>1, <3>2 DEF DrainRead, OwnerTypes, InOperation, DrainSteps
  <2>2. SharedTypes'
    BY <1>6 DEF SharedTypes, DrainRead
  <2>3. WireTypes'
    BY <1>6, Channel DEF WireTypes, DrainRead
  <2> QED
    BY <2>1, <2>2, <2>3
<1>7. CASE DrainTimeout
  <2>1. OwnerTypes'
    <3>1. pc' \in {"idle", "recover"}
      BY <1>7 DEF DrainTimeout, DrainFails, Returned
    <3> QED
      BY <1>7, <3>1 DEF DrainTimeout, DrainFails, OwnerMarkDead, OwnerTypes, Phases
  <2>2. SharedTypes'
    BY <1>7 DEF SharedTypes, DrainTimeout
  <2>3. WireTypes'
    BY <1>7 DEF WireTypes, DrainTimeout
  <2> QED
    BY <2>1, <2>2, <2>3
<1> QED
  BY <1>1, <1>2, <1>3, <1>4, <1>5, <1>6, <1>7

(* The steps of a handle keep the types. *)
LEMMA HandleKeepsTypes ==
    ASSUME TypeOK, NEW h \in Handles,
           HandleStep(h) \/ HandleCancel(h) \/ HandleSendFails(h) \/ HandleDropped(h)
    PROVE  TypeOK'
<1> USE SessionAssumption
<1> USE DEF TypeOK, OwnerTypes, SharedTypes, WireTypes, Phases, owner, handles, server, Step
<1>1. CASE HandleCancel(h)
  BY <1>1 DEF HandleCancel
<1>2. CASE HandleLock(h)
  BY <1>2 DEF HandleLock
<1>3. CASE HandleRecheck(h)
  BY <1>3 DEF HandleRecheck
<1>4. CASE HandleWrite(h)
  <2>1. Append(c2s, Break) \in Seq(ToServer)
    BY PacketTypes, Channel
  <2> QED
    BY <1>4, <2>1 DEF HandleWrite
<1>5. CASE HandleMark(h)
  BY <1>5 DEF HandleMark, MarkBreakSent
<1>6. CASE HandleSendFails(h)
  BY <1>6 DEF HandleSendFails
<1>7. CASE HandleDropped(h)
  BY <1>7 DEF HandleDropped
<1> QED
  BY <1>1, <1>2, <1>3, <1>4, <1>5, <1>6, <1>7 DEF HandleStep

(* The steps of the server keep the types. *)
LEMMA ServerKeepsTypes ==
    ASSUME TypeOK, ServerStep \/ ServerSendsPart
    PROVE  TypeOK'
<1> USE SessionAssumption
<1> USE DEF TypeOK, OwnerTypes, SharedTypes, WireTypes, owner, handles, server
<1>1. CASE ServerTakesRequest
  <2>1. Head(c2s).op \in 0..MaxOps /\ Tail(c2s) \in Seq(ToServer)
    BY <1>1, PacketFields, Channel DEF ServerTakesRequest, Receive
  <2> QED
    BY <1>1, <2>1 DEF ServerTakesRequest, Receive
<1>2. CASE ServerReplies
  <2>1. PICK x \in {"none", "fatal"} : s2c' = Append(s2c, Data(srvOp, TRUE, x))
    BY <1>2 DEF ServerReplies
  <2>2. s2c' \in Seq(ToClient)
    BY <2>1, PacketTypes, Channel
  <2> QED
    BY <1>2, <2>2 DEF ServerReplies
<1>3. CASE ServerTakesBreak
  <2>1. Append(s2c, Marker) \in Seq(ToClient) /\ Tail(c2s) \in Seq(ToServer)
    BY <1>3, PacketTypes, Channel DEF ServerTakesBreak, Receive
  <2> QED
    BY <1>3, <2>1 DEF ServerTakesBreak, Receive
<1>4. CASE ServerTakesReset
  <2>1. Tail(c2s) \in Seq(ToServer)
    BY <1>4, Channel DEF ServerTakesReset, Receive
  <2>2. Marker \in ToClient /\ Data(srvOp, TRUE, "cancel") \in ToClient
    BY PacketTypes
  <2>3. s2c \o <<Marker, Data(srvOp, TRUE, "cancel")>> \in Seq(ToClient)
    BY <2>2, AppendTwo
  <2> QED
    BY <1>4, <2>1, <2>3 DEF ServerTakesReset, Receive
<1>5. CASE ServerSendsPart
  <2>1. Append(s2c, Data(srvOp, FALSE, "none")) \in Seq(ToClient)
    BY PacketTypes, Channel
  <2>2. WireTypes'
    BY <1>5, <2>1 DEF ServerSendsPart
  <2>3. OwnerTypes' /\ SharedTypes'
    BY <1>5 DEF ServerSendsPart
  <2> QED
    BY <2>2, <2>3
<1> QED
  BY <1>1, <1>2, <1>3, <1>4, <1>5 DEF ServerStep

(* No step of the owner, a handle or the server leaves the connection with *)
(* a malformed phase, packet, lock holder or program counter.              *)
THEOREM SessionTypeCorrect == Spec => []TypeOK
<1>1. Init => TypeOK
  <2> SUFFICES ASSUME Init PROVE TypeOK
    OBVIOUS
  <2>1. c2s \in Seq(ToServer) /\ s2c \in Seq(ToClient)
    BY DEF Init
  <2>2. OwnerTypes
    <3>1. op \in 0..MaxOps /\ resp \subseteq 0..MaxOps
      BY SessionAssumption DEF Init
    <3>2. dead \in BOOLEAN /\ ahead \in BOOLEAN /\ stream \in BOOLEAN /\ lastErr \in BOOLEAN
      BY Zenon DEF Init
    <3>3. phase \in Phases /\ pc = "idle" /\ then = "return" /\ kind = "plain"
      BY DEF Init, Phases
    <3> QED
      BY <3>1, <3>2, <3>3 DEF OwnerTypes
  <2>3. hpc \in [Handles -> {"idle", "wait", "locked", "send", "written"}]
    BY DEF Init
  <2>4. SharedTypes
    BY <2>3, SessionAssumption DEF Init, SharedTypes
  <2> QED
    BY <2>1, <2>2, <2>4, SessionAssumption DEF Init, TypeOK, WireTypes
<1>2. TypeOK /\ [Next]_vars => TypeOK'
  <2> SUFFICES ASSUME TypeOK, [Next]_vars PROVE TypeOK'
    OBVIOUS
  <2>1. CASE OwnerStep
    BY <2>1, StartKeepsTypes, ReadKeepsTypes, DrainKeepsTypes DEF OwnerStep
  <2>2. CASE CallerStep
    BY <2>2, StartKeepsTypes, ReadKeepsTypes, AbandonKeepsTypes, DrainKeepsTypes,
       HandleKeepsTypes DEF CallerStep
  <2>3. CASE \E h \in Handles : HandleStep(h)
    BY <2>3, HandleKeepsTypes
  <2>4. CASE ServerStep \/ ServerSendsPart
    BY <2>4, ServerKeepsTypes
  <2>5. CASE UNCHANGED vars
    BY <2>5 DEF vars, owner, handles, server, TypeOK, OwnerTypes, SharedTypes, WireTypes
  <2> QED
    BY <2>1, <2>2, <2>3, <2>4, <2>5 DEF Next
<1> QED
  BY <1>1, <1>2, PTL DEF Spec

----------------------------------------------------------------------------
(* Draining is never left behind *)

(* The owner's starting, sending and reading steps keep DrainingIsOwned. *)
LEMMA OperationKeepsDraining ==
    ASSUME DrainingIsOwned,
           \/ \E k \in {"plain", "ahead"} : Begin(k)
           \/ BeginOperation \/ SendRequest \/ Flushed \/ ReadAhead
           \/ ReadData \/ ReadMarker \/ SendReset \/ ReadGarbled
    PROVE  DrainingIsOwned'
<1>1. CASE \E k \in {"plain", "ahead"} : Begin(k)
  BY <1>1 DEF DrainingIsOwned, DrainSteps, Begin, DrainPending, MarkBreakRequired
<1>2. CASE BeginOperation
  BY <1>2 DEF DrainingIsOwned, DrainSteps, BeginOperation
<1>3. CASE SendRequest
  BY <1>3 DEF DrainingIsOwned, DrainSteps, SendRequest
<1>4. CASE Flushed
  BY <1>4 DEF DrainingIsOwned, DrainSteps, Flushed, Arm, CanAdopt
<1>5. CASE ReadAhead
  BY <1>5 DEF DrainingIsOwned, DrainSteps, ReadAhead, Arm, CanAdopt
<1>6. CASE ReadData
  BY <1>6 DEF DrainingIsOwned, DrainSteps, ReadData, OwnerMarkDead, CompleteOperation
<1>7. CASE ReadMarker
  BY <1>7 DEF DrainingIsOwned, DrainSteps, ReadMarker
<1>8. CASE SendReset
  BY <1>8 DEF DrainingIsOwned, DrainSteps, SendReset
<1>9. CASE ReadGarbled
  BY <1>9 DEF DrainingIsOwned, DrainSteps, ReadGarbled
<1> QED
  BY <1>1, <1>2, <1>3, <1>4, <1>5, <1>6, <1>7, <1>8, <1>9

(* The ways an operation is abandoned keep DrainingIsOwned. *)
LEMMA AbandonKeepsDraining ==
    ASSUME DrainingIsOwned,
           \/ AbandonRead \/ AbandonSend \/ SendFails \/ CallTimeout
           \/ RejectClosed \/ OwnerCancel \/ ReconcileCancel
    PROVE  DrainingIsOwned'
<1> USE DEF DrainingIsOwned, DrainSteps
<1>1. CASE AbandonRead
  BY <1>1 DEF AbandonRead, OwnerMarkDead, PhaseAfterDrop, MarkBreakRequired, Reading
<1>2. CASE AbandonSend
  BY <1>2 DEF AbandonSend, OwnerMarkDead, Sending, PhaseAfterDrop, MarkBreakRequired
<1>3. CASE SendFails
  BY <1>3 DEF SendFails, Sending, OwnerMarkDead
<1>4. CASE CallTimeout
  <2>1. PICK next : StartDrain(PhaseAfterDrop, "break", next, Returned)
    BY <1>4 DEF CallTimeout
  <2>2. phase # "Draining"
    BY <1>4 DEF CallTimeout, InOperation, Reading
  <2> QED
    BY <2>1, <2>2 DEF StartDrain, PhaseAfterDrop, MarkBreakRequired
<1>5. CASE RejectClosed
  BY <1>5 DEF RejectClosed, OwnerMarkDead
<1>6. CASE OwnerCancel
  BY <1>6 DEF OwnerCancel, StartDrain
<1>7. CASE ReconcileCancel
  BY <1>7 DEF ReconcileCancel, FinishDrainReady
<1> QED
  BY <1>1, <1>2, <1>3, <1>4, <1>5, <1>6, <1>7

(* The stream's steps and the drain itself keep DrainingIsOwned. *)
LEMMA DrainKeepsDraining ==
    ASSUME DrainingIsOwned,
           \/ StreamBreak \/ StreamMark \/ StreamDrain
           \/ SendBreak \/ DrainSendReset \/ DrainRead \/ DrainTimeout
    PROVE  DrainingIsOwned'
<1> USE DEF DrainingIsOwned, DrainSteps
<1>1. CASE StreamBreak
  BY <1>1 DEF StreamBreak, ShouldSendBreak, Sending, Reading
<1>2. CASE StreamMark
  BY <1>2 DEF StreamMark, MarkBreakSent
<1>3. CASE StreamDrain
  BY <1>3 DEF StreamDrain, StartDrain
<1>4. CASE SendBreak
  BY <1>4 DEF SendBreak, DrainSend, DrainFails, OwnerMarkDead
<1>5. CASE DrainSendReset
  BY <1>5 DEF DrainSendReset, DrainSend, DrainFails, OwnerMarkDead
<1>6. CASE DrainRead
  BY <1>6 DEF DrainRead, Drained, OwnerMarkDead, FinishDrainReady
<1>7. CASE DrainTimeout
  BY <1>7 DEF DrainTimeout, DrainFails, OwnerMarkDead
<1> QED
  BY <1>1, <1>2, <1>3, <1>4, <1>5, <1>6, <1>7

(* Handles and the server never enter Draining and never move the owner. *)
LEMMA OthersKeepDraining ==
    ASSUME DrainingIsOwned,
           \/ \E h \in Handles : \/ HandleStep(h) \/ HandleCancel(h)
                                 \/ HandleSendFails(h) \/ HandleDropped(h)
           \/ ServerStep \/ ServerSendsPart
    PROVE  DrainingIsOwned'
<1> USE DEF DrainingIsOwned, DrainSteps, owner
<1>1. ASSUME NEW h \in Handles,
             HandleStep(h) \/ HandleCancel(h) \/ HandleSendFails(h) \/ HandleDropped(h)
      PROVE  DrainingIsOwned'
  BY <1>1 DEF HandleStep, HandleLock, HandleRecheck, HandleWrite, HandleMark, MarkBreakSent,
              HandleCancel, HandleSendFails, HandleDropped
<1>2. CASE ServerStep \/ ServerSendsPart
  BY <1>2 DEF ServerStep, ServerTakesRequest, ServerReplies, ServerTakesBreak,
              ServerTakesReset, ServerSendsPart
<1> QED
  BY <1>1, <1>2

(* A phase of Draining always belongs to an owner that is running the      *)
(* drain: whatever is cancelled, dropped or timed out, and however many    *)
(* handles race it, no operation finds the session stuck in Draining.      *)
THEOREM DrainingAlwaysOwned == Spec => []DrainingIsOwned
<1>1. Init => DrainingIsOwned
  BY DEF Init, DrainingIsOwned
<1>2. DrainingIsOwned /\ [Next]_vars => DrainingIsOwned'
  <2> SUFFICES ASSUME DrainingIsOwned, [Next]_vars PROVE DrainingIsOwned'
    OBVIOUS
  <2>1. CASE Next
    <3>1. CASE OwnerStep
      BY <3>1, OperationKeepsDraining, DrainKeepsDraining DEF OwnerStep
    <3>2. CASE CallerStep
      BY <3>2, OperationKeepsDraining, AbandonKeepsDraining, DrainKeepsDraining,
         OthersKeepDraining DEF CallerStep
    <3>3. CASE (\E h \in Handles : HandleStep(h)) \/ ServerStep \/ ServerSendsPart
      BY <3>3, OthersKeepDraining
    <3> QED
      BY <2>1, <3>1, <3>2, <3>3 DEF Next
  <2>2. CASE UNCHANGED vars
    BY <2>2 DEF vars, owner, DrainingIsOwned
  <2> QED
    BY <2>1, <2>2
<1> QED
  BY <1>1, <1>2, PTL DEF Spec

----------------------------------------------------------------------------
(* The write mutex is given back *)

(* A stream's BREAK is written while the mutex is free, so the fetch it     *)
(* interrupts is not the one that holds it.                                 *)
MutexInv == WriteMutexHeld /\ (pc = "mark" => then # "flush")

(* A step that moves neither the mutex nor a handle, nor the owner into or  *)
(* out of its flush, keeps the mutex where it is.                           *)
LEMMA SameHolder ==
    ASSUME MutexInv, UNCHANGED <<wlock, hpc>>, pc' = "flush" <=> pc = "flush",
           pc' = "mark" => then' # "flush"
    PROVE  MutexInv'
  BY DEF MutexInv, WriteMutexHeld

(* A future of the owner ends and drops the guard it may hold. *)
LEMMA OwnerLetsGo ==
    ASSUME MutexInv, Unlock, hpc' = hpc, pc' \notin {"flush", "mark"}
    PROVE  MutexInv'
<1>1. wlock' # Owner /\ \A h \in Handles : wlock' = h <=> wlock = h
  BY SessionAssumption DEF Unlock
<1> QED
  BY <1>1 DEF MutexInv, WriteMutexHeld

(* The owner's own steps. *)
LEMMA OwnerKeepsMutex ==
    ASSUME TypeOK, MutexInv, OwnerStep
    PROVE  MutexInv'
<1> USE DEF Returned, handles
<1>1. CASE BeginOperation
  BY <1>1, SameHolder DEF BeginOperation
<1>2. CASE SendRequest
  <2>1. wlock = Nobody /\ wlock' = Owner /\ pc' = "flush" /\ hpc' = hpc
    BY <1>2 DEF SendRequest
  <2> QED
    BY <2>1, SessionAssumption DEF MutexInv, WriteMutexHeld
<1>3. CASE Flushed
  <2>1. pc = "flush" /\ wlock' = Nobody /\ hpc' = hpc /\ pc' \in {"idle", "read", "recover"}
    BY <1>3 DEF Flushed, Arm
  <2> QED
    BY <2>1, SessionAssumption DEF MutexInv, WriteMutexHeld
<1>4. CASE ReadData \/ ReadMarker \/ SendReset
  BY <1>4, SameHolder DEF ReadData, ReadMarker, SendReset
<1>5. CASE StreamMark
  <2>1. pc = "mark" /\ pc' = then /\ UNCHANGED <<wlock, hpc>> /\ then \in InOperation
    BY <1>5 DEF StreamMark, TypeOK, OwnerTypes
  <2>2. pc' # "flush" /\ pc' # "mark"
    BY <2>1 DEF MutexInv, InOperation, Reading
  <2> QED
    BY <2>1, <2>2, SameHolder
<1>6. CASE StreamDrain
  BY <1>6, SameHolder DEF StreamDrain, StartDrain
<1>7. CASE SendBreak \/ DrainSendReset
  BY <1>7, SameHolder DEF SendBreak, DrainSendReset, DrainSend, DrainFails
<1>8. CASE DrainRead
  BY <1>8, SameHolder DEF DrainRead, Drained, StartOf
<1>9. CASE DrainTimeout
  BY <1>9, SameHolder DEF DrainTimeout, DrainFails, DrainSteps
<1> QED
  BY <1>1, <1>2, <1>3, <1>4, <1>5, <1>6, <1>7, <1>8, <1>9 DEF OwnerStep

(* What callers, timers and the socket do to the owner. *)
LEMMA CallerKeepsMutex ==
    ASSUME TypeOK, MutexInv,
           \/ \E k \in {"plain", "ahead"} : Begin(k)
           \/ ReadAhead \/ ReadGarbled \/ AbandonRead \/ AbandonSend \/ SendFails
           \/ CallTimeout \/ RejectClosed \/ OwnerCancel \/ ReconcileCancel \/ StreamBreak
    PROVE  MutexInv'
<1> USE DEF Returned, handles
<1>1. CASE \E k \in {"plain", "ahead"} : Begin(k)
  BY <1>1, SameHolder DEF Begin, StartOf
<1>2. CASE ReadAhead \/ ReadGarbled \/ AbandonRead
  BY <1>2, SameHolder DEF ReadAhead, Arm, ReadGarbled, AbandonRead, Reading
<1>3. CASE AbandonSend \/ SendFails
  BY <1>3, OwnerLetsGo DEF AbandonSend, SendFails
<1>4. CASE CallTimeout
  <2>1. PICK next : StartDrain(PhaseAfterDrop, "break", next, Returned)
    BY <1>4 DEF CallTimeout
  <2> QED
    BY <1>4, <2>1, OwnerLetsGo DEF CallTimeout, StartDrain
<1>5. CASE RejectClosed \/ OwnerCancel \/ ReconcileCancel
  BY <1>5, SameHolder DEF RejectClosed, OwnerCancel, ReconcileCancel, StartDrain, owner
<1>6. CASE StreamBreak
  <2>1. CASE UNCHANGED <<pc, then, wlock>>
    BY <1>6, <2>1, SameHolder DEF StreamBreak, MutexInv
  <2>2. CASE wlock = Nobody /\ wlock' = wlock /\ then' = pc /\ pc' = "mark"
    <3>1. pc # "flush"
      BY <2>2, SessionAssumption DEF MutexInv, WriteMutexHeld
    <3> QED
      BY <1>6, <2>2, <3>1, SameHolder DEF StreamBreak
  <2>3. CASE pc' = "idle" /\ Unlock
    BY <1>6, <2>3, OwnerLetsGo DEF StreamBreak
  <2> QED
    BY <1>6, <2>1, <2>2, <2>3 DEF StreamBreak
<1> QED
  BY <1>1, <1>2, <1>3, <1>4, <1>5, <1>6

(* A handle takes the mutex only when it is free, and gives back its own. *)
LEMMA HandleKeepsMutex ==
    ASSUME TypeOK, MutexInv, NEW g \in Handles,
           HandleStep(g) \/ HandleCancel(g) \/ HandleSendFails(g) \/ HandleDropped(g)
    PROVE  MutexInv'
<1>1. UNCHANGED <<pc, then>> /\ hpc \in [Handles -> {"idle", "wait", "locked", "send", "written"}]
  BY DEF HandleStep, HandleLock, HandleRecheck, HandleWrite, HandleMark, HandleCancel,
     HandleSendFails, HandleDropped, owner, TypeOK, SharedTypes
<1>2. CASE HandleLock(g)
  BY <1>1, <1>2, SessionAssumption DEF HandleLock, Step, MutexInv, WriteMutexHeld
<1>3. CASE HandleCancel(g) \/ HandleWrite(g)
  BY <1>1, <1>3, SessionAssumption DEF HandleCancel, HandleWrite, Step, MutexInv, WriteMutexHeld
<1>4. CASE HandleRecheck(g)
  BY <1>1, <1>4, SessionAssumption DEF HandleRecheck, Step, MutexInv, WriteMutexHeld
<1>5. CASE HandleMark(g) \/ HandleSendFails(g) \/ HandleDropped(g)
  BY <1>1, <1>5, SessionAssumption DEF HandleMark, HandleSendFails, HandleDropped, Step,
     MutexInv, WriteMutexHeld
<1> QED
  BY <1>2, <1>3, <1>4, <1>5 DEF HandleStep

(* The write half is locked exactly while its holder writes: no future of   *)
(* the owner, dropped, timed out, failed or reclaimed, and no handle, ever  *)
(* leaves the mutex behind locked, for every number of handles and in every *)
(* environment.                                                             *)
THEOREM WriteMutexGivenBack == Spec => []WriteMutexHeld
<1>1. Init => MutexInv
  BY SessionAssumption DEF Init, MutexInv, WriteMutexHeld
<1>2. TypeOK /\ MutexInv /\ [Next]_vars => MutexInv'
  <2> SUFFICES ASSUME TypeOK, MutexInv, [Next]_vars PROVE MutexInv'
    OBVIOUS
  <2>1. CASE OwnerStep
    BY <2>1, OwnerKeepsMutex
  <2>2. CASE CallerStep
    BY <2>2, CallerKeepsMutex, HandleKeepsMutex DEF CallerStep
  <2>3. CASE \E h \in Handles : HandleStep(h)
    BY <2>3, HandleKeepsMutex
  <2>4. CASE ServerStep \/ ServerSendsPart
    BY <2>4, SameHolder DEF ServerStep, ServerTakesRequest, ServerReplies, ServerTakesBreak,
       ServerTakesReset, ServerSendsPart, owner, handles, MutexInv
  <2>5. CASE UNCHANGED vars
    BY <2>5, SameHolder DEF vars, owner, handles, MutexInv
  <2> QED
    BY <2>1, <2>2, <2>3, <2>4, <2>5 DEF Next
<1>3. MutexInv => WriteMutexHeld
  BY DEF MutexInv
<1> QED
  BY <1>1, <1>2, <1>3, SessionTypeCorrect, PTL DEF Spec

----------------------------------------------------------------------------
(* A session given up stays given up *)

(* The owner never starts a drain of a session it gave up, so the store of  *)
(* finish_drain_ready cannot meet the owner's own Dead.                     *)
GaveUp == dead => phase = "Dead" /\ pc \notin DrainSteps

(* One step of DeadIsKept. *)
KeepsDead ==
    /\ dead => dead' /\ phase' = "Dead"
    /\ phase = "Dead" /\ pc \notin DrainSteps => phase' = "Dead"

(* The owner's own steps. *)
LEMMA OwnerStepKeepsDead ==
    ASSUME TypeOK, GaveUp, OwnerStep
    PROVE  GaveUp' /\ KeepsDead
<1> USE DEF GaveUp, KeepsDead, DrainSteps, Returned
<1>1. CASE BeginOperation
  BY <1>1 DEF BeginOperation
<1>2. CASE SendRequest
  BY <1>2 DEF SendRequest
<1>3. CASE Flushed
  BY <1>3 DEF Flushed, Arm, CanAdopt
<1>4. CASE ReadData
  BY <1>4 DEF ReadData, CompleteOperation, OwnerMarkDead
<1>5. CASE ReadMarker \/ SendReset
  BY <1>5 DEF ReadMarker, SendReset
<1>6. CASE StreamMark
  <2>1. pc = "mark" /\ pc' = then /\ then \in InOperation /\ dead' = dead
    BY <1>6 DEF StreamMark, TypeOK, OwnerTypes
  <2>2. phase = "Dead" => phase' = "Dead"
    BY <1>6 DEF StreamMark, MarkBreakSent
  <2> QED
    BY <2>1, <2>2 DEF InOperation, Reading
<1>7. CASE StreamDrain
  BY <1>7 DEF StreamDrain, StartDrain, CanDrainAfterBreak, DrainPending, MarkBreakSent
<1>8. CASE SendBreak \/ DrainSendReset
  BY <1>8 DEF SendBreak, DrainSendReset, DrainSend, DrainFails, OwnerMarkDead
<1>9. CASE DrainRead
  <2>1. pc \in DrainSteps /\ ~dead
    BY <1>9 DEF DrainRead
  <2>2. pc' \in DrainSteps => dead' = dead
    BY <1>9 DEF DrainRead, Drained, StartOf
  <2>3. dead' => dead \/ phase' = "Dead"
    BY <1>9 DEF DrainRead, Drained, OwnerMarkDead, FinishDrainReady
  <2> QED
    BY <2>1, <2>2, <2>3
<1>10. CASE DrainTimeout
  BY <1>10 DEF DrainTimeout, DrainFails, OwnerMarkDead
<1> QED
  BY <1>1, <1>2, <1>3, <1>4, <1>5, <1>6, <1>7, <1>8, <1>9, <1>10 DEF OwnerStep

(* What callers, timers and the socket do to the owner. *)
LEMMA CallerKeepsDead ==
    ASSUME GaveUp,
           \/ \E k \in {"plain", "ahead"} : Begin(k)
           \/ ReadAhead \/ ReadGarbled \/ AbandonRead \/ AbandonSend \/ SendFails
           \/ CallTimeout \/ RejectClosed \/ OwnerCancel \/ ReconcileCancel \/ StreamBreak
    PROVE  GaveUp' /\ KeepsDead
<1> USE DEF GaveUp, KeepsDead, DrainSteps, Returned
<1>1. CASE \E k \in {"plain", "ahead"} : Begin(k)
  BY <1>1 DEF Begin
<1>2. CASE ReadAhead \/ ReadGarbled
  BY <1>2 DEF ReadAhead, Arm, CanAdopt, ReadGarbled
<1>3. CASE AbandonRead \/ AbandonSend \/ SendFails
  BY <1>3 DEF AbandonRead, AbandonSend, SendFails, OwnerMarkDead, PhaseAfterDrop,
     MarkBreakRequired
<1>4. CASE CallTimeout
  <2>1. PICK next : StartDrain(PhaseAfterDrop, "break", next, Returned)
    BY <1>4 DEF CallTimeout
  <2> QED
    BY <1>4, <2>1 DEF CallTimeout, StartDrain, CanDrainAfterBreak, DrainPending,
       MarkBreakSent, PhaseAfterDrop, MarkBreakRequired
<1>5. CASE RejectClosed
  BY <1>5 DEF RejectClosed, OwnerMarkDead, owner
<1>6. CASE OwnerCancel
  BY <1>6 DEF OwnerCancel, StartDrain, CanDrainAfterBreak, DrainPending, MarkBreakSent
<1>7. CASE ReconcileCancel
  BY <1>7 DEF ReconcileCancel
<1>8. CASE StreamBreak
  BY <1>8 DEF StreamBreak
<1> QED
  BY <1>1, <1>2, <1>3, <1>4, <1>5, <1>6, <1>7, <1>8

(* Handles and the server touch neither the owner nor Connection.dead, and  *)
(* what a handle stores is BreakSent over Ready or InFlight, or Dead.       *)
LEMMA OthersKeepDead ==
    ASSUME GaveUp,
           \/ \E h \in Handles : \/ HandleStep(h) \/ HandleCancel(h)
                                 \/ HandleSendFails(h) \/ HandleDropped(h)
           \/ ServerStep \/ ServerSendsPart
    PROVE  GaveUp' /\ KeepsDead
<1> USE DEF GaveUp, KeepsDead, owner
<1>1. ASSUME NEW h \in Handles,
             HandleStep(h) \/ HandleCancel(h) \/ HandleSendFails(h) \/ HandleDropped(h)
      PROVE  GaveUp' /\ KeepsDead
  BY <1>1 DEF HandleStep, HandleLock, HandleRecheck, HandleWrite, HandleMark, MarkBreakSent,
              HandleCancel, HandleSendFails, HandleDropped
<1>2. CASE ServerStep \/ ServerSendsPart
  <2>1. UNCHANGED <<phase, dead, pc>>
    BY <1>2 DEF ServerStep, ServerTakesRequest, ServerReplies, ServerTakesBreak,
                ServerTakesReset, ServerSendsPart
  <2> QED
    BY <2>1
<1> QED
  BY <1>1, <1>2

(* Whatever fails, is dropped, timed out or cancelled, and however many     *)
(* handles race the owner, a session the owner gave up is never revived,    *)
(* and Dead is stored over by nothing but the end of a drain that was       *)
(* running when a handle stored it.                                         *)
THEOREM DeadStaysDead == Spec => DeadIsKept
<1>1. Init => GaveUp
  BY DEF Init, GaveUp
<1>2. TypeOK /\ GaveUp /\ Next => GaveUp' /\ KeepsDead
  <2> SUFFICES ASSUME TypeOK, GaveUp, Next PROVE GaveUp' /\ KeepsDead
    OBVIOUS
  <2>1. CASE OwnerStep
    BY <2>1, OwnerStepKeepsDead
  <2>2. CASE CallerStep
    BY <2>2, CallerKeepsDead, OthersKeepDead DEF CallerStep
  <2>3. CASE (\E h \in Handles : HandleStep(h)) \/ ServerStep \/ ServerSendsPart
    BY <2>3, OthersKeepDead
  <2> QED
    BY <2>1, <2>2, <2>3 DEF Next
<1>3. GaveUp /\ UNCHANGED vars => GaveUp'
  BY DEF GaveUp, vars, owner
<1>4. TypeOK /\ GaveUp /\ [Next]_vars => GaveUp' /\ [KeepsDead]_vars
  BY <1>2, <1>3
<1> QED
  BY <1>1, <1>4, SessionTypeCorrect, PTL DEF Spec, DeadIsKept, KeepsDead
----------------------------------------------------------------------------
(* The wire of an owner without rivals: environments in which no handle     *)
(* sends a BREAK, no stream is reclaimed and no request is abandoned while  *)
(* it is flushed.                                                           *)

Rivals == {"handle", "stream", "in_send"}

(* Nothing is outstanding. *)
Clean == c2s = <<>> /\ s2c = <<>> /\ srv = "idle"

(* The last packet of the response to n. *)
Ends(n) == {Data(n, TRUE, x) : x \in {"none"} \cup ({"fatal"} \cap env)}

(* Operation n is outstanding and nothing else: its request is on the way, *)
(* it runs, or what is left of its response is on the way back.             *)
Answering(n) ==
    \/ c2s = <<Req(n)>> /\ srv = "idle" /\ s2c = <<>>
    \/ /\ c2s = <<>> /\ srvOp = n
       /\ \/ srv = "busy" /\ s2c = <<>>
          \/ srv = "partial" /\ s2c \in {<<>>, <<Data(n, FALSE, "none")>>}
          \/ /\ srv = "idle"
             /\ \E d \in Ends(n) : s2c \in {<<d>>, <<Data(n, FALSE, "none"), d>>}

Mine == Answering(op)
Outstanding == Clean \/ \E n \in 0..MaxOps : Answering(n)

(* A BREAK was sent: before the marker that acknowledges it only packets of *)
(* the operation it interrupts can arrive, and after it nothing.            *)
OnlyData(q) == \A i \in 1..Len(q) : q[i].t = "data"
Breaking ==
    \/ srv = "idle" /\ s2c = <<>> /\ \E n \in 0..MaxOps : c2s = <<Req(n), Break>>
    \/ srv # "broken" /\ c2s = <<Break>> /\ OnlyData(s2c)
    \/ srv = "broken" /\ c2s = <<>> /\ \E q \in Seq(ToClient) :
          OnlyData(q) /\ s2c = Append(q, Marker)

(* The BREAK is acknowledged, and the server waits for the RESET. *)
Acknowledged == c2s = <<>> /\ s2c = <<>> /\ srv = "broken"

(* A RESET was sent: its marker and one complete ORA-01013 are to come. *)
Resetting ==
    \/ c2s = <<Reset>> /\ s2c = <<>> /\ srv = "broken"
    \/ /\ c2s = <<>> /\ srv = "idle"
       /\ \E n \in 0..MaxOps : s2c \in {<<Marker, Data(n, TRUE, "cancel")>>,
                                        <<Data(n, TRUE, "cancel")>>}

(* The phase of an operation that has not been armed by its read. *)
SendPhase == IF kind = "ahead" THEN "InFlight" ELSE "Ready"

(* Phase and wire at every step of the owner. *)
WireAt ==
    /\ pc \in {"idle", "begin", "send", "flush", "read",
               "break", "drainData", "drainReset", "drainMarker"}
    /\ pc = "idle" => /\ phase \in {"Ready", "InFlight", "BreakSent"} /\ Outstanding
                      /\ phase = "Ready" => Clean
    /\ pc = "begin" => phase = "Ready" /\ kind = "ahead" /\ Clean
    /\ pc = "send" => phase = SendPhase /\ Clean
    /\ pc = "flush" => phase = SendPhase /\ Mine
    /\ pc = "read" => phase = "InFlight" /\ Mine
    /\ pc \in DrainSteps => phase = "Draining"
    /\ pc = "break" => Outstanding
    /\ pc = "drainData" => Breaking
    /\ pc = "drainReset" => Acknowledged
    /\ pc = "drainMarker" => Resetting

(* Nobody but the owner writes, and no answer was a cancellation's. *)
Undisturbed ==
    /\ \A h \in Handles : hpc[h] = "idle"
    /\ wlock = IF pc = "flush" THEN Owner ELSE Nobody
    /\ ~stream /\ ~lastErr

(* A page asked for ahead is the only thing outstanding, and the operation *)
(* that waits for a drain is the one the owner began.                       *)
OwnerKnows ==
    /\ ahead => pc = "idle" /\ (phase # "Dead" => phase = "InFlight" /\ Mine)
    /\ pc \in DrainSteps => /\ then \in {kind, "return", "close"}
                            /\ then = "close" => "close" \in env

(* A session is given up only because of a fault. *)
GivenUp == env \cap Faults # {} /\ pc = "idle"

WireInv ==
    /\ Undisturbed /\ OwnerKnows /\ OwnResponse
    /\ IF phase = "Dead" THEN GivenUp ELSE WireAt

(* A second packet is sent. *)
LEMMA AppendToOne == ASSUME NEW a, NEW b PROVE Append(<<a>>, b) = <<a, b>>
<1> DEFINE S == {a, b}
           q == Append(<<a>>, b)
           r == <<a, b>>
<1>1. <<a>> \in Seq(S) /\ r \in Seq(S) /\ b \in S
  OBVIOUS
<1>2. q \in Seq(S) /\ Len(q) = 2 /\ q[1] = a /\ q[2] = b
  BY <1>1
<1>3. Len(r) = 2 /\ r[1] = a /\ r[2] = b
  OBVIOUS
<1> HIDE DEF q, r, S
<1>4. q = r
  BY <1>1, <1>2, <1>3
<1> QED
  BY <1>4 DEF q, r

(* A step that leaves the wire and the operation alone leaves all this. *)
LEMMA SameWire ==
    ASSUME UNCHANGED <<env, c2s, s2c, srv, srvOp>>
    PROVE  /\ Clean' <=> Clean
           /\ Outstanding' <=> Outstanding
           /\ Breaking' <=> Breaking
           /\ Acknowledged' <=> Acknowledged
           /\ Resetting' <=> Resetting
           /\ UNCHANGED op => (Mine' <=> Mine)
  BY DEF Clean, Outstanding, Breaking, Acknowledged, Resetting, Mine, Answering, Ends

(* Without a rival event no handle ever moves and no stream is reclaimed. *)
LEMMA NoRivals ==
    ASSUME TypeOK, Undisturbed, \A e \in Environments : e \cap Rivals = {}
    PROVE  /\ "handle" \notin env /\ "stream" \notin env /\ "in_send" \notin env
           /\ \A h \in Handles : ~HandleStep(h) /\ ~HandleCancel(h) /\ ~HandleSendFails(h)
                                 /\ ~HandleDropped(h)
           /\ ~StreamBreak
<1>1. "handle" \notin env /\ "stream" \notin env /\ "in_send" \notin env
  BY DEF TypeOK, SharedTypes, Rivals
<1>2. ASSUME NEW h \in Handles
      PROVE  ~HandleStep(h) /\ ~HandleCancel(h) /\ ~HandleSendFails(h) /\ ~HandleDropped(h)
  <2>1. hpc[h] = "idle"
    BY DEF Undisturbed
  <2> QED
    BY <1>1, <2>1 DEF HandleStep, HandleLock, HandleRecheck, HandleWrite, HandleMark,
       HandleCancel, HandleSendFails, HandleDropped, Step
<1> QED
  BY <1>1, <1>2 DEF StreamBreak

(* What the server does with an outstanding operation keeps it outstanding. *)
LEMMA ServerAnswers ==
    ASSUME NEW n \in 0..MaxOps, Answering(n), ServerStep \/ ServerSendsPart
    PROVE  Answering(n)' /\ UNCHANGED <<env, phase, dead, owner, wlock, handles>>
<1>0. UNCHANGED <<env, phase, dead, owner, wlock, handles>>
  BY DEF ServerStep, ServerTakesRequest, ServerReplies, ServerTakesBreak, ServerTakesReset,
     ServerSendsPart
<1> DEFINE part == Data(n, FALSE, "none")
<1>1. Req(n).t = "req" /\ Req(n).op = n
  BY DEF Req
<1>2. CASE c2s = <<Req(n)>> /\ srv = "idle" /\ s2c = <<>>
  <2>1. Head(c2s) = Req(n) /\ Tail(c2s) = <<>>
    BY <1>2
  <2>2. ServerTakesRequest
    BY <1>1, <1>2, <2>1 DEF ServerStep, ServerReplies, ServerTakesBreak, ServerTakesReset,
       ServerSendsPart, Receive
  <2>3. c2s' = <<>> /\ srv' = "busy" /\ srvOp' = n /\ s2c' = <<>>
    BY <1>1, <1>2, <2>1, <2>2 DEF ServerTakesRequest, Receive
  <2> QED
    BY <1>0, <2>3 DEF Answering
<1>3. CASE c2s = <<>> /\ srvOp = n
  <2>1. ServerReplies \/ ServerSendsPart
    BY <1>3 DEF ServerStep, ServerTakesRequest, ServerTakesBreak, ServerTakesReset, Receive
  <2>2. srv \in {"busy", "partial"} /\ c2s' = <<>> /\ srvOp' = n
    BY <1>3, <2>1 DEF ServerReplies, ServerSendsPart
  <2>3. s2c \in {<<>>, <<part>>} /\ (srv = "busy" => s2c = <<>>)
    BY <1>3, <2>2 DEF Answering
  <2>4. CASE ServerSendsPart
    <3>1. srv' = "partial" /\ s2c' = <<part>>
      <4>1. s2c = <<>> /\ s2c' = Append(s2c, part) /\ srv' = "partial"
        BY <1>3, <2>3, <2>4 DEF ServerSendsPart
      <4> HIDE DEF part
      <4> QED
        BY <4>1
    <3> QED
      BY <1>0, <2>2, <3>1 DEF Answering
  <2>5. CASE ServerReplies
    <3>1. PICK d \in Ends(n) : s2c' = Append(s2c, d)
      BY <1>3, <2>5 DEF ServerReplies, Ends
    <3>2. srv' = "idle" /\ d \in Ends(n)'
      BY <1>0, <2>5, <3>1 DEF ServerReplies, Ends
    <3> HIDE DEF part
    <3>3. s2c' \in {<<d>>, <<part, d>>}
      <4>1. CASE s2c = <<>>
        BY <3>1, <4>1
      <4>2. CASE s2c = <<part>>
        <5>1. Append(<<part>>, d) = <<part, d>>
          BY AppendToOne
        <5> QED
          BY <3>1, <4>2, <5>1
      <4> QED
        BY <2>3, <4>1, <4>2
    <3> QED
      BY <1>0, <2>2, <3>2, <3>3 DEF Answering, part
  <2> QED
    BY <2>1, <2>4, <2>5
<1> QED
  BY <1>0, <1>2, <1>3 DEF Answering

(* ... and its packets stay before the marker that acknowledges a BREAK. *)
LEMMA ServerBreaks ==
    ASSUME TypeOK, Breaking, ServerStep \/ ServerSendsPart
    PROVE  Breaking'
<1>0. s2c \in Seq(ToClient) /\ srv \in {"idle", "busy", "partial", "broken"}
  BY DEF TypeOK, WireTypes
<1>1. \A n \in 0..MaxOps : Req(n).t = "req"
  BY DEF Req
<1>2. Break.t = "break"
  BY DEF Break
<1>3. ASSUME NEW n \in 0..MaxOps, srv = "idle", s2c = <<>>, c2s = <<Req(n), Break>>
      PROVE  Breaking'
  <2>1. Head(c2s) = Req(n) /\ Tail(c2s) = <<Break>>
    BY <1>3
  <2>2. ServerTakesRequest
    BY <1>1, <1>3, <2>1 DEF ServerStep, ServerReplies, ServerTakesBreak, ServerTakesReset,
       ServerSendsPart, Receive
  <2>3. c2s' = <<Break>> /\ srv' = "busy" /\ s2c' = <<>>
    BY <1>3, <2>1, <2>2 DEF ServerTakesRequest, Receive
  <2> QED
    BY <2>3 DEF Breaking, OnlyData
<1>4. CASE srv # "broken" /\ c2s = <<Break>> /\ OnlyData(s2c)
  <2>1. Head(c2s) = Break /\ Tail(c2s) = <<>>
    BY <1>4
  <2>2. CASE ServerTakesBreak
    <3>1. c2s' = <<>> /\ srv' = "broken" /\ s2c' = Append(s2c, Marker)
      BY <2>1, <2>2 DEF ServerTakesBreak, Receive
    <3> QED
      BY <1>0, <1>4, <3>1 DEF Breaking
  <2>3. CASE ServerReplies \/ ServerSendsPart
    <3>1. \E d : d.t = "data" /\ s2c' = Append(s2c, d)
      BY <2>3 DEF ServerReplies, ServerSendsPart, Data
    <3>2. OnlyData(s2c')
      BY <1>0, <1>4, <3>1 DEF OnlyData
    <3>3. srv' # "broken" /\ c2s' = <<Break>>
      BY <1>4, <2>3 DEF ServerReplies, ServerSendsPart
    <3> QED
      BY <3>2, <3>3 DEF Breaking
  <2> QED
    BY <1>2, <2>1, <2>2, <2>3 DEF ServerStep, ServerTakesRequest, ServerTakesReset, Receive
<1>5. CASE srv = "broken" /\ c2s = <<>>
  BY <1>5 DEF ServerStep, ServerTakesRequest, ServerReplies, ServerTakesBreak,
     ServerTakesReset, ServerSendsPart, Receive
<1> QED
  BY <1>3, <1>4, <1>5 DEF Breaking

(* The RESET is answered by a marker and the ORA-01013. *)
LEMMA ServerResets ==
    ASSUME TypeOK, Resetting, ServerStep \/ ServerSendsPart
    PROVE  Resetting'
<1>1. Reset.t = "reset"
  BY DEF Reset
<1>2. CASE c2s = <<Reset>> /\ s2c = <<>> /\ srv = "broken"
  <2>1. Head(c2s) = Reset /\ Tail(c2s) = <<>>
    BY <1>2
  <2>2. ServerTakesReset
    BY <1>1, <1>2, <2>1 DEF ServerStep, ServerTakesRequest, ServerReplies, ServerTakesBreak,
       ServerSendsPart, Receive
  <2>3. c2s' = <<>> /\ srv' = "idle" /\ s2c' = <<Marker, Data(srvOp, TRUE, "cancel")>>
    BY <1>2, <2>1, <2>2 DEF ServerTakesReset, Receive
  <2>4. srvOp \in 0..MaxOps
    BY DEF TypeOK, WireTypes
  <2> QED
    BY <2>3, <2>4 DEF Resetting
<1>3. CASE c2s = <<>> /\ srv = "idle"
  BY <1>3 DEF ServerStep, ServerTakesRequest, ServerReplies, ServerTakesBreak,
     ServerTakesReset, ServerSendsPart, Receive
<1> QED
  BY <1>2, <1>3 DEF Resetting

(* The server's steps. *)
LEMMA ServerKeepsWire ==
    ASSUME TypeOK, WireInv, ServerStep \/ ServerSendsPart
    PROVE  WireInv'
<1>0. /\ UNCHANGED <<env, phase, dead, pc, then, op, kind, ahead, stream, resp, lastErr>>
      /\ UNCHANGED <<wlock, hpc, cancels>>
  BY DEF ServerStep, ServerTakesRequest, ServerReplies, ServerTakesBreak, ServerTakesReset,
     ServerSendsPart, owner, handles
<1>1. Clean => FALSE
  BY DEF Clean, ServerStep, ServerTakesRequest, ServerReplies, ServerTakesBreak,
     ServerTakesReset, ServerSendsPart, Receive
<1>2. Acknowledged => FALSE
  BY DEF Acknowledged, ServerStep, ServerTakesRequest, ServerReplies, ServerTakesBreak,
     ServerTakesReset, ServerSendsPart, Receive
<1>3. Mine => Mine'
  <2>1. op \in 0..MaxOps
    BY DEF TypeOK, OwnerTypes
  <2>2. ASSUME NEW n, n = op, Answering(n)' PROVE Mine'
    BY <1>0, <2>2 DEF Mine, Answering, Ends
  <2> QED
    BY <2>1, <2>2, ServerAnswers DEF Mine
<1>4. Outstanding => Outstanding'
  BY <1>1, ServerAnswers DEF Outstanding
<1>5. Breaking => Breaking'
  BY ServerBreaks
<1>6. Resetting => Resetting'
  BY ServerResets
<1>7. Undisturbed' /\ OwnResponse'
  BY <1>0 DEF WireInv, Undisturbed, OwnResponse
<1>8. OwnerKnows'
  BY <1>0, <1>3 DEF WireInv, OwnerKnows
<1>9. CASE phase = "Dead"
  BY <1>0, <1>7, <1>8, <1>9 DEF WireInv, GivenUp
<1>10. CASE phase # "Dead"
  <2>1. WireAt
    BY <1>10 DEF WireInv
  <2>2. WireAt'
    BY <1>0, <1>1, <1>2, <1>3, <1>4, <1>5, <1>6, <2>1 DEF WireAt, SendPhase
  <2> QED
    BY <1>0, <1>7, <1>8, <1>10, <2>2 DEF WireInv
<1> QED
  BY <1>9, <1>10

(* An owner that returns to its caller: the session was given up because of *)
(* a fault, or phase and wire are those of an idle owner.                   *)
LEMMA GivesUp ==
    ASSUME TypeOK, WireInv, pc' = "idle", phase' = "Dead", env' = env,
           env \cap Faults # {}, UNCHANGED <<op, resp, hpc, stream, lastErr>>,
           wlock' = Nobody, ahead' => ahead
    PROVE  WireInv'
<1>1. Undisturbed' /\ OwnResponse'
  BY DEF WireInv, Undisturbed, OwnResponse
<1>2. OwnerKnows'
  BY DEF OwnerKnows, DrainSteps
<1> QED
  BY <1>1, <1>2 DEF WireInv, GivenUp

(* The owner begins an operation, on a clean wire or by a drain. *)
LEMMA BeginKeepsWire ==
    ASSUME TypeOK, WireInv, NEW k \in {"plain", "ahead"}, Begin(k)
    PROVE  WireInv'
<1>0. /\ pc = "idle" /\ phase # "Dead" /\ kind' = k /\ ~ahead' /\ resp' = {} /\ ~lastErr'
      /\ UNCHANGED <<env, stream, wlock, hpc, c2s, s2c, srv, srvOp>>
      /\ \/ /\ phase \in {"InFlight", "BreakSent"}
            /\ phase' = "Draining" /\ pc' = "break" /\ then' = k
         \/ /\ phase \notin {"InFlight", "BreakSent"}
            /\ pc' = StartOf(k) /\ UNCHANGED <<phase, then>>
  BY DEF Begin, handles, server, DrainPending, MarkBreakRequired
<1>1. phase \in {"Ready", "InFlight", "BreakSent"} /\ Outstanding /\ (phase = "Ready" => Clean)
  BY <1>0 DEF WireInv, WireAt
<1>2. (Clean' <=> Clean) /\ (Outstanding' <=> Outstanding)
  BY <1>0, SameWire
<1>3. Undisturbed' /\ OwnResponse'
  BY <1>0 DEF WireInv, Undisturbed, OwnResponse, StartOf
<1>4. OwnerKnows'
  BY <1>0 DEF OwnerKnows, DrainSteps, StartOf
<1>5. phase' # "Dead" /\ WireAt'
  BY <1>0, <1>1, <1>2 DEF WireAt, StartOf, SendPhase, DrainSteps
<1> QED
  BY <1>3, <1>4, <1>5 DEF WireInv

(* It takes the phase, writes, and starts to read. *)
LEMMA RequestKeepsWire ==
    ASSUME TypeOK, WireInv, BeginOperation \/ SendRequest \/ Flushed \/ ReadAhead
    PROVE  WireInv'
<1>1. CASE BeginOperation
  <2>0. pc = "begin" /\ phase = "Ready" /\ kind = "ahead" /\ Clean
    BY <1>1 DEF BeginOperation, WireInv, WireAt, GivenUp
  <2>1. /\ phase' = "InFlight" /\ pc' = "send"
        /\ UNCHANGED <<env, op, kind, ahead, stream, resp, lastErr, wlock, hpc>>
        /\ UNCHANGED <<c2s, s2c, srv, srvOp>>
    BY <1>1, <2>0 DEF BeginOperation, handles, server
  <2>2. Clean'
    BY <2>0, <2>1, SameWire
  <2>3. Undisturbed' /\ OwnResponse'
    BY <2>0, <2>1 DEF WireInv, Undisturbed, OwnResponse
  <2>4. OwnerKnows'
    BY <2>0, <2>1 DEF WireInv, OwnerKnows, DrainSteps
  <2>5. phase' # "Dead" /\ WireAt'
    BY <2>0, <2>1, <2>2 DEF WireAt, SendPhase, DrainSteps
  <2> QED
    BY <2>3, <2>4, <2>5 DEF WireInv
<1>2. CASE SendRequest
  <2>0. pc = "send" /\ phase # "Dead" /\ phase = SendPhase /\ Clean /\ ~ahead
    BY <1>2 DEF SendRequest, WireInv, WireAt, GivenUp, OwnerKnows
  <2>1. /\ pc' = "flush" /\ wlock' = Owner /\ c2s' = Append(c2s, Req(op))
        /\ UNCHANGED <<env, phase, op, kind, ahead, stream, resp, lastErr, hpc>>
        /\ UNCHANGED <<s2c, srv, srvOp>>
    BY <1>2 DEF SendRequest, handles, server
  <2>2. Mine'
    <3>1. c2s' = <<Req(op)>> /\ s2c' = <<>> /\ srv' = "idle" /\ op' = op
      BY <2>0, <2>1 DEF Clean
    <3> QED
      BY <3>1 DEF Mine, Answering
  <2>3. Undisturbed' /\ OwnResponse'
    BY <2>0, <2>1 DEF WireInv, Undisturbed, OwnResponse
  <2>4. OwnerKnows'
    BY <2>0, <2>1 DEF OwnerKnows, DrainSteps
  <2>5. phase' # "Dead" /\ WireAt'
    BY <2>0, <2>1, <2>2 DEF WireAt, SendPhase, DrainSteps
  <2> QED
    BY <2>3, <2>4, <2>5 DEF WireInv
<1>3. CASE Flushed
  <2>0. pc = "flush" /\ phase # "Dead" /\ phase = SendPhase /\ Mine /\ ~ahead /\ ~stream
    BY <1>3 DEF Flushed, WireInv, WireAt, GivenUp, OwnerKnows, Undisturbed
  <2>1. /\ wlock' = Nobody
        /\ UNCHANGED <<env, op, kind, stream, resp, lastErr, hpc, c2s, s2c, srv, srvOp>>
        /\ \/ kind = "ahead" /\ pc' = "idle" /\ ahead' = TRUE /\ phase' = "InFlight"
           \/ kind # "ahead" /\ pc' = "read" /\ UNCHANGED ahead /\ phase' = "InFlight"
    BY <1>3, <2>0 DEF Flushed, Arm, CanAdopt, SendPhase, handles, server
  <2>2. Mine' /\ Outstanding'
    <3>1. op \in 0..MaxOps
      BY DEF TypeOK, OwnerTypes
    <3> QED
      BY <2>0, <2>1, <3>1, SameWire DEF Outstanding, Mine
  <2>3. Undisturbed' /\ OwnResponse'
    BY <2>0, <2>1 DEF WireInv, Undisturbed, OwnResponse
  <2>4. OwnerKnows'
    BY <2>0, <2>1, <2>2 DEF OwnerKnows, DrainSteps
  <2>5. phase' # "Dead" /\ WireAt'
    BY <2>0, <2>1, <2>2 DEF WireAt, SendPhase, DrainSteps
  <2> QED
    BY <2>3, <2>4, <2>5 DEF WireInv
<1>4. CASE ReadAhead
  <2>0. /\ pc = "idle" /\ ahead /\ ~stream
        /\ phase # "Dead" => phase = "InFlight" /\ Mine
    BY <1>4 DEF ReadAhead, WireInv, OwnerKnows, Undisturbed
  <2>1. /\ ~ahead' /\ UNCHANGED <<env, op, stream, resp, lastErr, wlock, hpc>>
        /\ UNCHANGED <<c2s, s2c, srv, srvOp>>
    BY <1>4 DEF ReadAhead, handles, server
  <2>2. Undisturbed' /\ OwnResponse' /\ OwnerKnows'
    <3>1. pc' \in {"idle", "read"}
      BY <1>4, <2>0 DEF ReadAhead, Arm, Returned
    <3> QED
      BY <2>0, <2>1, <3>1 DEF WireInv, Undisturbed, OwnResponse, OwnerKnows, DrainSteps
  <2>3. CASE phase = "Dead"
    <3>1. phase' = "Dead" /\ pc' = "idle"
      BY <1>4, <2>0, <2>3 DEF ReadAhead, Arm, CanAdopt, Returned
    <3> QED
      BY <2>1, <2>2, <2>3, <3>1 DEF WireInv, GivenUp
  <2>4. CASE phase # "Dead"
    <3>1. phase' = "InFlight" /\ pc' = "read"
      BY <1>4, <2>0, <2>4 DEF ReadAhead, Arm, CanAdopt
    <3>2. Mine'
      BY <2>0, <2>1, <2>4, SameWire
    <3>3. WireAt'
      BY <3>1, <3>2 DEF WireAt, DrainSteps
    <3> QED
      BY <2>2, <3>1, <3>3 DEF WireInv
  <2> QED
    BY <2>3, <2>4
<1> QED
  BY <1>1, <1>2, <1>3, <1>4

(* A packet read of the outstanding operation's response. *)
LEMMA ReadsMine ==
    ASSUME Mine, s2c # <<>>, s2c' = Tail(s2c), UNCHANGED <<env, op, c2s, srv, srvOp>>
    PROVE  /\ Head(s2c).t = "data" /\ Head(s2c).op = op
           /\ ~Head(s2c).end => Mine'
           /\ Head(s2c).end => /\ Clean' /\ Head(s2c).err # "cancel"
                               /\ Head(s2c).err = "fatal" => "fatal" \in env
<1> DEFINE part == Data(op, FALSE, "none")
<1>1. part.t = "data" /\ part.op = op /\ part.end = FALSE
  BY DEF Data
<1>2. \A d \in Ends(op) : /\ d.t = "data" /\ d.op = op /\ d.end = TRUE /\ d.err # "cancel"
                          /\ d.err = "fatal" => "fatal" \in env
  BY DEF Ends, Data
<1>3. c2s = <<>> /\ srvOp = op
      /\ \/ srv = "partial" /\ s2c = <<part>>
         \/ srv = "idle" /\ \E d \in Ends(op) : s2c \in {<<d>>, <<part, d>>}
  BY DEF Mine, Answering
<1> HIDE DEF part
<1>4. CASE srv = "partial" /\ s2c = <<part>>
  <2>1. Head(s2c) = part /\ s2c' = <<>> /\ c2s' = <<>> /\ srv' = "partial" /\ srvOp' = op'
    BY <1>3, <1>4
  <2>2. Mine'
    BY <2>1 DEF Mine, Answering
  <2> QED
    BY <1>1, <2>1, <2>2
<1>5. ASSUME srv = "idle", NEW d \in Ends(op), s2c = <<d>> PROVE
           /\ Head(s2c) = d /\ Clean'
  BY <1>3, <1>5 DEF Clean
<1>6. ASSUME srv = "idle", NEW d \in Ends(op), s2c = <<part, d>> PROVE
           /\ Head(s2c) = part /\ Mine'
  <2>1. Head(s2c) = part /\ s2c' = <<d>> /\ c2s' = <<>> /\ srv' = "idle" /\ srvOp' = op'
    BY <1>3, <1>6
  <2>2. d \in Ends(op)'
    BY DEF Ends
  <2> QED
    BY <2>1, <2>2 DEF Mine, Answering
<1>7. CASE \E d \in Ends(op) : srv = "idle" /\ s2c \in {<<d>>, <<part, d>>}
  <2>1. PICK d \in Ends(op) : srv = "idle" /\ s2c \in {<<d>>, <<part, d>>}
    BY <1>7
  <2>2. CASE s2c = <<d>>
    BY <1>2, <1>5, <2>1, <2>2
  <2>3. CASE s2c = <<part, d>>
    BY <1>1, <1>6, <2>1, <2>3
  <2> QED
    BY <2>1, <2>2, <2>3
<1> QED
  BY <1>3, <1>4, <1>7

(* The owner reads. *)
LEMMA ReadKeepsWire ==
    ASSUME TypeOK, WireInv, ReadData \/ ReadMarker \/ SendReset \/ ReadGarbled
    PROVE  WireInv'
<1>0. /\ pc = "read" /\ phase = "InFlight" /\ Mine /\ ~ahead /\ ~stream /\ wlock = Nobody
      /\ s2c # <<>> /\ (ReadData \/ ReadMarker \/ ReadGarbled)
  BY DEF ReadData, ReadMarker, SendReset, ReadGarbled, Incoming, WireInv, WireAt, GivenUp,
     OwnerKnows, Undisturbed
<1>1. CASE ReadData
  <2>1. /\ s2c' = Tail(s2c) /\ resp' = resp \cup {Head(s2c).op}
        /\ UNCHANGED <<env, op, kind, ahead, stream, wlock, hpc, c2s, srv, srvOp>>
    BY <1>1 DEF ReadData, handles, server
  <2>2. /\ Head(s2c).op = op
        /\ ~Head(s2c).end => Mine'
        /\ Head(s2c).end => /\ Clean' /\ Head(s2c).err # "cancel"
                            /\ Head(s2c).err = "fatal" => "fatal" \in env
    BY <1>0, <2>1, ReadsMine
  <2>3. OwnResponse'
    BY <2>1, <2>2 DEF WireInv, OwnResponse
  <2>4. CASE ~Head(s2c).end
    <3>1. pc' = "read" /\ UNCHANGED <<phase, lastErr>>
      BY <1>1, <2>4 DEF ReadData
    <3>2. Undisturbed' /\ OwnerKnows'
      BY <1>0, <2>1, <3>1 DEF WireInv, Undisturbed, OwnerKnows, DrainSteps
    <3>3. WireAt' /\ phase' # "Dead"
      BY <1>0, <2>2, <2>4, <3>1 DEF WireAt, DrainSteps
    <3> QED
      BY <2>3, <3>2, <3>3 DEF WireInv
  <2>5. CASE Head(s2c).end
    <3>1. /\ pc' = "idle" /\ ~lastErr'
          /\ \/ Head(s2c).err = "fatal" /\ phase' = "Dead"
             \/ phase' = "Ready"
      BY <1>0, <1>1, <2>2, <2>5 DEF ReadData, Returned, OwnerMarkDead, CompleteOperation
    <3>2. Undisturbed' /\ OwnerKnows'
      BY <1>0, <2>1, <3>1 DEF WireInv, Undisturbed, OwnerKnows, DrainSteps
    <3>3. CASE phase' = "Ready"
      <4>1. WireAt'
        BY <2>2, <2>5, <3>1, <3>3 DEF WireAt, DrainSteps, Outstanding
      <4> QED
        BY <2>3, <3>2, <3>3, <4>1 DEF WireInv
    <3>4. CASE Head(s2c).err = "fatal" /\ phase' = "Dead"
      BY <2>1, <2>2, <2>3, <2>5, <3>1, <3>2, <3>4 DEF WireInv, GivenUp, Faults
    <3> QED
      BY <3>1, <3>3, <3>4
  <2> QED
    BY <2>4, <2>5
<1>2. CASE ReadMarker
  <2>1. /\ s2c' = Tail(s2c) /\ UNCHANGED <<env, op, c2s, srv, srvOp>> /\ Head(s2c).t = "marker"
    BY <1>2 DEF ReadMarker, Incoming, server
  <2> QED
    BY <1>0, <2>1, ReadsMine
<1>3. CASE ReadGarbled
  <2>1. /\ "garbled" \in env /\ phase' = "Dead" /\ pc' = "idle"
        /\ UNCHANGED <<env, op, ahead, stream, resp, lastErr, wlock, hpc>>
    BY <1>0, <1>3 DEF ReadGarbled, Returned, handles
  <2> QED
    BY <1>0, <2>1, GivesUp DEF Faults
<1> QED
  BY <1>0, <1>1, <1>2, <1>3

(* The owner abandons an operation, or breaks the session by itself. *)
LEMMA AbandonKeepsWire ==
    ASSUME TypeOK, WireInv, "in_send" \notin env,
           \/ AbandonRead \/ AbandonSend \/ SendFails \/ CallTimeout
           \/ RejectClosed \/ OwnerCancel \/ ReconcileCancel
    PROVE  WireInv'
<1>0. /\ UNCHANGED <<env, op, kind, stream, resp, hpc, c2s, s2c, srv, srvOp>>
      /\ ~stream /\ ~lastErr /\ ~lastErr' /\ (ahead' => ahead) /\ op \in 0..MaxOps
  BY DEF AbandonRead, AbandonSend, SendFails, CallTimeout, RejectClosed, OwnerCancel,
     ReconcileCancel, handles, server, owner, WireInv, Undisturbed, TypeOK, OwnerTypes
<1>1. (Clean' <=> Clean) /\ (Outstanding' <=> Outstanding)
  BY <1>0, SameWire
<1>2. phase # "Dead" => Outstanding \/ pc \notin {"idle", "begin", "send", "flush", "read"}
  BY <1>0 DEF WireInv, WireAt, Outstanding, Mine
<1>3. ASSUME pc' = "idle", wlock' = Nobody, ~ahead', Outstanding',
             phase' \in {"Ready", "InFlight", "BreakSent"}, phase' = "Ready" => Clean'
      PROVE  WireInv'
  <2>1. Undisturbed' /\ OwnResponse' /\ OwnerKnows'
    BY <1>0, <1>3 DEF WireInv, Undisturbed, OwnResponse, OwnerKnows, DrainSteps
  <2>2. WireAt' /\ phase' # "Dead"
    BY <1>3 DEF WireAt, DrainSteps
  <2> QED
    BY <2>1, <2>2 DEF WireInv
<1>4. ASSUME pc' = "break", phase' = "Draining", wlock' = Nobody, ~ahead', Outstanding',
             then' \in {"return", "close"}, then' = "close" => "close" \in env
      PROVE  WireInv'
  <2>1. Undisturbed' /\ OwnResponse' /\ OwnerKnows'
    BY <1>0, <1>4 DEF WireInv, Undisturbed, OwnResponse, OwnerKnows, DrainSteps
  <2>2. WireAt' /\ phase' # "Dead"
    BY <1>4 DEF WireAt, DrainSteps
  <2> QED
    BY <2>1, <2>2 DEF WireInv
<1>5. CASE AbandonRead
  <2>1. pc = "read" /\ phase = "InFlight" /\ ~ahead /\ wlock = Nobody /\ wlock' = wlock
    BY <1>5 DEF AbandonRead, Reading, WireInv, WireAt, GivenUp, OwnerKnows, Undisturbed
  <2>2. /\ pc' = "idle" /\ UNCHANGED <<ahead, lastErr>>
        /\ \/ phase' = "BreakSent" \/ ("close" \in env /\ phase' = "Dead")
    BY <1>0, <1>5, <2>1 DEF AbandonRead, PhaseAfterDrop, Reading, MarkBreakRequired,
       OwnerMarkDead, Returned
  <2>3. CASE phase' = "BreakSent"
    BY <1>1, <1>2, <1>3, <2>1, <2>2, <2>3
  <2>4. CASE "close" \in env /\ phase' = "Dead"
    BY <1>0, <2>1, <2>2, <2>4, GivesUp DEF Faults
  <2> QED
    BY <2>2, <2>3, <2>4
<1>6. CASE AbandonSend
  <2>1. /\ phase = SendPhase /\ ~ahead /\ wlock \notin Handles
        /\ (pc = "send" /\ Clean) \/ (pc = "flush" /\ kind = "ahead" /\ Outstanding)
    BY <1>0, <1>6, SessionAssumption DEF AbandonSend, Sending, WireInv, WireAt, GivenUp,
       OwnerKnows, Undisturbed, Outstanding, Mine
  <2>2. pc' = "idle" /\ phase' = phase /\ ~ahead'
    BY <1>0, <1>6, <2>1 DEF AbandonSend, PhaseAfterDrop, Reading, Returned
  <2>3. wlock' = Nobody
    BY <1>6, SessionAssumption DEF AbandonSend, Unlock, WireInv, Undisturbed
  <2> QED
    BY <1>1, <1>3, <2>1, <2>2, <2>3 DEF SendPhase, Outstanding
<1>7. CASE SendFails
  <2>1. /\ phase = SendPhase /\ ~ahead /\ "send_error" \in env
        /\ (pc = "send" /\ Clean) \/ (pc = "flush" /\ kind = "ahead" /\ Outstanding)
    BY <1>0, <1>7 DEF SendFails, Sending, WireInv, WireAt, GivenUp, OwnerKnows, Undisturbed,
       Outstanding, Mine
  <2>2. /\ pc' = "idle" /\ UNCHANGED <<ahead, lastErr>>
        /\ phase' = "Dead" \/ (phase' = phase /\ Clean)
    BY <1>0, <1>7, <2>1 DEF SendFails, OwnerMarkDead, Returned
  <2>3. wlock' = Nobody
    BY <1>7, SessionAssumption DEF SendFails, Unlock, WireInv, Undisturbed
  <2>4. CASE phase' = "Dead"
    BY <1>0, <2>1, <2>2, <2>3, <2>4, GivesUp DEF Faults
  <2>5. CASE phase' = phase /\ Clean
    BY <1>1, <1>3, <2>1, <2>2, <2>3, <2>5 DEF SendPhase, Outstanding
  <2> QED
    BY <2>2, <2>4, <2>5
<1>8. CASE CallTimeout
  <2>1. /\ pc \in {"begin", "send", "flush", "read"} /\ phase \in {"Ready", "InFlight"}
        /\ ~ahead /\ (wlock = Nobody \/ wlock = Owner)
    BY <1>8 DEF CallTimeout, InOperation, Reading, WireInv, WireAt, GivenUp, OwnerKnows,
       Undisturbed, SendPhase
  <2>2. PICK next \in {"return"} \cup (IF "close" \in env THEN {"close"} ELSE {}) :
             StartDrain(PhaseAfterDrop, "break", next, Returned)
    BY <1>8 DEF CallTimeout
  <2>3. PhaseAfterDrop \in {"Ready", "InFlight", "BreakSent"}
    BY <2>1 DEF PhaseAfterDrop, MarkBreakRequired
  <2>4. phase' = "Draining" /\ pc' = "break" /\ then' = next
    BY <2>2, <2>3 DEF StartDrain, CanDrainAfterBreak, DrainPending, MarkBreakSent
  <2>5. wlock' = Nobody /\ UNCHANGED <<ahead, lastErr>>
    BY <1>8, <2>1 DEF CallTimeout, Unlock
  <2>6. next \in {"return", "close"} /\ (next = "close" => "close" \in env)
    BY <2>2
  <2> QED
    BY <1>1, <1>2, <1>4, <2>1, <2>4, <2>5, <2>6
<1>9. CASE RejectClosed
  <2>1. /\ "close" \in env /\ pc = "idle" /\ pc' = "idle" /\ phase' = "Dead"
        /\ UNCHANGED <<lastErr, wlock>> /\ wlock = Nobody
    BY <1>9 DEF RejectClosed, OwnerMarkDead, owner, WireInv, Undisturbed
  <2> QED
    BY <1>0, <2>1, GivesUp DEF Faults
<1>10. CASE OwnerCancel
  <2>1. /\ pc = "idle" /\ phase # "Dead" /\ wlock' = Nobody /\ ~ahead'
        /\ pc' = "break" /\ phase' = "Draining" /\ then' = "return"
    BY <1>10 DEF OwnerCancel, StartDrain, CanDrainAfterBreak, DrainPending, MarkBreakSent,
       WireInv, Undisturbed
  <2> QED
    BY <1>1, <1>2, <1>4, <2>1
<1>11. CASE ReconcileCancel
  BY <1>0, <1>11 DEF ReconcileCancel
<1> QED
  BY <1>5, <1>6, <1>7, <1>8, <1>9, <1>10, <1>11

(* The drain's own BREAK follows at most one request and one response. *)
LEMMA BreakSends ==
    ASSUME Outstanding, c2s' = Append(c2s, Break), UNCHANGED <<s2c, srv, srvOp>>
    PROVE  Breaking'
<1>1. CASE Clean
  <2>1. c2s' = <<Break>> /\ s2c' = <<>> /\ srv' = "idle"
    BY <1>1 DEF Clean
  <2> QED
    BY <2>1 DEF Breaking, OnlyData
<1>2. ASSUME NEW n \in 0..MaxOps, Answering(n) PROVE Breaking'
  <2>1. CASE c2s = <<Req(n)>> /\ srv = "idle" /\ s2c = <<>>
    <3>1. c2s' = <<Req(n), Break>>
      BY <2>1, AppendToOne
    <3> QED
      BY <2>1, <3>1 DEF Breaking
  <2>2. CASE c2s = <<>>
    <3> DEFINE part == Data(n, FALSE, "none")
    <3>1. part.t = "data" /\ \A d \in Ends(n) : d.t = "data"
      BY DEF Ends, Data
    <3>2. c2s' = <<Break>> /\ srv' # "broken"
      <4>1. srv # "broken"
        BY <1>2 DEF Answering
      <4> QED
        BY <2>2, <4>1
    <3>3. s2c \in {<<>>, <<part>>} \/ \E d \in Ends(n) : s2c \in {<<d>>, <<part, d>>}
      BY <1>2, <2>2 DEF Answering
    <3> HIDE DEF part
    <3>4. OnlyData(s2c)
      BY <3>1, <3>3 DEF OnlyData
    <3> QED
      BY <3>2, <3>4 DEF Breaking
  <2> QED
    BY <1>2, <2>1, <2>2 DEF Answering
<1> QED
  BY <1>1, <1>2 DEF Outstanding

(* Phase A: up to the marker that acknowledges the BREAK. *)
LEMMA ReadsToMarker ==
    ASSUME TypeOK, Breaking, s2c # <<>>, s2c' = Tail(s2c), UNCHANGED <<c2s, srv>>
    PROVE  IF Head(s2c).t = "marker" THEN Acknowledged' ELSE Breaking'
<1>0. s2c \in Seq(ToClient)
  BY DEF TypeOK, WireTypes
<1>1. CASE srv # "broken" /\ c2s = <<Break>> /\ OnlyData(s2c)
  <2>1. Head(s2c).t = "data"
    BY <1>0, <1>1 DEF OnlyData
  <2>2. OnlyData(s2c')
    BY <1>0, <1>1 DEF OnlyData
  <2> QED
    BY <1>1, <2>1, <2>2 DEF Breaking
<1>2. ASSUME srv = "broken", c2s = <<>>, NEW q \in Seq(ToClient), OnlyData(q),
             s2c = Append(q, Marker)
      PROVE  IF Head(s2c).t = "marker" THEN Acknowledged' ELSE Breaking'
  <2>1. CASE q = <<>>
    <3>1. Head(s2c) = Marker /\ s2c' = <<>>
      BY <1>2, <2>1
    <3> QED
      BY <1>2, <3>1 DEF Acknowledged, Marker
  <2>2. CASE q # <<>>
    <3>1. Head(s2c) = q[1] /\ q[1].t = "data" /\ Tail(q) \in Seq(ToClient)
      BY <1>2, <2>2 DEF OnlyData
    <3>2. OnlyData(Tail(q))
      BY <1>2, <2>2 DEF OnlyData
    <3>3. s2c' = Append(Tail(q), Marker)
      <4>1. Marker \in ToClient
        BY PacketTypes
      <4> HIDE DEF Marker
      <4> QED
        BY <1>2, <2>2, <4>1
    <3> QED
      BY <1>2, <3>1, <3>2, <3>3 DEF Breaking
  <2> QED
    BY <2>1, <2>2
<1> QED
  BY <1>1, <1>2 DEF Breaking

(* Phase B: past the marker of the RESET, to the end of the ORA-01013. *)
LEMMA ReadsToEnd ==
    ASSUME Resetting, s2c # <<>>, s2c' = Tail(s2c), UNCHANGED <<c2s, srv>>
    PROVE  IF Head(s2c).t = "marker" THEN Resetting' ELSE Head(s2c).end /\ Clean'
<1>1. PICK n \in 0..MaxOps : s2c \in {<<Marker, Data(n, TRUE, "cancel")>>,
                                     <<Data(n, TRUE, "cancel")>>}
      /\ c2s = <<>> /\ srv = "idle"
  BY DEF Resetting
<1> DEFINE d == Data(n, TRUE, "cancel")
<1>2. d.t = "data" /\ d.end = TRUE /\ Marker.t = "marker"
  BY DEF Data, Marker
<1>3. CASE s2c = <<Marker, d>>
  <2> HIDE DEF d
  <2>1. Head(s2c) = Marker /\ s2c' = <<d>>
    BY <1>3
  <2> QED
    BY <1>1, <1>2, <2>1 DEF Resetting, d
<1>4. CASE s2c = <<d>>
  <2> HIDE DEF d
  <2>1. Head(s2c) = d /\ s2c' = <<>>
    BY <1>4
  <2> QED
    BY <1>1, <1>2, <2>1 DEF Clean
<1> QED
  BY <1>1, <1>3, <1>4

(* The drain. *)
LEMMA DrainKeepsWire ==
    ASSUME TypeOK, WireInv,
           \/ StreamMark \/ StreamDrain \/ SendBreak \/ DrainSendReset
           \/ DrainRead \/ DrainTimeout
    PROVE  WireInv'
<1>0. /\ pc \in {"break", "drainData", "drainReset", "drainMarker"} /\ phase = "Draining"
      /\ WireAt /\ ~ahead /\ ~stream /\ ~lastErr /\ wlock = Nobody /\ pc \in DrainSteps
      /\ then \in {kind, "return", "close"} /\ (then = "close" => "close" \in env)
      /\ kind \in {"plain", "ahead"}
      /\ SendBreak \/ DrainSendReset \/ DrainRead \/ DrainTimeout
  BY DEF StreamMark, StreamDrain, SendBreak, DrainSendReset, DrainSend, DrainRead,
     DrainTimeout, DrainSteps, WireInv, WireAt, GivenUp, OwnerKnows, Undisturbed, TypeOK,
     OwnerTypes
<1>1. /\ UNCHANGED <<env, then, op, kind, ahead, stream, resp, lastErr, wlock, hpc>>
      /\ UNCHANGED <<srv, srvOp>>
  BY <1>0 DEF SendBreak, DrainSendReset, DrainSend, DrainRead, DrainTimeout, handles, server
<1>2. ASSUME pc' # "flush" PROVE Undisturbed' /\ OwnResponse'
  BY <1>0, <1>1, <1>2 DEF WireInv, Undisturbed, OwnResponse
<1>3. OwnerKnows'
  BY <1>0, <1>1 DEF OwnerKnows
<1>4. ASSUME phase' = "Draining", pc' \in {"drainData", "drainReset", "drainMarker"},
             pc' = "drainData" => Breaking', pc' = "drainReset" => Acknowledged',
             pc' = "drainMarker" => Resetting'
      PROVE  WireInv'
  <2>1. WireAt' /\ phase' # "Dead"
    BY <1>4 DEF WireAt
  <2> QED
    BY <1>2, <1>3, <1>4, <2>1 DEF WireInv
<1>5. CASE SendBreak
  <2>1. pc = "break" /\ Outstanding /\ c2s' = Append(c2s, Break) /\ pc' = "drainData"
        /\ phase' = "Draining" /\ UNCHANGED s2c
    BY <1>0, <1>5 DEF SendBreak, DrainSend, WireAt
  <2>2. Breaking'
    BY <1>1, <2>1, BreakSends
  <2> QED
    BY <1>4, <2>1, <2>2
<1>6. CASE DrainSendReset
  <2>1. pc = "drainReset" /\ Acknowledged /\ c2s' = Append(c2s, Reset) /\ pc' = "drainMarker"
        /\ phase' = "Draining" /\ UNCHANGED s2c
    BY <1>0, <1>6 DEF DrainSendReset, DrainSend, WireAt
  <2>2. Resetting'
    <3>1. c2s' = <<Reset>> /\ s2c' = <<>> /\ srv' = "broken"
      BY <1>1, <2>1 DEF Acknowledged
    <3> QED
      BY <3>1 DEF Resetting
  <2> QED
    BY <1>4, <2>1, <2>2
<1>7. CASE DrainRead
  <2>0. s2c # <<>> /\ s2c' = Tail(s2c) /\ UNCHANGED c2s
    BY <1>7 DEF DrainRead
  <2>1. CASE pc = "drainData"
    <3>1. IF Head(s2c).t = "marker" THEN Acknowledged' ELSE Breaking'
      BY <1>0, <1>1, <2>0, <2>1, ReadsToMarker DEF WireAt
    <3>2. /\ phase' = "Draining"
          /\ pc' = IF Head(s2c).t = "marker" THEN "drainReset" ELSE "drainData"
      BY <1>0, <1>7, <2>0, <2>1 DEF DrainRead, Incoming
    <3> QED
      BY <1>4, <3>1, <3>2
  <2>2. CASE pc = "drainMarker"
    <3>1. IF Head(s2c).t = "marker" THEN Resetting' ELSE Head(s2c).end /\ Clean'
      BY <1>0, <1>1, <2>0, <2>2, ReadsToEnd DEF WireAt
    <3>2. CASE Head(s2c).t = "marker"
      <4>1. phase' = "Draining" /\ pc' = "drainMarker"
        BY <1>0, <1>7, <2>0, <2>2, <3>2 DEF DrainRead, Incoming
      <4> QED
        BY <1>4, <3>1, <3>2, <4>1
    <3>3. CASE Head(s2c).t # "marker"
      <4>1. Drained /\ Clean'
        BY <1>7, <2>0, <2>2, <3>1, <3>3 DEF DrainRead, Incoming
      <4>2. CASE then = "close"
        <5>1. phase' = "Dead" /\ pc' = "idle"
          BY <1>0, <4>1, <4>2 DEF Drained, OwnerMarkDead, Returned
        <5> QED
          BY <1>0, <1>1, <4>2, <5>1, GivesUp DEF Faults
      <4>3. CASE then # "close"
        <5>1. /\ phase' = "Ready"
              /\ \/ then = "plain" /\ pc' = "send"
                 \/ then = "ahead" /\ pc' = "begin"
                 \/ then = "return" /\ pc' = "idle"
          BY <1>0, <4>1, <4>3 DEF Drained, FinishDrainReady, StartOf, Returned
        <5>2. then = "plain" => kind = "plain"
          BY <1>0
        <5>3. then = "ahead" => kind = "ahead"
          BY <1>0
        <5>4. WireAt' /\ phase' # "Dead"
          BY <1>1, <4>1, <5>1, <5>2, <5>3 DEF WireAt, SendPhase, DrainSteps, Outstanding
        <5> QED
          BY <1>2, <1>3, <5>1, <5>4 DEF WireInv
      <4> QED
        BY <4>2, <4>3
    <3> QED
      BY <3>2, <3>3
  <2> QED
    BY <1>0, <1>7, <2>1, <2>2 DEF DrainRead
<1>8. CASE DrainTimeout
  <2>1. "stall" \in env
    <3>1. pc = "drainData" => ~WireQuiet
      <4> SUFFICES ASSUME Breaking, WireQuiet PROVE FALSE
        BY <1>0 DEF WireAt
      <4>1. c2s = <<>> /\ s2c = <<>>
        BY DEF WireQuiet
      <4>2. c2s # <<Break>> /\ \A n : c2s # <<Req(n), Break>>
        BY <4>1
      <4>3. PICK q \in Seq(ToClient) : s2c = Append(q, Marker)
        BY <4>2 DEF Breaking
      <4>4. Append(q, Marker) # <<>>
        <5>1. Marker \in ToClient
          BY PacketTypes
        <5>2. Append(q, Marker)[Len(q) + 1] = Marker /\ Len(q) \in Nat
              /\ Len(Append(q, Marker)) = Len(q) + 1
          BY <5>1
        <5>3. Len(Append(q, Marker)) # 0
          BY <5>2
        <5>4. Len(<<>>) = 0
          OBVIOUS
        <5> QED
          BY <5>3, <5>4
      <4> QED
        BY <4>1, <4>3, <4>4
    <3>2. pc = "drainMarker" => ~WireQuiet
      <4> SUFFICES ASSUME Resetting, WireQuiet PROVE FALSE
        BY <1>0 DEF WireAt
      <4>1. c2s = <<>> /\ s2c = <<>>
        BY DEF WireQuiet
      <4>2. c2s # <<Reset>> /\ \A a, b : s2c # <<a>> /\ s2c # <<a, b>>
        BY <4>1
      <4> QED
        BY <4>2 DEF Resetting
    <3> QED
      BY <1>0, <1>8, <3>1, <3>2 DEF DrainTimeout
  <2>2. phase' = "Dead" /\ pc' = "idle"
    BY <1>0, <1>8 DEF DrainTimeout, DrainFails, OwnerMarkDead, Returned
  <2> QED
    BY <1>0, <1>1, <2>1, <2>2, GivesUp DEF Faults
<1> QED
  BY <1>0, <1>5, <1>6, <1>7, <1>8

(* Every step of a session without rivals keeps the invariant. *)
LEMMA NextKeepsWire ==
    ASSUME \A e \in Environments : e \cap Rivals = {}, TypeOK, WireInv, [Next]_vars
    PROVE  WireInv'
<1>0. /\ "in_send" \notin env /\ ~StreamBreak
      /\ \A h \in Handles : ~HandleStep(h) /\ ~HandleCancel(h) /\ ~HandleSendFails(h)
                            /\ ~HandleDropped(h)
  BY NoRivals DEF WireInv
<1>1. CASE OwnerStep
  BY <1>1, RequestKeepsWire, ReadKeepsWire, DrainKeepsWire DEF OwnerStep
<1>2. CASE CallerStep
  BY <1>0, <1>2, BeginKeepsWire, RequestKeepsWire, ReadKeepsWire, AbandonKeepsWire
     DEF CallerStep
<1>3. CASE ServerStep \/ ServerSendsPart
  BY <1>3, ServerKeepsWire
<1>4. CASE UNCHANGED vars
  <2>1. /\ UNCHANGED <<env, phase, pc, then, op, kind, ahead, stream, resp, lastErr>>
        /\ UNCHANGED <<wlock, hpc, c2s, s2c, srv, srvOp>>
    BY <1>4 DEF vars, owner, handles, server
  <2>2. /\ (Clean' <=> Clean) /\ (Outstanding' <=> Outstanding) /\ (Mine' <=> Mine)
        /\ (Breaking' <=> Breaking) /\ (Acknowledged' <=> Acknowledged)
        /\ (Resetting' <=> Resetting)
    BY <2>1, SameWire
  <2> QED
    BY <2>1, <2>2 DEF WireInv, Undisturbed, OwnerKnows, OwnResponse, GivenUp, WireAt, SendPhase
<1> QED
  BY <1>0, <1>1, <1>2, <1>3, <1>4 DEF Next

(* A new connection's wire is clean. *)
LEMMA InitWire == Init => WireInv
<1> SUFFICES ASSUME Init PROVE WireInv
  OBVIOUS
<1>1. Clean /\ Outstanding
  BY DEF Init, Clean, Outstanding
<1>2. Undisturbed /\ OwnerKnows /\ OwnResponse
  BY DEF Init, Undisturbed, OwnerKnows, OwnResponse, DrainSteps
<1>3. phase # "Dead" /\ WireAt
  BY <1>1 DEF Init, WireAt, DrainSteps
<1> QED
  BY <1>2, <1>3 DEF WireInv

(* However the owner drops futures, meets deadlines, cancels, reads ahead,  *)
(* shuts down, and the server stalls, fails or garbles: no operation ever   *)
(* reads a packet of another one's response.                                *)
THEOREM OwnResponsesOnly ==
    ASSUME \A e \in Environments : e \cap Rivals = {}
    PROVE  Spec => []OwnResponse
<1>1. TypeOK /\ WireInv /\ [Next]_vars => WireInv'
  BY NextKeepsWire
<1>2. WireInv => OwnResponse
  BY DEF WireInv
<1> QED
  BY <1>1, <1>2, InitWire, SessionTypeCorrect, PTL DEF Spec

(* Under the same events a session that is Ready and idle has a clean wire *)
(* in both directions, so a successful drain left nothing behind.           *)
THEOREM ReadyIsClean ==
    ASSUME \A e \in Environments : e \cap Rivals = {}
    PROVE  Spec => []CleanWhenReady
<1>1. TypeOK /\ WireInv /\ [Next]_vars => WireInv'
  BY NextKeepsWire
<1>2. WireInv => CleanWhenReady
  BY DEF WireInv, WireAt, CleanWhenReady, Clean
<1> QED
  BY <1>1, <1>2, InitWire, SessionTypeCorrect, PTL DEF Spec

(* Under the same events only a fault makes the owner give a session up:    *)
(* the drain of a timeout, a drop or a cancel never runs into its bound.    *)
THEOREM CancelsAreSurvived ==
    ASSUME \A e \in Environments : e \cap Rivals = {}
    PROVE  Spec => []SurvivesCancel
<1>1. TypeOK /\ WireInv /\ [Next]_vars => WireInv'
  BY NextKeepsWire
<1>2. WireInv => SurvivesCancel
  BY DEF WireInv, GivenUp, SurvivesCancel
<1> QED
  BY <1>1, <1>2, InitWire, SessionTypeCorrect, PTL DEF Spec
============================================================================
